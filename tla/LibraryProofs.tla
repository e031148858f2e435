---------------------------- MODULE LibraryProofs ----------------------------
(***************************************************************************)
(* Proofs about the parts of MCLibrary: what a list never does, and that it is the    *)
(* sequence its callers expect, what the writers keep of what was written, that buffers *)
(* know their size, that strings are searched, trimmed, split and replaced right, that  *)
(* checked arithmetic is exact and that numbers are read back, for every set of items,   *)
(* bytes and texts, every size, every width of a word and every sequence of calls.       *)
(***************************************************************************)
EXTENDS MCLibrary, Powers, RankingProofs, SequenceTheorems

-----------------------------------------------------------------------------
(* The list *)

LEMMA HalfIsLess ==
  ASSUME NEW n \in Nat, n > 0
  PROVE  n \div 2 \in Nat /\ n \div 2 < n /\ (n * 2) \div 2 = n
OBVIOUS

\* A realloc hands back memory for as many items as were asked for.
LEMMA ReallocatedType ==
  ASSUME TypeOK, NEW n \in Nat, NEW r \in Reallocated(n)
  PROVE  r.data \in BOOLEAN /\ r.cells \in [0 .. n - 1 -> Item \cup {NullItem, Junk}]
<1>1. Kept(n) \in [0 .. n - 1 -> Item \cup {NullItem, Junk}]
  <2>1. \A i \in DOMAIN cells : cells[i] \in Item \cup {NullItem, Junk}
    BY DEF TypeOK
  <2> QED BY <2>1 DEF Kept
<1>2. Fresh(n) \in [0 .. n - 1 -> Item \cup {NullItem, Junk}]
  BY DEF Fresh
<1>3. r = [data |-> TRUE, cells |-> Kept(n)] \/ r = [data |-> FALSE, cells |-> Fresh(n)]
  BY DEF Reallocated
<1>4. CASE r = [data |-> TRUE, cells |-> Kept(n)]
  <2>1. r.data = TRUE /\ r.cells = Kept(n)
    BY <1>4
  <2> QED BY <1>1, <2>1
<1>5. CASE r = [data |-> FALSE, cells |-> Fresh(n)]
  <2>1. r.data = FALSE /\ r.cells = Fresh(n)
    BY <1>5
  <2> QED BY <1>2, <2>1
<1> QED BY <1>3, <1>4, <1>5

\* The counts agree with the block: no item is written or read past its end, also
\* after reallocs that failed.
THEOREM TypeCorrect == Spec => []TypeOK
<1>1. Init => TypeOK
  BY ListAssumption DEF Init, TypeOK, Fresh
<1>2. TypeOK /\ [Next]_vars => TypeOK'
  <2> SUFFICES ASSUME TypeOK, [Next]_vars PROVE TypeOK'
    OBVIOUS
  <2> USE ListAssumption
  <2>1. ASSUME NEW x \in Item, Push(x) PROVE TypeOK'
    <3>1. CASE itemCnt >= allocCnt /\ ExpandAndWrite(x)
      <4>1. PICK r \in Reallocated(allocCnt * 2) :
              data' = r.data /\ cells' = [r.cells EXCEPT ![itemCnt] = x]
        BY <3>1 DEF ExpandAndWrite
      <4>2. allocCnt * 2 \in Nat /\ itemCnt = allocCnt /\ allocCnt > 0
        BY <3>1 DEF TypeOK
      <4>3. r.data \in BOOLEAN
            /\ r.cells \in [0 .. allocCnt * 2 - 1 -> Item \cup {NullItem, Junk}]
        BY <4>2, ReallocatedType
      <4>4. cells' \in [0 .. allocCnt * 2 - 1 -> Item \cup {NullItem, Junk}]
        BY <4>1, <4>2, <4>3
      <4>5. allocCnt' = allocCnt * 2 /\ itemCnt' = itemCnt + 1 /\ result' = result
        BY <2>1, <3>1 DEF Push, ExpandAndWrite
      <4>6. data' \in BOOLEAN
        BY <4>1, <4>3
      <4>7. allocCnt' \in Nat /\ allocCnt' >= InitSize /\ itemCnt' \in 0 .. allocCnt'
        BY <4>2, <4>5 DEF TypeOK
      <4> QED BY <4>4, <4>5, <4>6, <4>7 DEF TypeOK
    <3>2. CASE itemCnt < allocCnt /\ cells' = [cells EXCEPT ![itemCnt] = x]
               /\ UNCHANGED <<allocCnt, data>>
      BY <2>1, <3>2 DEF Push, TypeOK
    <3> QED BY <2>1, <3>1, <3>2 DEF Push
  <2>2. ASSUME Pop PROVE TypeOK'
    <3>1. CASE itemCnt > 0 /\ ShouldShrink(itemCnt') /\ Move(Half)
      <4>1. PICK r \in Reallocated(Half) : data' = r.data /\ cells' = r.cells
        BY <3>1 DEF Move
      <4>2. Half \in Nat /\ Half >= InitSize /\ itemCnt' = itemCnt - 1 /\ itemCnt' < Half
        BY <2>2, <3>1, HalfIsLess DEF Pop, TypeOK, Half, ShouldShrink
      <4>3. r.data \in BOOLEAN /\ r.cells \in [0 .. Half - 1 -> Item \cup {NullItem, Junk}]
        BY <4>2, ReallocatedType
      <4>4. result' = cells[itemCnt']
        BY <2>2, <3>1 DEF Pop
      <4> QED BY <3>1, <4>1, <4>2, <4>3, <4>4 DEF Move, TypeOK
    <3>2. CASE itemCnt > 0 /\ UNCHANGED <<data, cells, allocCnt>>
      BY <2>2, <3>2 DEF Pop, TypeOK
    <3> QED BY <2>2, <3>1, <3>2 DEF Pop, TypeOK
  <2>3. ASSUME NEW i \in Index, Get(i) PROVE TypeOK'
    BY <2>3 DEF Get, TypeOK
  <2>4. ASSUME NEW i \in Index, NEW x \in Item, Set(i, x) PROVE TypeOK'
    BY <2>4 DEF Set, TypeOK
  <2>5. ASSUME Wipe PROVE TypeOK'
    <3>1. PICK r \in Reallocated(InitSize) : data' = r.data /\ cells' = r.cells
      BY <2>5 DEF Wipe, Move
    <3>2. r.data \in BOOLEAN /\ r.cells \in [0 .. InitSize - 1 -> Item \cup {NullItem, Junk}]
      BY ReallocatedType
    <3> QED BY <2>5, <3>1, <3>2 DEF Wipe, Move, TypeOK
  <2>6. ASSUME ClearNoFree PROVE TypeOK'
    BY <2>6 DEF ClearNoFree, TypeOK
  <2>7. ASSUME FreeItems PROVE TypeOK'
    BY <2>7 DEF FreeItems, TypeOK
  <2>8. CASE UNCHANGED vars
    BY <2>8 DEF vars, TypeOK
  <2> QED BY <2>1, <2>2, <2>3, <2>4, <2>5, <2>6, <2>7, <2>8 DEF Next
<1> QED BY <1>1, <1>2, PTL DEF Spec

\* A reallocation is not undone by the next call.
THEOREM Settled == Spec => SettledAfterResize
<1> DEFINE Step ==
      /\ allocCnt' > allocCnt => itemCnt' - 1 >= allocCnt' \div 2
      /\ allocCnt' < allocCnt => itemCnt' < allocCnt'
<1>1. ASSUME TypeOK, [Next]_vars PROVE [Step]_vars
  <2> USE ListAssumption
  <2>1. allocCnt \in Nat /\ allocCnt > 0 /\ itemCnt \in 0 .. allocCnt /\ allocCnt >= InitSize
    BY <1>1 DEF TypeOK
  <2>2. ASSUME NEW x \in Item, Push(x) PROVE Step
    <3>1. CASE itemCnt >= allocCnt /\ ExpandAndWrite(x)
      BY <2>1, <2>2, <3>1, HalfIsLess DEF Push, ExpandAndWrite
    <3>2. CASE UNCHANGED allocCnt
      BY <2>1, <3>2
    <3> QED BY <2>2, <3>1, <3>2 DEF Push
  <2>3. ASSUME Pop PROVE Step
    <3>1. CASE ShouldShrink(itemCnt') /\ Move(Half)
      BY <2>1, <3>1, HalfIsLess DEF Move, Half, ShouldShrink
    <3>2. CASE UNCHANGED allocCnt
      BY <2>1, <3>2
    <3> QED BY <2>3, <3>1, <3>2 DEF Pop
  <2>4. ASSUME Wipe PROVE Step
    BY <2>1, <2>4 DEF Wipe, Move
  <2>5. ASSUME UNCHANGED allocCnt PROVE Step
    BY <2>1, <2>5
  <2>6. (\E i \in Index : Get(i)) \/ (\E i \in Index, x \in Item : Set(i, x))
        \/ ClearNoFree \/ FreeItems \/ UNCHANGED vars => UNCHANGED allocCnt
    BY DEF Get, Set, ClearNoFree, FreeItems, vars
  <2> QED BY <1>1, <2>2, <2>3, <2>4, <2>5, <2>6 DEF Next
<1> QED BY <1>1, TypeCorrect, PTL DEF Spec, SettledAfterResize

-----------------------------------------------------------------------------
(* While every realloc succeeds.                                           *)

\* A block that is there comes back with what it held.
LEMMA KeptAll ==
  ASSUME ~MayFail, TypeOK, data, NEW n \in Nat, NEW r \in Reallocated(n)
  PROVE  /\ r.data
         /\ r.cells \in [0 .. n - 1 -> Item \cup {NullItem, Junk}]
         /\ \A i \in 0 .. n - 1 : i < allocCnt => r.cells[i] = cells[i]
BY DEF TypeOK, Reallocated, Kept

IInv == TypeOK /\ (~MayFail => data) /\ NothingForeign

\* The list that callers see after an expansion, a shrink and a write.
LEMMA Invariant == ASSUME ~MayFail, ListAssumption, Junk \notin Item \cup {NullItem}
                   PROVE  IInv /\ TypeOK' /\ [Next]_vars => IInv'
<1> SUFFICES ASSUME IInv, TypeOK', [Next]_vars PROVE data' /\ NothingForeign'
  BY DEF IInv
<1>0. data /\ TypeOK /\ InitSize \in Nat
  BY DEF IInv
<1>a. \A i \in 0 .. allocCnt - 1 : i < itemCnt => cells[i] # Junk
  BY DEF IInv, NothingForeign, TypeOK
<1>b. DOMAIN cells' = 0 .. allocCnt' - 1 /\ DOMAIN cells = 0 .. allocCnt - 1
  BY <1>0 DEF TypeOK
<1>1. ASSUME NEW n \in Nat, NEW m \in Nat, Move(n), m <= itemCnt, n = allocCnt', m = itemCnt'
      PROVE  data' /\ NothingForeign'
  <2>1. PICK r \in Reallocated(n) : data' = r.data /\ cells' = r.cells
    BY <1>1 DEF Move
  <2>2. r.data /\ \A i \in 0 .. n - 1 : i < allocCnt => r.cells[i] = cells[i]
    BY <1>0, KeptAll
  <2>3. \A i \in 0 .. n - 1 : i < m => i < allocCnt /\ i < itemCnt
    BY <1>0, <1>1 DEF TypeOK
  <2>4. \A i \in 0 .. n - 1 : i < m => cells'[i] # Junk
    BY <1>0, <1>a, <2>1, <2>2, <2>3 DEF TypeOK
  <2>5. data'
    BY <2>1, <2>2
  <2> QED BY <1>1, <1>b, <2>4, <2>5 DEF NothingForeign
<1>2. ASSUME NEW x \in Item, Push(x) PROVE data' /\ NothingForeign'
  <2>1. CASE itemCnt >= allocCnt /\ ExpandAndWrite(x)
    <3>1. PICK r \in Reallocated(allocCnt * 2) :
            data' = r.data /\ cells' = [r.cells EXCEPT ![itemCnt] = x]
      BY <2>1 DEF ExpandAndWrite
    <3>2. allocCnt * 2 \in Nat /\ itemCnt = allocCnt /\ itemCnt' = itemCnt + 1
          /\ allocCnt' = allocCnt * 2
      BY <1>0, <1>2, <2>1 DEF TypeOK, Push, ExpandAndWrite
    <3>3. /\ r.data
          /\ r.cells \in [0 .. allocCnt * 2 - 1 -> Item \cup {NullItem, Junk}]
          /\ \A i \in 0 .. allocCnt * 2 - 1 : i < allocCnt => r.cells[i] = cells[i]
      BY <1>0, <3>2, KeptAll
    <3>4. \A i \in 0 .. allocCnt' - 1 : i < itemCnt' => cells'[i] # Junk
      BY <1>0, <1>a, <3>1, <3>2, <3>3 DEF TypeOK
    <3>5. data'
      BY <3>1, <3>3
    <3> QED BY <1>b, <3>4, <3>5 DEF NothingForeign
  <2>2. CASE /\ itemCnt < allocCnt /\ cells' = [cells EXCEPT ![itemCnt] = x]
             /\ UNCHANGED <<allocCnt, data>>
    <3>1. \A i \in 0 .. allocCnt' - 1 : i < itemCnt' => cells'[i] # Junk
      BY <1>0, <1>2, <1>a, <2>2 DEF TypeOK, Push
    <3>2. data'
      BY <1>0, <2>2
    <3> QED BY <1>b, <3>1, <3>2 DEF NothingForeign
  <2> QED BY <1>2, <2>1, <2>2 DEF Push
<1>3. ASSUME Pop PROVE data' /\ NothingForeign'
  <2>a. itemCnt \in Nat /\ allocCnt \in Nat
    BY <1>0 DEF TypeOK
  <2>b. itemCnt' = itemCnt \/ (itemCnt > 0 /\ itemCnt' = itemCnt - 1)
    BY <1>3 DEF Pop
  <2>1. CASE itemCnt > 0 /\ ShouldShrink(itemCnt') /\ Move(Half)
    <3>1. Half \in Nat
      BY <2>a, <2>1, HalfIsLess DEF Half
    <3>2. Half = allocCnt'
      BY <2>1 DEF Move
    <3>3. itemCnt' \in Nat /\ itemCnt' <= itemCnt
      BY <2>a, <2>b
    <3> QED BY <1>1, <2>1, <3>1, <3>2, <3>3
  <2>2. CASE itemCnt' <= itemCnt /\ UNCHANGED <<data, cells, allocCnt>>
    <3>1. \A i \in 0 .. allocCnt' - 1 : i < itemCnt' => cells'[i] # Junk
      BY <1>0, <1>a, <2>2, TypeOK' DEF TypeOK
    <3>2. data'
      BY <1>0, <2>2
    <3> QED BY <1>b, <3>1, <3>2 DEF NothingForeign
  <2>3. itemCnt' <= itemCnt
    BY <2>a, <2>b
  <2> QED BY <1>3, <2>1, <2>2, <2>3 DEF Pop
<1>4. ASSUME NEW i \in Index, NEW x \in Item, Set(i, x) PROVE data' /\ NothingForeign'
  <2>1. \A j \in 0 .. allocCnt' - 1 : j < itemCnt' => cells'[j] # Junk
    BY <1>0, <1>4, <1>a, ListAssumption DEF TypeOK, Set
  <2>2. data'
    BY <1>0, <1>4 DEF Set
  <2> QED BY <1>b, <2>1, <2>2 DEF NothingForeign
<1>5. ASSUME Wipe PROVE data' /\ NothingForeign'
  <2>1. InitSize = allocCnt' /\ itemCnt' = 0 /\ itemCnt' \in Nat /\ itemCnt' <= itemCnt
    BY <1>0, <1>5 DEF Wipe, Move, TypeOK
  <2> QED BY <1>0, <1>1, <1>5, <2>1 DEF Wipe
<1>6. ASSUME FreeItems PROVE data' /\ NothingForeign'
  <2>1. \A j \in 0 .. allocCnt' - 1 : j < itemCnt' => cells'[j] # Junk
    BY <1>0, <1>6, <1>a DEF TypeOK, FreeItems
  <2>2. data'
    BY <1>0, <1>6 DEF FreeItems
  <2> QED BY <1>b, <2>1, <2>2 DEF NothingForeign
<1>7. ASSUME UNCHANGED <<data, cells, allocCnt>>, itemCnt' = itemCnt \/ itemCnt' = 0
      PROVE  data' /\ NothingForeign'
  <2>1. \A j \in 0 .. allocCnt' - 1 : j < itemCnt' => cells'[j] # Junk
    BY <1>0, <1>7, <1>a DEF TypeOK
  <2>2. data'
    BY <1>0, <1>7
  <2> QED BY <1>b, <2>1, <2>2 DEF NothingForeign
<1>8. (\E i \in Index : Get(i)) \/ ClearNoFree \/ UNCHANGED vars
      => UNCHANGED <<data, cells, allocCnt>> /\ (itemCnt' = itemCnt \/ itemCnt' = 0)
  BY DEF Get, ClearNoFree, vars
<1> QED BY <1>2, <1>3, <1>4, <1>5, <1>6, <1>7, <1>8 DEF Next

LEMMA InvariantHolds ==
  ASSUME ~MayFail, Junk \notin Item \cup {NullItem}
  PROVE  Spec => []IInv
<1>1. Init => IInv
  <2> SUFFICES ASSUME Init PROVE IInv
    OBVIOUS
  <2>1. TypeOK
    BY ListAssumption DEF Init, TypeOK, Fresh
  <2>2. data /\ itemCnt = 0 /\ DOMAIN cells \subseteq Nat
    BY <2>1 DEF Init, TypeOK
  <2> QED BY <2>1, <2>2 DEF IInv, NothingForeign
<1>2. IInv /\ TypeOK' /\ [Next]_vars => IInv'
  BY Invariant, ListAssumption
<1> QED BY <1>1, <1>2, TypeCorrect, PTL DEF Spec

\* While every realloc succeeds, callers never read what they did not write.
THEOREM NeverForeign ==
  ASSUME Junk \notin Item \cup {NullItem}
  PROVE  Spec => []NothingForeign
<1>1. CASE ~MayFail
  <2>1. Spec => []IInv
    BY <1>1, InvariantHolds
  <2>2. IInv => NothingForeign
    BY DEF IInv
  <2> QED BY <2>1, <2>2, PTL
<1>2. CASE MayFail
  <2>1. NothingForeign
    BY <1>2 DEF NothingForeign
  <2> QED BY <2>1, PTL
<1> QED BY <1>1, <1>2

-----------------------------------------------------------------------------
(* The refinement.                                                          *)

\* Contents that are the same item by item are the same sequence.
LEMMA SameContents ==
  ASSUME itemCnt' = itemCnt, itemCnt \in Nat, \A i \in 0 .. itemCnt - 1 : cells'[i] = cells[i]
  PROVE  Contents' = Contents
BY DEF Contents

LEMMA ContentsLength ==
  ASSUME itemCnt \in Nat
  PROVE  Len(Contents) = itemCnt /\ \A k \in 1 .. itemCnt : Contents[k] = cells[k - 1]
BY DEF Contents

\* While every realloc succeeds the list is the sequence that callers expect: every
\* step of the list is a step of ItemList or changes nothing there.
THEOREM RefinesItemList ==
  ASSUME ~MayFail, Junk \notin Item \cup {NullItem}
  PROVE  Spec => Refines
<1>1. Init => Promise!Init
  BY DEF Init, Promise!Init, Contents
<1>2. ASSUME IInv, TypeOK', [Next]_vars PROVE [Promise!Next]_(Promise!vars)
  <2>0. data /\ TypeOK /\ itemCnt \in 0 .. allocCnt /\ allocCnt \in Nat /\ itemCnt \in Nat
    BY <1>2 DEF IInv, TypeOK
  <2>a. Len(Contents) = itemCnt /\ \A k \in 1 .. itemCnt : Contents[k] = cells[k - 1]
    BY <2>0, ContentsLength
  <2>1. ASSUME NEW x \in Item, Push(x) PROVE Promise!Push(x)
    <3>1. /\ itemCnt' = itemCnt + 1 /\ result' = result
          /\ cells'[itemCnt] = x
          /\ \A i \in 0 .. itemCnt - 1 : cells'[i] = cells[i]
      <4>1. CASE itemCnt >= allocCnt /\ ExpandAndWrite(x)
        <5>1. PICK r \in Reallocated(allocCnt * 2) :
                cells' = [r.cells EXCEPT ![itemCnt] = x]
          BY <4>1 DEF ExpandAndWrite
        <5>2. allocCnt * 2 \in Nat /\ itemCnt = allocCnt /\ itemCnt \in 0 .. allocCnt * 2 - 1
          BY <2>0, <4>1, ListAssumption DEF TypeOK
        <5>3. /\ r.cells \in [0 .. allocCnt * 2 - 1 -> Item \cup {NullItem, Junk}]
              /\ \A i \in 0 .. allocCnt * 2 - 1 : i < allocCnt => r.cells[i] = cells[i]
          BY <2>0, <5>2, KeptAll
        <5> QED BY <2>1, <5>1, <5>2, <5>3 DEF Push
      <4>2. CASE itemCnt < allocCnt /\ cells' = [cells EXCEPT ![itemCnt] = x]
        BY <2>0, <2>1, <4>2 DEF Push, TypeOK
      <4> QED BY <2>1, <4>1, <4>2 DEF Push
    <3>2. Contents' = Append(Contents, x)
      BY <2>0, <2>a, <3>1 DEF Contents
    <3> QED BY <3>1, <3>2 DEF Promise!Push
  <2>2. ASSUME Pop PROVE Promise!Pop
    <3>1. CASE itemCnt = 0
      <4>1. Contents = <<>> /\ Contents' = <<>>
        BY <2>2, <3>1 DEF Contents, Pop
      <4> QED BY <2>2, <3>1, <4>1 DEF Pop, Promise!Pop
    <3>2. CASE itemCnt > 0
      <4>1. itemCnt' = itemCnt - 1 /\ result' = cells[itemCnt - 1]
        BY <2>2, <3>2 DEF Pop
      <4>2. \A i \in 0 .. itemCnt' - 1 : cells'[i] = cells[i]
        <5>1. CASE ShouldShrink(itemCnt') /\ Move(Half)
          <6>1. PICK r \in Reallocated(Half) : cells' = r.cells
            BY <5>1 DEF Move
          <6>2. Half \in Nat /\ Half <= allocCnt
            BY <2>0, <3>2, HalfIsLess DEF Half
          <6>3. \A i \in 0 .. Half - 1 : i < allocCnt => r.cells[i] = cells[i]
            BY <2>0, <6>2, KeptAll
          <6>4. itemCnt' < Half
            BY <5>1 DEF ShouldShrink
          <6> QED BY <2>0, <4>1, <6>1, <6>2, <6>3, <6>4
        <5>2. CASE UNCHANGED cells
          BY <5>2
        <5> QED BY <2>2, <3>2, <5>1, <5>2 DEF Pop
      <4>3. Contents # <<>> /\ Contents[Len(Contents)] = cells[itemCnt - 1]
        BY <2>0, <2>a, <3>2
      <4>4. Contents' = [k \in 1 .. Len(Contents) - 1 |-> Contents[k]]
        BY <2>0, <2>a, <3>2, <4>1, <4>2 DEF Contents
      <4> QED BY <4>1, <4>3, <4>4 DEF Promise!Pop
    <3> QED BY <2>0, <3>1, <3>2
  <2>3. ASSUME NEW i \in Index, Get(i) PROVE Promise!Get(i)
    <3>1. Contents' = Contents
      BY <2>0, <2>3, SameContents DEF Get
    <3>2. i \in Nat
      BY ListAssumption
    <3>3. i < itemCnt => Contents[i + 1] = cells[i]
      BY <2>0, <2>a, <3>2
    <3> QED BY <2>3, <2>a, <3>1, <3>3 DEF Get, Promise!Get
  <2>4. ASSUME NEW i \in Index, NEW x \in Item, Set(i, x) PROVE Promise!Set(i, x)
    <3>1. i \in Nat /\ itemCnt' = itemCnt /\ result' = result
      BY <2>4, ListAssumption DEF Set
    <3>2. CASE i < itemCnt
      <4>1. cells' = [cells EXCEPT ![i] = x] /\ DOMAIN cells = 0 .. allocCnt - 1
        BY <2>0, <2>4, <3>2 DEF Set, TypeOK
      <4>2. \A k \in 1 .. itemCnt : cells'[k - 1] = IF k = i + 1 THEN x ELSE cells[k - 1]
        BY <2>0, <3>1, <3>2, <4>1
      <4>3. Contents' = [k \in 1 .. itemCnt |-> IF k = i + 1 THEN x ELSE cells[k - 1]]
        BY <3>1, <4>2 DEF Contents
      <4>4. [Contents EXCEPT ![i + 1] = x]
              = [k \in 1 .. itemCnt |-> IF k = i + 1 THEN x ELSE cells[k - 1]]
        BY DEF Contents
      <4> QED BY <2>a, <3>1, <3>2, <4>3, <4>4 DEF Promise!Set
    <3>3. CASE ~(i < itemCnt)
      <4>1. cells' = cells
        BY <2>4, <3>3 DEF Set
      <4>2. Contents' = Contents
        BY <2>0, <3>1, <4>1, SameContents
      <4> QED BY <2>a, <3>1, <3>3, <4>2 DEF Promise!Set
    <3> QED BY <3>2, <3>3
  <2>5. ASSUME itemCnt' = 0, result' = result PROVE Promise!Clear
    BY <2>5 DEF Promise!Clear, Contents
  <2>6. ASSUME FreeItems PROVE Promise!FreeItems
    <3>1. itemCnt' = itemCnt /\ result' = result /\ DOMAIN cells = 0 .. allocCnt - 1
      BY <2>0, <2>6 DEF FreeItems, TypeOK
    <3>2. \A i \in 0 .. itemCnt - 1 : cells'[i] = NullItem
      BY <2>0, <2>6, <3>1 DEF FreeItems
    <3>3. Contents' = [k \in 1 .. Len(Contents) |-> NullItem]
      BY <2>0, <2>a, <3>1, <3>2 DEF Contents
    <3> QED BY <3>1, <3>3 DEF Promise!FreeItems
  <2>7. CASE UNCHANGED vars
    BY <2>0, <2>7, SameContents DEF vars, Promise!vars
  <2>8. Wipe \/ ClearNoFree => itemCnt' = 0 /\ result' = result
    BY DEF Wipe, ClearNoFree
  <2> QED BY <1>2, <2>1, <2>2, <2>3, <2>4, <2>5, <2>6, <2>7, <2>8 DEF Next, Promise!Next
<1>3. Spec => []IInv
  BY InvariantHolds
<1> QED BY <1>1, <1>2, <1>3, TypeCorrect, PTL DEF Spec, Promise!Spec, Refines

-----------------------------------------------------------------------------
(* The writers *)

\* What is one modulus too large wraps once.
LEMMA WrapsOnce ==
  ASSUME NEW m \in Nat, NEW n \in Nat \ {0}, n <= m, m < 2 * n
  PROVE  m % n = m - n
<1> DEFINE q == m \div n
<1>1. q \in Nat /\ m % n \in 0 .. n - 1 /\ m = n * q + (m % n)
  OBVIOUS
<1>2. q = 1
  <2> HIDE DEF q
  <2>1. (q >= 2 => n * q >= 2 * n) /\ (q = 0 => n * q = 0)
    BY <1>1
  <2>. QED BY <1>1, <2>1
<1>. QED BY <1>1, <1>2

LEMMA WriterConstants ==
  /\ SizeWord \in Nat \ {0} /\ Nul \notin Byte /\ Junk \notin Byte \cup {Nul}
  /\ NewSize \subseteq 1 .. SizeWord - 1 /\ WriterText \subseteq Seq(Byte)
  BY StorageAssumption DEF Writer!WritersAssumption

\* A block of n cells, the first h of which have what was written.
Holds(c, n, h, w) ==
  /\ c \in Seq(Byte \cup {Nul, Junk}) /\ Len(c) = n
  /\ w \in Seq(Byte) /\ Len(w) = h /\ h <= n
  /\ \A k \in 1 .. h : c[k] = w[k]

\* A string that no resize filled has room behind its head, for the terminator.
InBlock(c, n, h, w, isCut) ==
  /\ n \in 1 .. SizeWord - 1 /\ h \in Nat /\ Holds(c, n, h, w)
  /\ kind = "string" /\ ~isCut => h < n /\ (h > 0 => c[h + 1] = Nul)

WriterInv ==
  /\ kind \in Writer!Kinds /\ cut \in BOOLEAN
  /\ InBlock(bytes, writeEnd, writeHead, written, cut)
  /\ todo \in Seq(Byte) /\ outcome \in {"ok", "error", "busy"}
  /\ kind = "string" /\ ~cut /\ outcome = "ok" => todo = <<>>

LEMMA FreshHolds ==
  ASSUME NEW n \in Nat
  PROVE  Holds(Writer!Fresh(n), n, 0, <<>>)
<1>1. Writer!Fresh(n) \in Seq(Byte \cup {Nul, Junk}) /\ Len(Writer!Fresh(n)) = n
  BY DEF Writer!Fresh
<1>2. <<>> \in Seq(Byte) /\ Len(<<>>) = 0 /\ 1 .. 0 = {}
  OBVIOUS
<1>. QED BY <1>1, <1>2 DEF Holds

\* A block that is reallocated keeps what fits.
LEMMA ReallocatedHolds ==
  ASSUME Holds(bytes, writeEnd, writeHead, written), NEW n \in Nat, NEW h \in Nat,
         h <= n, h <= writeHead
  PROVE  /\ Holds(Writer!Reallocated(n), n, h, SubSeq(written, 1, h))
         /\ \A k \in 1 .. n : k <= writeEnd => Writer!Reallocated(n)[k] = bytes[k]
<1> DEFINE c == Writer!Reallocated(n)  w == SubSeq(written, 1, h)
<1>1. /\ bytes \in Seq(Byte \cup {Nul, Junk}) /\ Len(bytes) = writeEnd
      /\ written \in Seq(Byte) /\ Len(written) = writeHead /\ writeHead <= writeEnd
      /\ \A k \in 1 .. writeHead : bytes[k] = written[k]
  BY DEF Holds
<1>2. writeEnd \in Nat /\ writeHead \in Nat
  BY <1>1
<1>3. \A k \in 1 .. n : k <= writeEnd => bytes[k] \in Byte \cup {Nul, Junk}
  BY <1>1, <1>2
<1>4. c = [k \in 1 .. n |-> IF k <= writeEnd THEN bytes[k] ELSE Junk]
  BY <1>1 DEF Writer!Reallocated, Writer!size
<1> HIDE DEF c
<1>5. c \in Seq(Byte \cup {Nul, Junk}) /\ Len(c) = n
  BY <1>3, <1>4
<1>6. \A k \in 1 .. n : k <= writeEnd => c[k] = bytes[k]
  BY <1>4
<1>7. w \in Seq(Byte) /\ Len(w) = h /\ \A k \in 1 .. h : w[k] = written[k]
  BY <1>1, <1>2
<1> HIDE DEF w
<1>8. \A k \in 1 .. h : k \in 1 .. n /\ k <= writeEnd /\ k \in 1 .. writeHead
  BY <1>1, <1>2
<1>9. \A k \in 1 .. h : c[k] = w[k]
  BY <1>1, <1>6, <1>7, <1>8
<1>10. Holds(c, n, h, w)
  BY <1>5, <1>7, <1>9 DEF Holds
<1>. QED BY <1>6, <1>10 DEF c, w

\* A byte is put behind those that were written, and the terminator behind it.
LEMMA PutHolds ==
  ASSUME NEW c, NEW n \in Nat, writeHead \in Nat, Holds(c, n, writeHead, written), writeHead < n,
         NEW x \in Byte
  PROVE  /\ Holds(Writer!Put(c, x), n, writeHead + 1, Append(written, x))
         /\ kind = "string" /\ writeHead + 2 <= n => Writer!Put(c, x)[writeHead + 2] = Nul
<1> DEFINE d == Writer!Put(c, x)  h == writeHead  w == Append(written, x)
<1>1. /\ c \in Seq(Byte \cup {Nul, Junk}) /\ Len(c) = n
      /\ written \in Seq(Byte) /\ Len(written) = h /\ \A k \in 1 .. h : c[k] = written[k]
  BY DEF Holds
<1>2. /\ d \in Seq(Byte \cup {Nul, Junk}) /\ Len(d) = n
      /\ \A k \in 1 .. n : k <= h => d[k] = c[k]
      /\ d[h + 1] = x /\ (kind = "string" /\ h + 2 <= n => d[h + 2] = Nul)
  <2>1. CASE kind = "string"
    <3> DEFINE e == [c EXCEPT ![h + 1] = x]
    <3>1. d = [e EXCEPT ![h + 2] = Nul]
      BY <2>1 DEF Writer!Put
    <3>2. /\ e \in Seq(Byte \cup {Nul, Junk}) /\ Len(e) = n /\ e[h + 1] = x
          /\ \A k \in 1 .. n : k <= h => e[k] = c[k]
      BY <1>1
    <3> HIDE DEF e, d
    <3>3. DOMAIN e = 1 .. n /\ \A k \in 1 .. n : e[k] \in Byte \cup {Nul, Junk}
      BY <3>2
    <3>4. d = [k \in 1 .. n |-> IF k = h + 2 THEN Nul ELSE e[k]]
      BY <3>1, <3>3
    <3>5. d \in Seq(Byte \cup {Nul, Junk}) /\ Len(d) = n
      BY <3>3, <3>4
    <3>6. \A k \in 1 .. n : k <= h + 1 => d[k] = e[k]
      BY <3>4
    <3>7. h + 1 \in 1 .. n /\ (h + 2 <= n => h + 2 \in 1 .. n)
      OBVIOUS
    <3>8. d[h + 1] = x /\ (h + 2 <= n => d[h + 2] = Nul)
      BY <3>2, <3>4, <3>6, <3>7
    <3>9. \A k \in 1 .. n : k <= h => d[k] = c[k]
      BY <3>2, <3>6
    <3>. QED BY <3>5, <3>8, <3>9
  <2>2. CASE kind # "string"
    <3>1. d = [c EXCEPT ![h + 1] = x]
      BY <2>2 DEF Writer!Put
    <3>. QED BY <1>1, <2>2, <3>1
  <2>. QED BY <2>1, <2>2
<1> HIDE DEF d
<1>3. /\ w \in Seq(Byte) /\ Len(w) = h + 1 /\ w[h + 1] = x
      /\ \A k \in 1 .. h : w[k] = written[k]
  BY <1>1
<1> HIDE DEF w
<1>4. \A k \in 1 .. h + 1 : (k \in 1 .. h /\ k \in 1 .. n /\ k <= h) \/ k = h + 1
  OBVIOUS
<1>5. \A k \in 1 .. h + 1 : d[k] = w[k]
  BY <1>1, <1>2, <1>3, <1>4
<1>6. Holds(d, n, h + 1, w)
  BY <1>2, <1>3, <1>5 DEF Holds
<1>. QED BY <1>2, <1>6 DEF d, w

LEMMA WriterStarts == Writer!Init => WriterInv
<1> SUFFICES ASSUME Writer!Init PROVE WriterInv
  OBVIOUS
<1>1. PICK n \in NewSize :
        /\ bytes = Writer!Fresh(n) /\ writeHead = 0 /\ writeEnd = n
        /\ todo = <<>> /\ outcome = "ok" /\ written = <<>> /\ cut = FALSE
  BY DEF Writer!Init
<1>2. n \in 1 .. SizeWord - 1 /\ n \in Nat
  BY WriterConstants
<1>3. Holds(bytes, n, 0, <<>>)
  BY <1>1, <1>2, FreshHolds
<1>4. InBlock(bytes, writeEnd, writeHead, written, cut)
  BY <1>1, <1>2, <1>3 DEF InBlock
<1>5. todo \in Seq(Byte)
  BY <1>1
<1>. QED BY <1>1, <1>4, <1>5 DEF WriterInv, Writer!Init

\* One byte is written.
LEMMA WriteKeeps ==
  ASSUME WriterInv, NEW x \in Byte, Writer!Write(x)
  PROVE  /\ InBlock(bytes', writeEnd', writeHead', written', cut') /\ cut' \in BOOLEAN
         /\ cut' => cut
<1> DEFINE h == writeHead  n == writeEnd
<1>1. /\ n \in 1 .. SizeWord - 1 /\ h \in Nat /\ h <= n /\ SizeWord \in Nat
      /\ Len(bytes) = n /\ Len(written) = h /\ written \in Seq(Byte)
      /\ Holds(bytes, n, h, written) /\ cut \in BOOLEAN /\ kind \in Writer!Kinds
  BY WriterConstants DEF WriterInv, InBlock, Holds
<1>2. /\ writeHead' = h + 1 /\ written' = Append(written, x)
      /\ cut' = (cut /\ writeHead' >= writeEnd')
  BY DEF Writer!Write
<1>3. CASE /\ ~Writer!Full /\ bytes' = Writer!Put(bytes, x) /\ writeEnd' = writeEnd
  <2>1. h < n /\ (kind = "string" => h < n - 1)
    BY <1>1, <1>3 DEF Writer!Full
  <2>2. /\ Holds(bytes', n, h + 1, written')
        /\ kind = "string" /\ h + 2 <= n => bytes'[h + 2] = Nul
    BY <1>1, <1>2, <1>3, <2>1, PutHolds
  <2>3. kind = "string" => h + 1 < n /\ bytes'[h + 1 + 1] = Nul
    BY <1>1, <2>1, <2>2
  <2>. QED BY <1>1, <1>2, <1>3, <2>2, <2>3 DEF InBlock
<1>4. CASE /\ Writer!Full /\ (Writer!size * 2) % SizeWord >= Writer!size
           /\ bytes' = Writer!Put(Writer!Reallocated(Writer!size * 2), x)
           /\ writeEnd' = Writer!size * 2
  <2>1. Writer!size = n
    BY <1>1 DEF Writer!size
  <2>2. n * 2 < SizeWord
    <3>1. (n * 2) % SizeWord >= n
      BY <1>4, <2>1
    <3>2. ASSUME n * 2 >= SizeWord PROVE FALSE
      <4>1. /\ n * 2 \in Nat /\ SizeWord \in Nat \ {0}
            /\ SizeWord <= n * 2 /\ n * 2 < 2 * SizeWord /\ n * 2 - SizeWord < n
        BY <1>1, <3>2
      <4>2. (n * 2) % SizeWord = n * 2 - SizeWord
        BY ONLY <4>1, WrapsOnce
      <4>. QED BY <1>1, <3>1, <4>1, <4>2
    <3>. QED BY <1>1, <3>2
  <2> DEFINE c == Writer!Reallocated(n * 2)
  <2>3. SubSeq(written, 1, h) = written
    BY <1>1
  <2>4. Holds(c, n * 2, h, written)
    <3>1. n * 2 \in Nat /\ h <= n * 2 /\ h <= h
      BY <1>1
    <3>2. Holds(c, n * 2, h, SubSeq(written, 1, h))
      BY <1>1, <3>1, ReallocatedHolds
    <3>. QED BY <2>3, <3>2
  <2>5. bytes' = Writer!Put(c, x) /\ h < n * 2 /\ n * 2 \in Nat
    BY <1>1, <1>4, <2>1
  <2> HIDE DEF c
  <2>6. /\ Holds(bytes', n * 2, h + 1, written')
        /\ kind = "string" /\ h + 2 <= n * 2 => bytes'[h + 2] = Nul
    BY <1>1, <1>2, <2>4, <2>5, PutHolds
  <2>7. kind = "string" /\ ~cut' => h + 1 < n * 2 /\ bytes'[h + 1 + 1] = Nul
    <3> SUFFICES ASSUME kind = "string", ~cut' PROVE h + 1 < n * 2 /\ bytes'[h + 1 + 1] = Nul
      OBVIOUS
    <3>1. h + 1 < n * 2
      <4>1. CASE cut
        <5>1. writeEnd' = n * 2 /\ ~(h + 1 >= writeEnd')
          BY <1>2, <1>4, <2>1, <4>1
        <5>. QED BY <1>1, <5>1
      <4>2. CASE ~cut
        <5>1. h < n
          BY <4>2 DEF WriterInv, InBlock
        <5>. QED BY <1>1, <5>1
      <4>. QED BY <4>1, <4>2
    <3>2. h + 2 <= n * 2 /\ h + 1 + 1 = h + 2
      BY <1>1, <3>1
    <3>. QED BY <2>6, <3>1, <3>2
  <2>8. writeEnd' = n * 2 /\ n * 2 \in 1 .. SizeWord - 1
    BY <1>1, <1>4, <2>1, <2>2
  <2>. QED BY <1>1, <1>2, <2>6, <2>7, <2>8 DEF InBlock
<1>. QED BY <1>3, <1>4 DEF Writer!Write

LEMMA BlockUnchanged ==
  ASSUME WriterInv, UNCHANGED <<kind, bytes, writeHead, writeEnd, written, cut>>
  PROVE  InBlock(bytes, writeEnd, writeHead, written, cut)'
  BY DEF WriterInv, InBlock, Holds

LEMMA WriterKeeps ==
  ASSUME WriterInv, [Writer!Next]_writerVars
  PROVE  WriterInv'
<1>1. /\ kind \in Writer!Kinds /\ cut \in BOOLEAN /\ todo \in Seq(Byte)
      /\ outcome \in {"ok", "error", "busy"}
      /\ InBlock(bytes, writeEnd, writeHead, written, cut)
      /\ kind = "string" /\ ~cut /\ outcome = "ok" => todo = <<>>
  BY DEF WriterInv
<1>2. <<>> \in Seq(Byte)
  OBVIOUS
<1>3. CASE UNCHANGED writerVars
  <2>1. InBlock(bytes, writeEnd, writeHead, written, cut)'
    BY <1>3, BlockUnchanged DEF writerVars
  <2>. QED BY <1>1, <1>3, <2>1 DEF WriterInv, writerVars
<1>4. ASSUME kind' = kind, NEW x \in Byte, Writer!Write(x)
      PROVE  /\ InBlock(bytes, writeEnd, writeHead, written, cut)'
             /\ cut' \in BOOLEAN /\ (cut' => cut)
  BY <1>4, WriteKeeps DEF InBlock, Holds
<1>5. ASSUME kind' = kind, Writer!Fail PROVE WriterInv'
  <2>1. InBlock(bytes, writeEnd, writeHead, written, cut)'
    BY <1>5, BlockUnchanged DEF Writer!Fail
  <2>. QED BY <1>1, <1>2, <1>5, <2>1 DEF Writer!Fail, WriterInv
<1>6. ASSUME kind' = kind, NEW x \in Byte, Writer!WriteByte(x) PROVE WriterInv'
  <2>1. CASE Writer!Write(x) /\ outcome' = "ok" /\ todo' = <<>>
    BY <1>1, <1>2, <1>4, <1>6, <2>1 DEF WriterInv
  <2>. QED BY <1>5, <1>6, <2>1 DEF Writer!WriteByte
<1>7. ASSUME kind' = kind, NEW text \in WriterText, Writer!Begin(text) PROVE WriterInv'
  <2>1. InBlock(bytes, writeEnd, writeHead, written, cut)'
    BY <1>7, BlockUnchanged DEF Writer!Begin
  <2>2. text \in Seq(Byte)
    BY WriterConstants
  <2>. QED BY <1>1, <1>7, <2>1, <2>2 DEF Writer!Begin, WriterInv
<1>8. ASSUME kind' = kind, Writer!Step PROVE WriterInv'
  <2>1. Head(todo) \in Byte /\ Tail(todo) \in Seq(Byte)
    BY <1>1, <1>8 DEF Writer!Step
  <2>2. CASE Writer!Write(Head(todo)) /\ todo' = Tail(todo) /\ outcome' = outcome
    <3>1. outcome' = "busy"
      BY <1>8, <2>2 DEF Writer!Step
    <3>. QED BY <1>1, <1>4, <1>8, <2>1, <2>2, <3>1 DEF WriterInv
  <2>. QED BY <1>5, <1>8, <2>2 DEF Writer!Step
<1>9. ASSUME kind' = kind, Writer!Return PROVE WriterInv'
  <2>1. InBlock(bytes, writeEnd, writeHead, written, cut)'
    BY <1>9, BlockUnchanged DEF Writer!Return
  <2>2. kind = "string" /\ ~cut => todo = <<>>
    BY <1>1, <1>9 DEF Writer!Return, InBlock
  <2>. QED BY <1>1, <1>9, <2>1, <2>2 DEF Writer!Return, WriterInv
<1>10. ASSUME kind' = kind, NEW n \in NewSize, Writer!Resize(n) PROVE WriterInv'
  <2>1. CASE outcome' = "error" /\ UNCHANGED <<bytes, writeHead, writeEnd, written, cut>>
    <3>1. InBlock(bytes, writeEnd, writeHead, written, cut)'
      BY <1>10, <2>1, BlockUnchanged
    <3>2. todo' = <<>>
      BY <1>10 DEF Writer!Resize
    <3>. QED BY <1>1, <1>2, <1>10, <2>1, <3>1, <3>2 DEF WriterInv
  <2>2. CASE /\ bytes' = Writer!Reallocated(n) /\ writeEnd' = n
             /\ writeHead' = IF n < writeHead THEN n ELSE writeHead
             /\ written' = SubSeq(written, 1, writeHead')
             /\ cut' = (cut \/ n <= writeHead)
             /\ outcome' = "ok"
    <3>1. /\ n \in 1 .. SizeWord - 1 /\ n \in Nat
          /\ writeHead \in Nat /\ writeEnd \in Nat
          /\ Holds(bytes, writeEnd, writeHead, written)
          /\ writeHead' \in Nat /\ writeHead' <= n /\ writeHead' <= writeHead
      BY <1>1, <2>2, WriterConstants DEF InBlock
    <3>2. /\ Holds(Writer!Reallocated(n), n, writeHead', SubSeq(written, 1, writeHead'))
          /\ \A k \in 1 .. n : k <= writeEnd => Writer!Reallocated(n)[k] = bytes[k]
      BY <3>1, ReallocatedHolds
    <3>3. Holds(bytes', n, writeHead', written')
      BY <2>2, <3>2
    <3>4. ASSUME kind = "string", ~cut'
          PROVE  writeHead' < n /\ (writeHead' > 0 => bytes'[writeHead' + 1] = Nul)
      <4>1. ~cut /\ writeHead < n /\ writeHead' = writeHead
        <5>1. ~cut /\ ~(n <= writeHead)
          BY ONLY <2>2, <3>4, Zenon
        <5>2. writeHead < n
          BY <3>1, <5>1
        <5>. QED BY <2>2, <3>1, <5>1, <5>2
      <4>2. writeHead < writeEnd /\ (writeHead > 0 => bytes[writeHead + 1] = Nul)
        BY <1>1, <3>4, <4>1 DEF InBlock
      <4>3. writeHead + 1 \in 1 .. n /\ writeHead + 1 <= writeEnd
        BY <3>1, <4>1, <4>2
      <4>. QED BY <2>2, <3>2, <4>1, <4>2, <4>3
    <3>5. InBlock(bytes, writeEnd, writeHead, written, cut)'
      BY <1>10, <2>2, <3>1, <3>3, <3>4 DEF InBlock, Holds
    <3>6. todo' = <<>> /\ cut' \in BOOLEAN
      BY <1>1, <1>10, <2>2 DEF Writer!Resize
    <3>. QED BY <1>1, <1>2, <1>10, <2>2, <3>5, <3>6 DEF WriterInv
  <2>. QED BY <1>10, <2>1, <2>2 DEF Writer!Resize
<1>. QED BY <1>3, <1>6, <1>7, <1>8, <1>9, <1>10 DEF Writer!Next

LEMMA WriterHolds ==
  WriterInv => /\ Writer!TypeOK /\ Writer!HoldsWritten
               /\ Writer!Terminated /\ Writer!StringOkWritesAll
<1> SUFFICES ASSUME WriterInv
             PROVE  /\ Writer!TypeOK /\ Writer!HoldsWritten
                    /\ Writer!Terminated /\ Writer!StringOkWritesAll
  OBVIOUS
<1>1. /\ writeEnd \in 1 .. SizeWord - 1 /\ writeHead \in Nat /\ writeHead <= writeEnd
      /\ bytes \in Seq(Byte \cup {Nul, Junk}) /\ Len(bytes) = writeEnd
      /\ written \in Seq(Byte) /\ Len(written) = writeHead
      /\ \A k \in 1 .. writeHead : bytes[k] = written[k]
      /\ SizeWord \in Nat
  BY WriterConstants DEF WriterInv, InBlock, Holds
<1>2. Writer!TypeOK
  BY <1>1 DEF Writer!TypeOK, Writer!size, WriterInv
<1>3. Writer!HoldsWritten
  <2> DEFINE s == SubSeq(bytes, 1, writeHead)
  <2>1. /\ s \in Seq(Byte \cup {Nul, Junk}) /\ Len(s) = writeHead
        /\ \A k \in 1 .. writeHead : s[k] = bytes[k]
    BY <1>1
  <2> HIDE DEF s
  <2>2. s = written
    BY <1>1, <2>1
  <2>. QED BY <2>2 DEF s, Writer!HoldsWritten
<1>4. Writer!Terminated /\ Writer!StringOkWritesAll
  BY DEF WriterInv, InBlock, Writer!Terminated, Writer!StringOkWritesAll
<1>. QED BY <1>2, <1>3, <1>4

-----------------------------------------------------------------------------
(* The buffers *)

\* The loop of buffer_equals ends at the first of n places where a and b are not the same,
\* or at the last one.
IsStop(u, v, n, i, j) ==
  /\ j \in i .. n
  /\ \A k \in i .. j - 1 : u[k] = v[k]
  /\ j = n \/ u[j] # v[j]

IsLoop(u, v, n, at) ==
  at = [i \in 1 .. n |-> IF i < n /\ u[i] = v[i] THEN at[i + 1] ELSE i]

LEMMA StopExists ==
  ASSUME NEW u, NEW v, NEW n \in Nat, NEW i \in 1 .. n
  PROVE  \E j : IsStop(u, v, n, i, j)
<1> DEFINE T == {j \in i .. n : j = n \/ u[j] # v[j]}
<1>1. T \in SUBSET Nat /\ n \in T
  OBVIOUS
<1>2. PICK j \in T : \A k \in T : j <= k
  BY <1>1, LeastOf
<1>3. j \in i .. n /\ (j = n \/ u[j] # v[j])
  OBVIOUS
<1>4. ASSUME NEW k \in i .. j - 1 PROVE u[k] = v[k]
  <2>1. k \in i .. n /\ k < j
    BY <1>3
  <2>2. k \notin T
    BY <1>2, <1>3, <2>1
  <2>. QED BY <2>1, <2>2
<1>. QED BY <1>3, <1>4 DEF IsStop

LEMMA StopUnique ==
  ASSUME NEW u, NEW v, NEW n \in Nat, NEW i \in 1 .. n, NEW j, NEW k,
         IsStop(u, v, n, i, j), IsStop(u, v, n, i, k)
  PROVE  j = k
<1>1. /\ j \in i .. n /\ k \in i .. n /\ (j = n \/ u[j] # v[j]) /\ (k = n \/ u[k] # v[k])
      /\ (\A p \in i .. j - 1 : u[p] = v[p]) /\ \A p \in i .. k - 1 : u[p] = v[p]
  BY DEF IsStop
<1>2. ~(j < k)
  <2> SUFFICES ASSUME j < k PROVE FALSE
    OBVIOUS
  <2>1. j \in i .. k - 1 /\ j # n
    BY <1>1
  <2>. QED BY <1>1, <2>1
<1>3. ~(k < j)
  <2> SUFFICES ASSUME k < j PROVE FALSE
    OBVIOUS
  <2>1. k \in i .. j - 1 /\ k # n
    BY <1>1
  <2>. QED BY <1>1, <2>1
<1>. QED BY <1>1, <1>2, <1>3

LEMMA StopBefore ==
  ASSUME NEW u, NEW v, NEW n \in Nat, NEW i \in 1 .. n, NEW j
  PROVE  /\ i < n /\ u[i] = v[i] /\ IsStop(u, v, n, i + 1, j) => IsStop(u, v, n, i, j)
         /\ i = n \/ u[i] # v[i] => IsStop(u, v, n, i, i)
<1>1. ASSUME i < n, u[i] = v[i], IsStop(u, v, n, i + 1, j) PROVE IsStop(u, v, n, i, j)
  <2>1. j \in i + 1 .. n /\ (\A k \in i + 1 .. j - 1 : u[k] = v[k]) /\ (j = n \/ u[j] # v[j])
    BY <1>1 DEF IsStop
  <2>2. \A k \in i .. j - 1 : k = i \/ k \in i + 1 .. j - 1
    BY <2>1
  <2>. QED BY <1>1, <2>1, <2>2 DEF IsStop
<1>2. ASSUME i = n \/ u[i] # v[i] PROVE IsStop(u, v, n, i, i)
  <2>1. i \in i .. n /\ i .. i - 1 = {}
    OBVIOUS
  <2>. QED BY <1>2, <2>1 DEF IsStop
<1>. QED BY <1>1, <1>2

LEMMA LoopExists ==
  ASSUME NEW u, NEW v, NEW n \in Nat
  PROVE  \E at : IsLoop(u, v, n, at)
<1> DEFINE at == [i \in 1 .. n |-> CHOOSE j : IsStop(u, v, n, i, j)]
<1>1. \A i \in 1 .. n : IsStop(u, v, n, i, at[i])
  BY StopExists
<1> HIDE DEF at
<1>2. ASSUME NEW i \in 1 .. n PROVE at[i] = IF i < n /\ u[i] = v[i] THEN at[i + 1] ELSE i
  <2>1. CASE i < n /\ u[i] = v[i]
    <3>1. i + 1 \in 1 .. n
      BY <2>1
    <3>2. IsStop(u, v, n, i, at[i + 1])
      BY <1>1, <2>1, <3>1, StopBefore
    <3>. QED BY <1>1, <2>1, <3>2, StopUnique
  <2>2. CASE ~(i < n /\ u[i] = v[i])
    <3>1. IsStop(u, v, n, i, i)
      BY <2>2, StopBefore
    <3>. QED BY <1>1, <2>2, <3>1, StopUnique
  <2>. QED BY <2>1, <2>2
<1>3. at = [i \in 1 .. n |-> at[i]]
  BY DEF at
<1> DEFINE next == [i \in 1 .. n |-> IF i < n /\ u[i] = v[i] THEN at[i + 1] ELSE i]
<1>4. [i \in 1 .. n |-> at[i]] = next
  BY <1>2
<1>5. at = next
  BY <1>3, <1>4
<1>6. IsLoop(u, v, n, at)
  BY <1>5 DEF IsLoop
<1>. QED BY <1>6

LEMMA LoopStops ==
  ASSUME NEW u, NEW v, NEW n \in Nat \ {0}, NEW at, IsLoop(u, v, n, at)
  PROVE  IsStop(u, v, n, 1, at[1])
<1>1. \A i \in 1 .. n : at[i] = IF i < n /\ u[i] = v[i] THEN at[i + 1] ELSE i
  BY DEF IsLoop
<1> DEFINE S == {m \in 0 .. n - 1 : IsStop(u, v, n, n - m, at[n - m])}
<1>2. 0 \in S
  <2>1. n \in 1 .. n /\ n - 0 = n /\ 0 \in 0 .. n - 1
    OBVIOUS
  <2>2. at[n] = n
    BY <1>1, <2>1
  <2>3. IsStop(u, v, n, n, n)
    BY <2>1, StopBefore
  <2>. QED BY <2>1, <2>2, <2>3
<1>3. ASSUME NEW m \in 0 .. (n - 1) - 1, m \in S PROVE m + 1 \in S
  <2> DEFINE i == n - (m + 1)
  <2>1. i \in 1 .. n /\ i < n /\ i + 1 = n - m /\ m + 1 \in 0 .. n - 1
    OBVIOUS
  <2>2. IsStop(u, v, n, i + 1, at[i + 1])
    BY <1>3, <2>1
  <2> HIDE DEF i
  <2>3. IsStop(u, v, n, i, at[i])
    <3>1. CASE u[i] = v[i]
      <4>1. at[i] = at[i + 1]
        BY <1>1, <2>1, <3>1
      <4>2. IsStop(u, v, n, i, at[i + 1])
        BY <2>1, <2>2, <3>1, StopBefore
      <4>. QED BY <4>1, <4>2
    <3>2. CASE u[i] # v[i]
      <4>1. at[i] = i
        BY <1>1, <2>1, <3>2
      <4>2. IsStop(u, v, n, i, i)
        BY <2>1, <3>2, StopBefore
      <4>. QED BY <4>1, <4>2
    <3>. QED BY <3>1, <3>2
  <2>. QED BY <2>1, <2>3 DEF i
<1> HIDE DEF S
<1>4. n - 1 \in Nat /\ \A m \in 0 .. (n - 1) - 1 : m \in S => m + 1 \in S
  BY <1>3
<1>5. 0 .. n - 1 \subseteq S
  BY <1>2, <1>4, InductionUpTo
<1>6. n - 1 \in S /\ n - (n - 1) = 1
  BY <1>5
<1>. QED BY <1>6 DEF S

IsBuffer(x) ==
  /\ x \in [bytes : Seq(Octet), size : Nat, null : BOOLEAN]
  /\ x.size = Len(x.bytes) /\ (x.null => x.size = 0)

LEMMA SameSequence ==
  ASSUME NEW S, NEW s \in Seq(S), NEW t \in Seq(S), Len(s) = Len(t),
         \A k \in 1 .. Len(s) : s[k] = t[k]
  PROVE  s = t
  OBVIOUS

\* Two buffers are equal when they have the same bytes.
LEMMA EqualBytes ==
  ASSUME NEW x, NEW y, IsBuffer(x), IsBuffer(y)
  PROVE  Blocks!Equals(x, y) <=> x.bytes = y.bytes
<1> DEFINE n == x.size  u == x.bytes  v == y.bytes
           Loop(at) == at = [i \in 1 .. n |-> IF i < n /\ u[i] = v[i] THEN at[i + 1] ELSE i]
           loop == CHOOSE at : Loop(at)
<1>1. /\ u \in Seq(Octet) /\ v \in Seq(Octet) /\ n = Len(u) /\ y.size = Len(v) /\ n \in Nat
      /\ (x.null => n = 0) /\ (y.null => y.size = 0)
  BY DEF IsBuffer
<1>2. CASE n # y.size
  <2>1. ~Blocks!Equals(x, y)
    BY <1>2 DEF Blocks!Equals
  <2>. QED BY <1>1, <1>2, <2>1
<1>3. CASE n = y.size /\ n = 0
  <2>1. Blocks!Equals(x, y)
    BY <1>3 DEF Blocks!Equals
  <2> HIDE DEF n, u, v
  <2>2. u = v
    <3>1. Len(u) = Len(v) /\ \A k \in 1 .. Len(u) : u[k] = v[k]
      BY <1>1, <1>3
    <3>. QED BY <1>1, <3>1, SameSequence
  <2>. QED BY <2>1, <2>2 DEF u, v
<1>4. CASE n = y.size /\ n # 0
  <2>1. ~x.null /\ ~y.null
    BY <1>1, <1>4
  <2>2. Blocks!Equals(x, y) <=> u[loop[1]] = v[loop[1]]
    BY <1>4, <2>1 DEF Blocks!Equals
  <2>3. \E at : Loop(at)
    <3>1. \E at : IsLoop(u, v, n, at)
      <4> HIDE DEF n, u, v
      <4>. QED BY <1>1, LoopExists
    <3>2. \A at : IsLoop(u, v, n, at) <=> Loop(at)
      BY DEF IsLoop
    <3> HIDE DEF Loop
    <3>. QED BY <3>1, <3>2
  <2>4. Loop(loop)
    BY <2>3
  <2> HIDE DEF loop
  <2>5. IsStop(u, v, n, 1, loop[1])
    BY <1>1, <1>4, <2>4, LoopStops DEF IsLoop
  <2>6. /\ loop[1] \in 1 .. n
        /\ \A k \in 1 .. loop[1] - 1 : u[k] = v[k]
        /\ loop[1] = n \/ u[loop[1]] # v[loop[1]]
    BY <2>5 DEF IsStop
  <2>7. ASSUME u[loop[1]] = v[loop[1]] PROVE u = v
    <3>1. \A k \in 1 .. n : k = loop[1] \/ k \in 1 .. loop[1] - 1
      BY <2>6, <2>7
    <3>2. \A k \in 1 .. n : u[k] = v[k]
      BY <2>6, <2>7, <3>1
    <3> HIDE DEF n, u, v
    <3>3. Len(u) = Len(v) /\ \A k \in 1 .. Len(u) : u[k] = v[k]
      BY <1>1, <1>4, <3>2
    <3>. QED BY <1>1, <3>3, SameSequence
  <2>. QED BY <2>2, <2>7
<1>. QED BY <1>2, <1>3, <1>4

BuffersInv ==
  /\ IsBuffer(mine) /\ IsBuffer(copy)
  /\ DOMAIN mem = {"mine", "copy"} /\ mem.mine = mine.size /\ mem.copy = copy.size

LEMMA BufferKinds ==
  /\ IsBuffer(Blocks!Gone)
  /\ \A s \in Seq(Octet) : IsBuffer(Blocks!Of(s)) /\ Blocks!Of(s).size = Len(s)
                           /\ Blocks!Of(s).bytes = s
  BY DEF IsBuffer, Blocks!Gone, Blocks!Of

LEMMA BuffersHold == BuffersInv => Blocks!BuffersKnowTheirSize
<1> SUFFICES ASSUME BuffersInv PROVE Blocks!BuffersKnowTheirSize
  OBVIOUS
<1>1. /\ IsBuffer(mine) /\ IsBuffer(copy)
      /\ mine.size = mem.mine /\ copy.size = mem.copy
  BY DEF BuffersInv
<1>2. Len(mine.bytes) = mine.size /\ Len(copy.bytes) = copy.size
  BY <1>1 DEF IsBuffer
<1>3. Blocks!Equals(mine, copy) <=> mine.bytes = copy.bytes
  BY <1>1, EqualBytes
<1>4. ASSUME NEW s \in Source PROVE Blocks!Equals(mine, Blocks!Of(s)) <=> mine.bytes = s
  <2>1. s \in Seq(Octet)
    BY StorageAssumption DEF Blocks!BuffersAssumption
  <2>2. IsBuffer(Blocks!Of(s)) /\ Blocks!Of(s).bytes = s
    BY <2>1, BufferKinds
  <2>3. Blocks!Equals(mine, Blocks!Of(s)) <=> mine.bytes = Blocks!Of(s).bytes
    BY <1>1, <2>2, EqualBytes
  <2>. QED BY <2>2, <2>3
<1>. QED BY <1>1, <1>2, <1>3, <1>4 DEF Blocks!BuffersKnowTheirSize

LEMMA BuffersStart == Blocks!BuffersInit => BuffersInv
<1> SUFFICES ASSUME Blocks!BuffersInit PROVE BuffersInv
  OBVIOUS
<1>1. mine = Blocks!Gone /\ copy = Blocks!Gone /\ mem = [mine |-> 0, copy |-> 0]
  BY DEF Blocks!BuffersInit
<1>2. Blocks!Gone.size = 0
  BY DEF Blocks!Gone
<1>. QED BY <1>1, <1>2, BufferKinds DEF BuffersInv

\* A copy of some bytes over others leaves a buffer of the same size.
LEMMA OverIsBuffer ==
  ASSUME NEW x, IsBuffer(x), NEW s \in Seq(Octet), NEW n \in Nat, n <= Len(s)
  PROVE  IsBuffer(Blocks!Over(x, s, n)) /\ Blocks!Over(x, s, n).size = x.size
<1> DEFINE c == [k \in DOMAIN x.bytes |-> IF k <= n THEN s[k] ELSE x.bytes[k]]
<1>1. /\ x \in [bytes : Seq(Octet), size : Nat, null : BOOLEAN] /\ x.bytes \in Seq(Octet)
      /\ x.size = Len(x.bytes) /\ (x.null => x.size = 0) /\ DOMAIN x.bytes = 1 .. Len(x.bytes)
      /\ Len(x.bytes) \in Nat
  BY DEF IsBuffer
<1>2. \A k \in 1 .. Len(x.bytes) : k <= n => s[k] \in Octet
  OBVIOUS
<1>3. \A k \in 1 .. Len(x.bytes) : x.bytes[k] \in Octet
  BY <1>1
<1>4. c \in Seq(Octet) /\ Len(c) = Len(x.bytes)
  BY <1>1, <1>2, <1>3
<1>5. Blocks!Over(x, s, n) = [x EXCEPT !.bytes = c]
  BY DEF Blocks!Over
<1> HIDE DEF c
<1>. QED BY <1>1, <1>4, <1>5 DEF IsBuffer

LEMMA BuffersKeep ==
  ASSUME BuffersInv, [Blocks!BuffersNext]_bufferVars
  PROVE  BuffersInv'
<1>1. /\ IsBuffer(mine) /\ IsBuffer(copy)
      /\ DOMAIN mem = {"mine", "copy"} /\ mem.mine = mine.size /\ mem.copy = copy.size
  BY DEF BuffersInv
<1>2. CASE UNCHANGED bufferVars
  BY <1>1, <1>2 DEF BuffersInv, bufferVars, IsBuffer
<1>3. ASSUME IsBuffer(mine'), mem' = [mem EXCEPT !.mine = mine'.size], UNCHANGED copy
      PROVE  BuffersInv'
  BY <1>1, <1>3 DEF BuffersInv, IsBuffer
<1>4. ASSUME IsBuffer(copy'), mem' = [mem EXCEPT !.copy = copy'.size], UNCHANGED mine
      PROVE  BuffersInv'
  BY <1>1, <1>4 DEF BuffersInv, IsBuffer
<1>5. Blocks!Gone.size = 0
  BY DEF Blocks!Gone
<1>6. CASE Blocks!Alloc
  <2>1. PICK n \in 0 .. MaxSize, f \in Octet :
          mine' = Blocks!Of(Blocks!Filled(n, f)) /\ mem' = [mem EXCEPT !.mine = n]
    BY <1>6 DEF Blocks!Alloc
  <2>2. Blocks!Filled(n, f) \in Seq(Octet) /\ Len(Blocks!Filled(n, f)) = n
    BY StorageAssumption DEF Blocks!Filled, Blocks!BuffersAssumption
  <2>3. IsBuffer(mine') /\ mine'.size = n
    BY <2>1, <2>2, BufferKinds
  <2>. QED BY <1>3, <1>6, <2>1, <2>3 DEF Blocks!Alloc
<1>7. CASE Blocks!Free
  BY <1>3, <1>5, <1>7, BufferKinds DEF Blocks!Free
<1>8. CASE Blocks!Dupe
  <2>1. CASE mine.size = 0
    BY <1>4, <1>5, <1>8, <2>1, BufferKinds DEF Blocks!Dupe
  <2>2. CASE mine.size # 0
    <3>1. mine.bytes \in Seq(Octet) /\ mine.size = Len(mine.bytes)
      BY <1>1 DEF IsBuffer
    <3>2. copy' = Blocks!Of(mine.bytes)
      BY <1>8, <2>2 DEF Blocks!Dupe
    <3>3. IsBuffer(copy') /\ copy'.size = mine.size
      BY <3>1, <3>2, BufferKinds
    <3>. QED BY <1>4, <1>8, <3>3 DEF Blocks!Dupe
  <2>. QED BY <2>1, <2>2
<1>9. CASE Blocks!FreeCopy
  BY <1>4, <1>5, <1>9, BufferKinds DEF Blocks!FreeCopy
<1>10. ASSUME NEW s \in Source, NEW n \in Nat, n <= Len(s),
              mine' = Blocks!Over(mine, s, n), UNCHANGED <<copy, mem>>
       PROVE  BuffersInv'
  <2>1. s \in Seq(Octet)
    BY StorageAssumption DEF Blocks!BuffersAssumption
  <2>2. IsBuffer(mine') /\ mine'.size = mine.size
    BY <1>1, <1>10, <2>1, OverIsBuffer
  <2>. QED BY <1>1, <1>10, <2>2 DEF BuffersInv, IsBuffer
<1>11. ASSUME NEW s \in Source, Blocks!Copy(s) PROVE BuffersInv'
  <2>1. Len(s) \in Nat /\ Len(s) <= Len(s)
    BY StorageAssumption DEF Blocks!BuffersAssumption
  <2>. QED BY <1>10, <1>11, <2>1 DEF Blocks!Copy
<1>12. ASSUME NEW s \in Source, NEW n \in 0 .. MaxSize, Blocks!CopyN(s, n) PROVE BuffersInv'
  <2>1. Len(s) \in Nat /\ n \in Nat
    BY StorageAssumption DEF Blocks!BuffersAssumption
  <2>. QED BY <1>10, <1>12, <2>1 DEF Blocks!CopyN
<1>. QED BY <1>2, <1>6, <1>7, <1>8, <1>9, <1>11, <1>12 DEF Blocks!BuffersNext

-----------------------------------------------------------------------------
(* Loops that look for the first index in a set *)

\* A loop from lo to n that stops at the indices of T, and ends with e when there is none.
IsSearch(lo, n, T, e, at) ==
  at = [i \in lo .. n |-> IF i \in T THEN i ELSE IF i = n THEN e ELSE at[i + 1]]

\* From i on it ends with j.
IsFirst(T, e, i, j) ==
  \/ j \in T /\ i <= j /\ \A k \in T : k < i \/ j <= k
  \/ j = e /\ \A k \in T : k < i

LEMMA FirstExists ==
  ASSUME NEW lo \in Nat, NEW n \in Nat, NEW T \in SUBSET (lo .. n), NEW e, NEW i \in lo .. n
  PROVE  \E j : IsFirst(T, e, i, j)
<1> DEFINE U == {k \in T : i <= k}
<1>1. CASE U = {}
  <2>1. \A k \in T : k < i
    BY <1>1
  <2>. QED BY <2>1 DEF IsFirst
<1>2. CASE U # {}
  <2>1. U \in SUBSET Nat
    <3>1. \A k \in U : k \in lo .. n
      OBVIOUS
    <3>2. \A k \in lo .. n : k \in Nat
      OBVIOUS
    <3> HIDE DEF U
    <3>. QED BY <3>1, <3>2
  <2>2. PICK j \in U : \A k \in U : j <= k
    BY <1>2, <2>1, LeastOf
  <2>3. \A k \in T : k < i \/ k \in U
    OBVIOUS
  <2>. QED BY <2>2, <2>3 DEF IsFirst
<1>. QED BY <1>1, <1>2

LEMMA FirstUnique ==
  ASSUME NEW T \in SUBSET Nat, NEW e, NEW i \in Nat, NEW j, NEW k, IsFirst(T, e, i, j), IsFirst(T, e, i, k)
  PROVE  j = k
<1>1. \A m \in T : m \in Nat /\ i \in Nat
  OBVIOUS
<1>2. CASE j \in T /\ i <= j /\ \A m \in T : m < i \/ j <= m
  <2>1. k \in T /\ i <= k /\ \A m \in T : m < i \/ k <= m
    BY <1>1, <1>2 DEF IsFirst
  <2>2. j \in Nat /\ k \in Nat /\ i \in Nat /\ j <= k /\ k <= j
    BY <1>1, <1>2, <2>1
  <2>. QED BY <2>2
<1>3. CASE j = e /\ \A m \in T : m < i
  <2>1. ASSUME k \in T PROVE ~(i <= k)
    <3>1. k \in Nat /\ i \in Nat
      BY <1>1, <2>1
    <3>2. k < i
      BY <1>3, <2>1
    <3>. QED BY <3>1, <3>2
  <2>. QED BY <1>3, <2>1 DEF IsFirst
<1>. QED BY <1>2, <1>3 DEF IsFirst

LEMMA FirstBefore ==
  ASSUME NEW lo \in Nat, NEW n \in Nat, NEW T \in SUBSET (lo .. n), NEW e, NEW i \in lo .. n, NEW j
  PROVE  /\ i \in T => IsFirst(T, e, i, i)
         /\ i \notin T /\ i = n => IsFirst(T, e, i, e)
         /\ i \notin T /\ i # n /\ IsFirst(T, e, i + 1, j) => IsFirst(T, e, i, j)
<1>1. \A m \in T : m \in lo .. n /\ (m < i \/ i <= m)
  OBVIOUS
<1>2. ASSUME i \notin T PROVE \A m \in T : m < i + 1 => m < i
  BY <1>1, <1>2
<1>3. ASSUME i \notin T, i # n, IsFirst(T, e, i + 1, j) PROVE IsFirst(T, e, i, j)
  <2>1. CASE j \in T /\ i + 1 <= j /\ \A m \in T : m < i + 1 \/ j <= m
    <3>1. j \in Nat
      BY <2>1
    <3>2. i <= j /\ \A m \in T : m < i \/ j <= m
      BY <1>2, <1>3, <2>1, <3>1
    <3>. QED BY <2>1, <3>2 DEF IsFirst
  <2>2. CASE j = e /\ \A m \in T : m < i + 1
    BY <1>2, <1>3, <2>2 DEF IsFirst
  <2>. QED BY <1>3, <2>1, <2>2 DEF IsFirst
<1>4. i \in T => IsFirst(T, e, i, i)
  BY <1>1 DEF IsFirst
<1>5. ASSUME i \notin T, i = n PROVE IsFirst(T, e, i, e)
  <2>1. \A m \in T : m < i
    BY <1>1, <1>5
  <2>. QED BY <2>1 DEF IsFirst
<1>. QED BY <1>3, <1>4, <1>5

\* A loop of that kind is well defined, and ends at the first index of the set.
LEMMA SearchExists ==
  ASSUME NEW lo \in Nat, NEW n \in Nat, NEW T \in SUBSET (lo .. n), NEW e
  PROVE  \E at : IsSearch(lo, n, T, e, at)
<1> DEFINE at == [i \in lo .. n |-> CHOOSE j : IsFirst(T, e, i, j)]
<1>1. \A i \in lo .. n : IsFirst(T, e, i, at[i])
  BY FirstExists
<1>2. at = [i \in lo .. n |-> at[i]]
  OBVIOUS
<1> HIDE DEF at
<1>3. ASSUME NEW i \in lo .. n PROVE at[i] = IF i \in T THEN i ELSE IF i = n THEN e ELSE at[i + 1]
  <2>0. \A j, k : IsFirst(T, e, i, j) /\ IsFirst(T, e, i, k) => j = k
    <3>1. T \in SUBSET Nat /\ i \in Nat
      OBVIOUS
    <3>. QED BY <3>1, FirstUnique
  <2>1. CASE i \in T
    <3>1. IsFirst(T, e, i, i)
      BY <2>1, FirstBefore
    <3>. QED BY <1>1, <2>0, <2>1, <3>1
  <2>2. CASE i \notin T /\ i = n
    <3>1. IsFirst(T, e, i, e)
      BY <2>2, FirstBefore
    <3>. QED BY <1>1, <2>0, <2>2, <3>1
  <2>3. CASE i \notin T /\ i # n
    <3>1. i + 1 \in lo .. n
      BY <2>3
    <3>2. IsFirst(T, e, i, at[i + 1])
      BY <1>1, <2>3, <3>1, FirstBefore
    <3>. QED BY <1>1, <2>0, <2>3, <3>2
  <2>. QED BY <2>1, <2>2, <2>3
<1> DEFINE next == [i \in lo .. n |-> IF i \in T THEN i ELSE IF i = n THEN e ELSE at[i + 1]]
<1>4. [i \in lo .. n |-> at[i]] = next
  BY <1>3
<1>5. at = next
  BY <1>2, <1>4
<1>. QED BY <1>5 DEF IsSearch

\* Whatever the loop starts from, it ends at the first index of T from there on.
LEMMA SearchStops ==
  ASSUME NEW lo \in Nat, NEW n \in Nat, NEW T \in SUBSET (lo .. n), NEW e, NEW at,
         IsSearch(lo, n, T, e, at), NEW i \in lo .. n
  PROVE  IsFirst(T, e, i, at[i])
<1>1. \A k \in lo .. n : at[k] = IF k \in T THEN k ELSE IF k = n THEN e ELSE at[k + 1]
  BY DEF IsSearch
<1> DEFINE S == {m \in 0 .. n - lo : IsFirst(T, e, n - m, at[n - m])}
<1>2. n - lo \in Nat
  OBVIOUS
<1>3. 0 \in S
  <2>1. n \in lo .. n /\ n - 0 = n /\ 0 \in 0 .. n - lo
    BY <1>2
  <2>2. IsFirst(T, e, n, at[n])
    BY <1>1, <2>1, FirstBefore
  <2>. QED BY <2>1, <2>2
<1>4. ASSUME NEW m \in 0 .. (n - lo) - 1, m \in S PROVE m + 1 \in S
  <2> DEFINE k == n - (m + 1)
  <2>1. k \in lo .. n /\ k # n /\ k + 1 = n - m /\ m + 1 \in 0 .. n - lo
    OBVIOUS
  <2>2. IsFirst(T, e, k + 1, at[k + 1])
    BY <1>4, <2>1
  <2> HIDE DEF k
  <2>3. IsFirst(T, e, k, at[k])
    BY <1>1, <2>1, <2>2, FirstBefore
  <2>. QED BY <2>1, <2>3 DEF k
<1> HIDE DEF S
<1>5. 0 .. n - lo \subseteq S
  BY <1>2, <1>3, <1>4, InductionUpTo
<1>6. n - i \in S /\ n - (n - i) = i
  BY <1>5
<1>. QED BY <1>6 DEF S

-----------------------------------------------------------------------------
(* Searches and comparisons *)

\* s and w agree in exactly n leading characters.
AgreesFor(s, w, n) ==
  /\ n \in 0 .. Len(w) /\ n <= Len(s)
  /\ \A k \in 1 .. n : s[k] = w[k]
  /\ n = Len(w) \/ n = Len(s) \/ s[n + 1] # w[n + 1]

LEMMA AgreeIs ==
  ASSUME NEW S, NEW s \in Seq(S), NEW w \in Seq(S)
  PROVE  AgreesFor(s, w, Strings!Agree(s, w))
<1> DEFINE n == Len(w)
           More(k) == k < Len(w) /\ k < Len(s) /\ s[k + 1] = w[k + 1]
           T == {k \in 0 .. n : ~More(k)}
           Loop(at) == at = [k \in 0 .. Len(w) |-> IF More(k) THEN at[k + 1] ELSE k]
           loop == CHOOSE at : Loop(at)
<1>1. n \in Nat /\ Len(s) \in Nat /\ n \in T
  OBVIOUS
<1>2. Strings!Agree(s, w) = loop[0]
  BY DEF Strings!Agree
<1>3. \A at : Loop(at) <=> IsSearch(0, n, T, 0, at)
  <2> SUFFICES ASSUME NEW at PROVE Loop(at) <=> IsSearch(0, n, T, 0, at)
    OBVIOUS
  <2>1. \A k \in 0 .. n : (IF More(k) THEN at[k + 1] ELSE k)
                            = IF k \in T THEN k ELSE IF k = n THEN 0 ELSE at[k + 1]
    OBVIOUS
  <2>2. [k \in 0 .. n |-> IF More(k) THEN at[k + 1] ELSE k]
          = [k \in 0 .. n |-> IF k \in T THEN k ELSE IF k = n THEN 0 ELSE at[k + 1]]
    BY <2>1
  <2>. QED BY <2>2 DEF IsSearch
<1>4. \E at : IsSearch(0, n, T, 0, at)
  BY <1>1, SearchExists
<1>5. Loop(loop)
  <2> HIDE DEF Loop
  <2>. QED BY <1>3, <1>4
<1>6. IsSearch(0, n, T, 0, loop)
  BY <1>3, <1>5
<1> HIDE DEF loop
<1>7. IsFirst(T, 0, 0, loop[0])
  <2>1. 0 \in 0 .. n /\ 0 \in Nat /\ T \in SUBSET (0 .. n)
    BY <1>1
  <2> HIDE DEF T, n
  <2>. QED BY <1>1, <1>6, <2>1, SearchStops
<1>8. loop[0] \in T /\ \A k \in T : loop[0] <= k
  BY <1>1, <1>7 DEF IsFirst
<1>9. \A k \in 0 .. n : k < loop[0] => More(k)
  BY <1>8
<1>10. ASSUME NEW k \in 1 .. loop[0] PROVE k <= Len(s) /\ s[k] = w[k]
  <2>1. k - 1 \in 0 .. n /\ k - 1 < loop[0] /\ (k - 1) + 1 = k
    BY <1>8
  <2>2. More(k - 1)
    BY <1>9, <2>1
  <2>. QED BY <2>1, <2>2, <1>1
<1>11. loop[0] <= Len(s)
  <2>1. loop[0] = 0 \/ loop[0] \in 1 .. loop[0]
    BY <1>8
  <2>. QED BY <1>1, <1>10, <2>1
<1>12. loop[0] \in 0 .. n /\ ~More(loop[0])
  BY <1>8
<1>. QED BY <1>1, <1>2, <1>10, <1>11, <1>12 DEF AgreesFor

\* What begins at index i, and the part between two indices
LEMMA FromIs ==
  ASSUME NEW S, NEW s \in Seq(S), NEW i \in 0 .. Len(s)
  PROVE  /\ Strings!From(s, i) \in Seq(S) /\ Len(Strings!From(s, i)) = Len(s) - i
         /\ \A k \in 1 .. Len(s) - i : Strings!From(s, i)[k] = s[i + k]
<1>1. /\ i + 1 \in Int /\ Len(s) \in Int
      /\ \A k \in i + 1 .. Len(s) : s[k] \in S
  OBVIOUS
<1>2. /\ SubSeq(s, i + 1, Len(s)) \in Seq(S)
      /\ Len(SubSeq(s, i + 1, Len(s))) = IF i + 1 <= Len(s) THEN Len(s) - (i + 1) + 1 ELSE 0
      /\ \A k \in 1 .. Len(s) - (i + 1) + 1 : SubSeq(s, i + 1, Len(s))[k] = s[(i + 1) + k - 1]
  BY ONLY <1>1, SubSeqProperties
<1>. QED BY <1>2 DEF Strings!From

\* The characters between two indices are those of the string.
LEMMA CutIs ==
  ASSUME NEW S, NEW s \in Seq(S), NEW i \in 0 .. Len(s), NEW j \in i .. Len(s)
  PROVE  /\ Strings!Cut(s, i, j) \in Seq(S) /\ Len(Strings!Cut(s, i, j)) = j - i
         /\ \A k \in 1 .. j - i : Strings!Cut(s, i, j)[k] = s[i + k]
<1>1. /\ i + 1 \in Int /\ j \in Int
      /\ \A k \in i + 1 .. j : s[k] \in S
  OBVIOUS
<1>2. /\ SubSeq(s, i + 1, j) \in Seq(S)
      /\ Len(SubSeq(s, i + 1, j)) = IF i + 1 <= j THEN j - (i + 1) + 1 ELSE 0
      /\ \A k \in 1 .. j - (i + 1) + 1 : SubSeq(s, i + 1, j)[k] = s[(i + 1) + k - 1]
  BY ONLY <1>1, SubSeqProperties
<1>. QED BY <1>2 DEF Strings!Cut

\* string_equals says yes for the same string alone.
LEMMA EqualsIs ==
  ASSUME NEW S, NEW s \in Seq(S), NEW w \in Seq(S)
  PROVE  Strings!Equals(s, w) <=> s = w
<1>1. AgreesFor(s, w, Strings!Agree(s, w)) /\ AgreesFor(w, s, Strings!Agree(w, s))
  BY AgreeIs
<1> DEFINE m == Strings!Agree(s, w)  n == Strings!Agree(w, s)
<1> HIDE DEF m, n
<1>2. AgreesFor(s, w, m) /\ AgreesFor(w, s, n)
  BY <1>1 DEF m, n
<1>3. ASSUME m = Len(s), n = Len(w) PROVE s = w
  <2>1. Len(s) = Len(w) /\ \A k \in 1 .. Len(s) : s[k] = w[k]
    BY <1>2, <1>3 DEF AgreesFor
  <2>. QED BY <2>1, SameSequence
<1>4. ASSUME s = w PROVE m = Len(s) /\ n = Len(w)
  BY <1>2, <1>4 DEF AgreesFor
<1>. QED BY <1>3, <1>4 DEF m, n, Strings!Equals

\* w is at the front of s.
Leads(s, w) == Len(w) <= Len(s) /\ \A k \in 1 .. Len(w) : s[k] = w[k]

\* The loop that compares characters reaches the end of w when s begins with w.
LEMMA LeadsIs ==
  ASSUME NEW S, NEW s \in Seq(S), NEW w \in Seq(S)
  PROVE  Strings!Agree(s, w) = Len(w) <=> Leads(s, w)
<1> DEFINE n == Strings!Agree(s, w)
<1>1. AgreesFor(s, w, n)
  BY AgreeIs
<1> HIDE DEF n
<1>2. ASSUME n = Len(w) PROVE Leads(s, w)
  BY <1>1, <1>2 DEF AgreesFor, Leads
<1>3. ASSUME Leads(s, w) PROVE n = Len(w)
  <2>1. /\ n \in 0 .. Len(w) /\ Len(w) <= Len(s) /\ n + 1 \in Nat
        /\ n = Len(w) \/ n = Len(s) \/ s[n + 1] # w[n + 1]
    BY <1>1, <1>3 DEF AgreesFor, Leads
  <2>2. n < Len(w) => n + 1 \in 1 .. Len(w)
    BY <2>1
  <2>. QED BY <1>3, <2>1, <2>2 DEF Leads
<1>. QED BY <1>2, <1>3 DEF n

\* string_starts_with says whether the first characters of s are w.
LEMMA StartsWithIs ==
  ASSUME NEW S, NEW s \in Seq(S), NEW w \in Seq(S)
  PROVE  /\ Strings!StartsWith(s, w) <=> Leads(s, w)
         /\ Leads(s, w) <=> Len(w) <= Len(s) /\ Strings!Cut(s, 0, Len(w)) = w
<1>1. w = <<>> => Leads(s, w)
  BY DEF Leads
<1>2. ASSUME Len(w) <= Len(s)
      PROVE  Strings!Cut(s, 0, Len(w)) = w <=> \A k \in 1 .. Len(w) : s[k] = w[k]
  <2> DEFINE c == Strings!Cut(s, 0, Len(w))
  <2>1. 0 \in 0 .. Len(s) /\ Len(w) \in 0 .. Len(s) /\ Len(w) - 0 = Len(w)
    BY <1>2
  <2>2. /\ c \in Seq(S) /\ Len(c) = Len(w) - 0
        /\ \A k \in 1 .. Len(w) - 0 : c[k] = s[0 + k]
    BY <2>1, CutIs
  <2> HIDE DEF c
  <2>3. c \in Seq(S) /\ Len(c) = Len(w) /\ \A k \in 1 .. Len(w) : c[k] = s[k]
    BY <2>1, <2>2
  <2>4. (\A k \in 1 .. Len(w) : s[k] = w[k]) => c = w
    BY <2>3, SameSequence
  <2>. QED BY <2>3, <2>4 DEF c
<1>. QED BY <1>1, <1>2, LeadsIs DEF Leads, Strings!StartsWith

\* The indices of s, but its end, at which w is
Places(s, w) == {i \in 0 .. Len(s) - 1 : Leads(Strings!From(s, i), w)}

\* string_find gives the first place where w occurs, or -1.
LEMMA FindIs ==
  ASSUME NEW S, NEW s \in Seq(S), NEW w \in Seq(S)
  PROVE  IsFirst(Places(s, w), -1, 0, Strings!Find(s, w))
<1> DEFINE n == Len(s)
           Here(i) == Strings!Agree(Strings!From(s, i), w) = Len(w)
           T == {i \in 0 .. n - 1 : Here(i)}
           Loop(at) == at = [i \in 0 .. Len(s) |-> IF i = Len(s) THEN -1 ELSE IF Here(i) THEN i ELSE at[i + 1]]
           loop == CHOOSE at : Loop(at)
<1>1. n \in Nat /\ \A i \in T : i \in 0 .. n /\ i # n
  OBVIOUS
<1>2. Strings!Find(s, w) = loop[0]
  BY DEF Strings!Find
<1>3. \A at : Loop(at) <=> IsSearch(0, n, T, -1, at)
  <2> SUFFICES ASSUME NEW at PROVE Loop(at) <=> IsSearch(0, n, T, -1, at)
    OBVIOUS
  <2> HIDE DEF Here
  <2>1. \A i \in 0 .. n : (IF i = n THEN -1 ELSE IF Here(i) THEN i ELSE at[i + 1])
                            = IF i \in T THEN i ELSE IF i = n THEN -1 ELSE at[i + 1]
    BY <1>1
  <2>2. [i \in 0 .. n |-> IF i = n THEN -1 ELSE IF Here(i) THEN i ELSE at[i + 1]]
          = [i \in 0 .. n |-> IF i \in T THEN i ELSE IF i = n THEN -1 ELSE at[i + 1]]
    BY <2>1
  <2>. QED BY <2>2 DEF IsSearch
<1>4. T = Places(s, w)
  <2>1. \A i \in 0 .. n - 1 : Here(i) <=> Leads(Strings!From(s, i), w)
    <3>1. \A i \in 0 .. n - 1 : Strings!From(s, i) \in Seq(S)
      BY FromIs
    <3>. QED BY <3>1, LeadsIs
  <2> HIDE DEF Here
  <2>. QED BY <2>1 DEF Places
<1>5. 0 \in 0 .. n /\ 0 \in Nat /\ T \in SUBSET (0 .. n)
  BY <1>1
<1> HIDE DEF T, n
<1>6. \E at : IsSearch(0, n, T, -1, at)
  BY <1>1, <1>5, SearchExists
<1>7. Loop(loop)
  <2> HIDE DEF Loop
  <2>. QED BY <1>3, <1>6
<1>8. IsSearch(0, n, T, -1, loop)
  BY <1>3, <1>7
<1> HIDE DEF loop
<1>9. IsFirst(T, -1, 0, loop[0])
  BY <1>1, <1>5, <1>8, SearchStops
<1>. QED BY <1>2, <1>4, <1>9

\* string_find_char gives the first index of a character, or -1.
LEMMA FindCharIs ==
  ASSUME NEW S, NEW s \in Seq(S), NEW c
  PROVE  IsFirst({i \in 0 .. Len(s) - 1 : s[i + 1] = c}, -1, 0, Strings!FindChar(s, c))
<1> DEFINE n == Len(s)
           T == {i \in 0 .. n - 1 : s[i + 1] = c}
           Loop(at) == at = [i \in 0 .. Len(s) |-> IF i = Len(s) THEN -1 ELSE IF s[i + 1] = c THEN i ELSE at[i + 1]]
           loop == CHOOSE at : Loop(at)
<1>1. n \in Nat /\ \A i \in T : i \in 0 .. n /\ i # n
  OBVIOUS
<1>2. Strings!FindChar(s, c) = loop[0]
  BY DEF Strings!FindChar
<1>3. \A at : Loop(at) <=> IsSearch(0, n, T, -1, at)
  <2> SUFFICES ASSUME NEW at PROVE Loop(at) <=> IsSearch(0, n, T, -1, at)
    OBVIOUS
  <2>1. \A i \in 0 .. n : (IF i = n THEN -1 ELSE IF s[i + 1] = c THEN i ELSE at[i + 1])
                            = IF i \in T THEN i ELSE IF i = n THEN -1 ELSE at[i + 1]
    BY <1>1
  <2>2. [i \in 0 .. n |-> IF i = n THEN -1 ELSE IF s[i + 1] = c THEN i ELSE at[i + 1]]
          = [i \in 0 .. n |-> IF i \in T THEN i ELSE IF i = n THEN -1 ELSE at[i + 1]]
    BY <2>1
  <2>. QED BY <2>2 DEF IsSearch
<1>4. T = {i \in 0 .. Len(s) - 1 : s[i + 1] = c}
  OBVIOUS
<1>5. 0 \in 0 .. n /\ 0 \in Nat /\ T \in SUBSET (0 .. n)
  BY <1>1
<1> HIDE DEF T, n
<1>6. \E at : IsSearch(0, n, T, -1, at)
  BY <1>1, <1>5, SearchExists
<1>7. Loop(loop)
  <2> HIDE DEF Loop
  <2>. QED BY <1>3, <1>6
<1>8. IsSearch(0, n, T, -1, loop)
  BY <1>3, <1>7
<1> HIDE DEF loop
<1>9. IsFirst(T, -1, 0, loop[0])
  BY <1>1, <1>5, <1>8, SearchStops
<1>. QED BY <1>2, <1>4, <1>9

\* string_ends_with says whether w is what some index of s begins.
LEMMA EndsWithIs ==
  ASSUME NEW S, NEW s \in Seq(S), NEW w \in Seq(S)
  PROVE  Strings!EndsWith(s, w) <=> \E i \in 0 .. Len(s) : Strings!From(s, i) = w
<1>1. ASSUME w = <<>> PROVE \E i \in 0 .. Len(s) : Strings!From(s, i) = w
  <2>1. Strings!From(s, Len(s)) \in Seq(S) /\ Len(Strings!From(s, Len(s))) = 0
    BY FromIs
  <2>. QED BY <1>1, <2>1
<1>2. ASSUME Len(w) <= Len(s)
      PROVE  Strings!Equals(Strings!From(s, Len(s) - Len(w)), w) <=> Strings!From(s, Len(s) - Len(w)) = w
  <2>1. Strings!From(s, Len(s) - Len(w)) \in Seq(S)
    BY <1>2, FromIs
  <2>. QED BY <2>1, EqualsIs
<1>3. ASSUME NEW i \in 0 .. Len(s), Strings!From(s, i) = w PROVE i = Len(s) - Len(w) /\ Len(w) <= Len(s)
  <2>1. Len(w) = Len(s) - i
    BY <1>3, FromIs
  <2>. QED BY <2>1
<1>4. Len(w) <= Len(s) => Len(s) - Len(w) \in 0 .. Len(s)
  OBVIOUS
<1>. QED BY <1>1, <1>2, <1>3, <1>4 DEF Strings!EndsWith

-----------------------------------------------------------------------------
(* Trimming *)

TrimStartGood(s, i) ==
  /\ i \in 0 .. Len(s) /\ (\A k \in 1 .. i : s[k] \in BlankChar)
  /\ i = Len(s) \/ s[i + 1] \notin BlankChar

\* What string_trim_start leaves out is blank, and what follows is not.
LEMMA TrimStartIs ==
  ASSUME NEW S, NEW s \in Seq(S)
  PROVE  TrimStartGood(s, Strings!TrimStart(s))
<1> DEFINE n == Len(s)
           More(k) == k < Len(s) /\ s[k + 1] \in BlankChar
           T == {k \in 0 .. n : ~More(k)}
           Loop(at) == at = [k \in 0 .. Len(s) |-> IF More(k) THEN at[k + 1] ELSE k]
           loop == CHOOSE at : Loop(at)
<1>1. n \in Nat /\ n \in T
  OBVIOUS
<1>2. Strings!TrimStart(s) = loop[0]
  BY DEF Strings!TrimStart
<1>3. \A at : Loop(at) <=> IsSearch(0, n, T, 0, at)
  <2> SUFFICES ASSUME NEW at PROVE Loop(at) <=> IsSearch(0, n, T, 0, at)
    OBVIOUS
  <2>1. \A k \in 0 .. n : (IF More(k) THEN at[k + 1] ELSE k)
                            = IF k \in T THEN k ELSE IF k = n THEN 0 ELSE at[k + 1]
    OBVIOUS
  <2>2. [k \in 0 .. n |-> IF More(k) THEN at[k + 1] ELSE k]
          = [k \in 0 .. n |-> IF k \in T THEN k ELSE IF k = n THEN 0 ELSE at[k + 1]]
    BY <2>1
  <2>. QED BY <2>2 DEF IsSearch
<1>4. \E at : IsSearch(0, n, T, 0, at)
  BY <1>1, SearchExists
<1>5. Loop(loop)
  <2> HIDE DEF Loop
  <2>. QED BY <1>3, <1>4
<1>6. IsSearch(0, n, T, 0, loop)
  BY <1>3, <1>5
<1> HIDE DEF loop
<1>7. IsFirst(T, 0, 0, loop[0])
  <2>1. 0 \in 0 .. n /\ 0 \in Nat /\ T \in SUBSET (0 .. n)
    BY <1>1
  <2> HIDE DEF T, n
  <2>. QED BY <1>1, <1>6, <2>1, SearchStops
<1>8. loop[0] \in T /\ \A k \in T : loop[0] <= k
  BY <1>1, <1>7 DEF IsFirst
<1>9. \A k \in 0 .. n : k < loop[0] => More(k)
  BY <1>8
<1>10. ASSUME NEW k \in 1 .. loop[0] PROVE s[k] \in BlankChar
  <2>1. k - 1 \in 0 .. n /\ k - 1 < loop[0] /\ (k - 1) + 1 = k
    BY <1>8
  <2>2. More(k - 1)
    BY <1>9, <2>1
  <2>. QED BY <2>1, <2>2, <1>1
<1>11. loop[0] \in 0 .. n /\ ~More(loop[0])
  BY <1>8
<1>. QED BY <1>1, <1>2, <1>10, <1>11 DEF TrimStartGood

\* A loop from n down to 0 that stops at the indices of T
IsBack(n, T, at) == at = [i \in 0 .. n |-> IF i \in T THEN i ELSE at[i - 1]]
IsLast(T, i, j) == j \in T /\ j <= i /\ \A k \in T : i < k \/ k <= j

LEMMA BackExists ==
  ASSUME NEW n \in Nat, NEW T \in SUBSET (0 .. n), 0 \in T
  PROVE  \E at : IsBack(n, T, at)
<1> DEFINE F == [k \in 1 .. n |-> [r \in Nat |-> IF k \in T THEN k ELSE r]]
<1>1. F \in Rounds(n, Nat) /\ \A k \in 1 .. n, r \in Nat : F[k][r] = IF k \in T THEN k ELSE r
  BY DEF Rounds
<1> HIDE DEF F
<1>2. PICK at : IsCourse(at, n, Nat, 0, F)
  BY <1>1, CourseExists
<1>3. at \in [0 .. n -> Nat] /\ at[0] = 0 /\ \A k \in 1 .. n : at[k] = F[k][at[k - 1]]
  BY <1>2 DEF IsCourse
<1>4. ASSUME NEW k \in 0 .. n PROVE at[k] = IF k \in T THEN k ELSE at[k - 1]
  <2>1. CASE k = 0
    BY <1>3, <2>1
  <2>2. CASE k # 0
    <3>1. k \in 1 .. n /\ k - 1 \in 0 .. n
      BY <2>2
    <3>. QED BY <1>1, <1>3, <3>1
  <2>. QED BY <2>1, <2>2
<1>5. at = [k \in 0 .. n |-> at[k]]
  BY <1>3
<1>6. [k \in 0 .. n |-> at[k]] = [k \in 0 .. n |-> IF k \in T THEN k ELSE at[k - 1]]
  BY <1>4
<1>. QED BY <1>5, <1>6 DEF IsBack

\* A loop backwards ends at the last index of the set.
LEMMA BackStops ==
  ASSUME NEW n \in Nat, NEW T \in SUBSET (0 .. n), 0 \in T, NEW at, IsBack(n, T, at)
  PROVE  \A i \in 0 .. n : IsLast(T, i, at[i])
<1>1. \A k \in 0 .. n : at[k] = IF k \in T THEN k ELSE at[k - 1]
  BY DEF IsBack
<1>2. \A k \in T : k \in 0 .. n
  OBVIOUS
<1> DEFINE S == {k \in 0 .. n : IsLast(T, k, at[k])}
<1>3. 0 \in S
  <2>1. \A k \in T : 0 < k \/ k <= 0
    BY <1>2
  <2>. QED BY <1>1, <2>1 DEF IsLast
<1>4. ASSUME NEW k \in 0 .. n - 1, k \in S PROVE k + 1 \in S
  <2>1. k + 1 \in 0 .. n /\ (k + 1) - 1 = k /\ at[k] \in T /\ at[k] <= k
    BY <1>4 DEF IsLast
  <2>2. CASE k + 1 \in T
    <3>1. \A m \in T : k + 1 < m \/ m <= k + 1
      BY <1>2
    <3>. QED BY <1>1, <2>1, <2>2, <3>1 DEF IsLast
  <2>3. CASE k + 1 \notin T
    <3>1. at[k + 1] = at[k]
      BY <1>1, <2>1, <2>3
    <3>2. \A m \in T : k < m \/ m <= at[k]
      BY <1>4 DEF IsLast
    <3>3. \A m \in T : m # k + 1 /\ m \in Nat
      BY <1>2, <2>3
    <3>4. \A m \in T : k + 1 < m \/ m <= at[k]
      BY <3>2, <3>3
    <3>5. at[k] <= k + 1
      <4>1. at[k] \in 0 .. n
        BY <1>2, <2>1
      <4>. QED BY <2>1, <4>1
    <3>. QED BY <2>1, <3>1, <3>4, <3>5 DEF IsLast
  <2>. QED BY <2>2, <2>3
<1> HIDE DEF S
<1>5. 0 .. n \subseteq S
  BY <1>3, <1>4, InductionUpTo
<1>. QED BY <1>5 DEF S

TrimEndGood(s, i, j) ==
  /\ j \in i .. Len(s) /\ \A k \in j + 1 .. Len(s) : s[k] \in BlankChar
  /\ j = i \/ s[j] \notin BlankChar

\* What string_trim_end leaves out is blank, and what comes before is not.
LEMMA TrimEndIs ==
  ASSUME NEW S, NEW s \in Seq(S), NEW start \in 0 .. Len(s)
  PROVE  TrimEndGood(s, start, Strings!TrimEnd(s, start))
<1> DEFINE n == Len(s)
           More(k) == k > start /\ s[k] \in BlankChar
           T == {k \in 0 .. n : ~More(k)}
           Loop(at) == at = [k \in 0 .. Len(s) |-> IF More(k) THEN at[k - 1] ELSE k]
           loop == CHOOSE at : Loop(at)
<1>1. n \in Nat /\ 0 \in T /\ start \in T /\ T \in SUBSET (0 .. n) /\ n \in 0 .. n
  OBVIOUS
<1>2. Strings!TrimEnd(s, start) = loop[n]
  BY DEF Strings!TrimEnd
<1>3. \A at : Loop(at) <=> IsBack(n, T, at)
  <2> SUFFICES ASSUME NEW at PROVE Loop(at) <=> IsBack(n, T, at)
    OBVIOUS
  <2>1. \A k \in 0 .. n : (IF More(k) THEN at[k - 1] ELSE k) = IF k \in T THEN k ELSE at[k - 1]
    OBVIOUS
  <2>2. [k \in 0 .. n |-> IF More(k) THEN at[k - 1] ELSE k]
          = [k \in 0 .. n |-> IF k \in T THEN k ELSE at[k - 1]]
    BY <2>1
  <2>. QED BY <2>2 DEF IsBack
<1>4. \E at : IsBack(n, T, at)
  BY <1>1, BackExists
<1>5. Loop(loop)
  <2> HIDE DEF Loop
  <2>. QED BY <1>3, <1>4
<1>6. IsBack(n, T, loop)
  BY <1>3, <1>5
<1> HIDE DEF loop
<1>7. IsLast(T, n, loop[n])
  <2> HIDE DEF T, n
  <2>. QED BY <1>1, <1>6, BackStops
<1>8. loop[n] \in T /\ \A k \in T : k <= loop[n]
  BY <1>1, <1>7 DEF IsLast
<1>9. loop[n] \in 0 .. n /\ ~More(loop[n]) /\ start <= loop[n]
  BY <1>1, <1>8
<1>10. ASSUME NEW k \in loop[n] + 1 .. n PROVE s[k] \in BlankChar
  <2>1. k \in 0 .. n /\ ~(k <= loop[n])
    BY <1>9
  <2>2. More(k)
    BY <1>8, <2>1
  <2>. QED BY <2>2
<1>11. loop[n] = start \/ loop[n] > start
  BY <1>9
<1>. QED BY <1>2, <1>9, <1>10, <1>11 DEF TrimEndGood

\* A string without its blanks at the ends that are named.
LEMMA TrimIs ==
  ASSUME NEW S, NEW s \in Seq(S), NEW b1 \in BOOLEAN, NEW e1 \in BOOLEAN
  PROVE  \E i \in 0 .. Len(s), j \in 0 .. Len(s) :
           /\ i <= j /\ Strings!Trim(s, b1, e1) = Strings!Cut(s, i, j)
           /\ IF b1 THEN TrimStartGood(s, i) ELSE i = 0
           /\ IF e1 THEN TrimEndGood(s, i, j) ELSE j = Len(s)
<1> DEFINE start == IF b1 THEN Strings!TrimStart(s) ELSE 0
           end == IF e1 THEN Strings!TrimEnd(s, start) ELSE Len(s)
<1>1. start \in 0 .. Len(s) /\ IF b1 THEN TrimStartGood(s, start) ELSE start = 0
  BY TrimStartIs DEF TrimStartGood
<1>2. Strings!Trim(s, b1, e1) = IF start >= end THEN <<>> ELSE Strings!Cut(s, start, end)
  BY DEF Strings!Trim
<1> HIDE DEF start
<1>3. end \in start .. Len(s) /\ IF e1 THEN TrimEndGood(s, start, end) ELSE end = Len(s)
  BY <1>1, TrimEndIs DEF TrimEndGood
<1> HIDE DEF end
<1>4. ASSUME start >= end PROVE Strings!Cut(s, start, end) = <<>>
  <2>1. end = start /\ start - start = 0 /\ start \in start .. Len(s)
    BY <1>1, <1>3, <1>4
  <2>2. Strings!Cut(s, start, start) \in Seq(S) /\ Len(Strings!Cut(s, start, start)) = 0
    BY <1>1, <2>1, CutIs
  <2>. QED BY <2>1, <2>2
<1>5. Strings!Trim(s, b1, e1) = Strings!Cut(s, start, end) /\ end \in 0 .. Len(s) /\ start <= end
  BY <1>1, <1>2, <1>3, <1>4
<1>. QED BY <1>1, <1>3, <1>5

-----------------------------------------------------------------------------
(* The string in the buffer *)

StringsInv == dest \in [0 .. StringSize - 1 -> StringChar \cup {Nul}] /\ Strings!Ends # {}

LEMMA StringConstants ==
  /\ Nul \notin StringChar /\ BlankChar \subseteq StringChar /\ StringSize \in Nat \ {0}
  /\ StringText \subseteq Seq(StringChar \cup {Nul})
<1>1. \A s \in Seq(StringChar) : s \in Seq(StringChar \cup {Nul})
  OBVIOUS
<1>. QED BY <1>1, StringAssumption DEF Strings!StringsAssumption

\* The buffer holds a string that ends in the buffer.
LEMMA HeldIs ==
  ASSUME StringsInv
  PROVE  /\ Strings!Size \in 0 .. StringSize - 1 /\ dest[Strings!Size] = Nul
         /\ Strings!Held \in Seq(StringChar \cup {Nul}) /\ Len(Strings!Held) = Strings!Size
<1>1. Strings!Ends = {i \in 0 .. StringSize - 1 : dest[i] = Nul}
  BY DEF Strings!Ends, Strings!Cells
<1>2. Strings!Ends \in SUBSET Nat /\ StringSize \in Nat
  BY <1>1, StringConstants
<1>3. \E i \in Strings!Ends : \A j \in Strings!Ends : i <= j
  BY <1>2, LeastOf DEF StringsInv
<1>4. Strings!Size \in Strings!Ends
  BY <1>3 DEF Strings!Size, StringsInv
<1>5. Strings!Size \in 0 .. StringSize - 1 /\ dest[Strings!Size] = Nul
  BY <1>1, <1>4
<1> DEFINE n == Strings!Size
<1> HIDE DEF n
<1>6. n \in 0 .. StringSize - 1
  BY <1>5 DEF n
<1>7. \A k \in 1 .. n : k - 1 \in 0 .. StringSize - 1
  BY <1>2, <1>6
<1>8. \A k \in 1 .. n : dest[k - 1] \in StringChar \cup {Nul}
  BY <1>7 DEF StringsInv
<1>9. [k \in 1 .. n |-> dest[k - 1]] \in Seq(StringChar \cup {Nul})
  BY <1>2, <1>6, <1>8
<1>10. Len([k \in 1 .. n |-> dest[k - 1]]) = n
  BY <1>2, <1>6
<1>11. Strings!Held = [k \in 1 .. n |-> dest[k - 1]]
  BY DEF Strings!Held, n
<1>. QED BY <1>5, <1>9, <1>10, <1>11 DEF n

\* The invariant of the string that is held
LEMMA StringsStart == Strings!Init => StringsInv
<1> SUFFICES ASSUME Strings!Init PROVE StringsInv
  OBVIOUS
<1>1. PICK c \in StringChar : dest = [i \in 0 .. StringSize - 1 |-> IF i = StringSize - 1 THEN Nul ELSE c]
  BY DEF Strings!Init, Strings!Cells
<1>2. StringSize - 1 \in 0 .. StringSize - 1
  BY StringConstants
<1>3. dest[StringSize - 1] = Nul
  BY <1>1, <1>2
<1>. QED BY <1>1, <1>2, <1>3 DEF StringsInv, Strings!Ends, Strings!Cells

\* What is stored ends where the string ended, or before.
LEMMA StoredEnds ==
  ASSUME StringsInv, NEW s \in Seq(StringChar \cup {Nul}), NEW n \in Nat, n <= Len(s),
         n <= Strings!Size, NEW t \in BOOLEAN, dest' = Strings!Stored(s, n, t)
  PROVE  StringsInv'
<1> DEFINE m == Strings!Size
<1>1. m \in 0 .. StringSize - 1 /\ dest[m] = Nul /\ StringSize \in Nat
  BY HeldIs, StringConstants
<1> HIDE DEF m
<1>2. n <= m
  BY DEF m
<1>3. dest' = [i \in 0 .. StringSize - 1 |-> IF i < n THEN s[i + 1] ELSE IF t /\ i = n THEN Nul ELSE dest[i]]
  BY DEF Strings!Stored, Strings!Cells
<1>4. ASSUME NEW i \in 0 .. StringSize - 1, i < n PROVE s[i + 1] \in StringChar \cup {Nul}
  <2>1. i + 1 \in 1 .. Len(s)
    BY <1>4
  <2>. QED BY <2>1
<1>5. dest' \in [0 .. StringSize - 1 -> StringChar \cup {Nul}]
  BY <1>3, <1>4 DEF StringsInv
<1>6. dest'[IF t THEN n ELSE m] = Nul /\ (IF t THEN n ELSE m) \in 0 .. StringSize - 1
  BY <1>1, <1>2, <1>3
<1>. QED BY <1>5, <1>6 DEF StringsInv, Strings!Ends, Strings!Cells

LEMMA StringsKeep == StringsInv /\ [Strings!Next]_dest => StringsInv'
<1> SUFFICES ASSUME StringsInv, [Strings!Next]_dest PROVE StringsInv'
  OBVIOUS
<1>1. CASE dest' = dest
  BY <1>1 DEF StringsInv, Strings!Ends, Strings!Cells
<1>2. ASSUME NEW s \in StringText, Strings!Copy(s) PROVE StringsInv'
  <2>1. s \in Seq(StringChar \cup {Nul}) /\ Len(s) \in Nat /\ Len(s) <= Strings!Size
    BY <1>2, StringConstants, HeldIs DEF Strings!Copy
  <2>2. dest' = Strings!Stored(s, Len(s), TRUE) /\ Len(s) <= Len(s) /\ TRUE \in BOOLEAN
    BY <1>2, <2>1 DEF Strings!Copy
  <2>. QED BY <2>1, <2>2, StoredEnds
<1>3. ASSUME NEW s \in StringText, NEW n \in 0 .. StringSize, NEW t \in BOOLEAN, Strings!CopyN(s, n, t)
      PROVE  StringsInv'
  <2>1. s \in Seq(StringChar \cup {Nul}) /\ n \in Nat /\ n <= Len(s) /\ n <= Strings!Size
    BY <1>3, StringConstants, HeldIs DEF Strings!CopyN
  <2>. QED BY <1>3, <2>1, StoredEnds DEF Strings!CopyN
<1>. QED BY <1>1, <1>2, <1>3 DEF Strings!Next

\* It is enough for what is claimed of strings.
LEMMA StringsHold ==
  StringsInv => Strings!EndsInBuffer /\ Strings!SearchesAgree /\ Strings!TrimsTheEnds
<1> SUFFICES ASSUME StringsInv PROVE Strings!EndsInBuffer /\ Strings!SearchesAgree /\ Strings!TrimsTheEnds
  OBVIOUS
<1> DEFINE C == StringChar \cup {Nul}  h == Strings!Held  n == Strings!Size
<1>1. h \in Seq(C) /\ Len(h) = n /\ n \in Nat
  BY HeldIs, StringConstants
<1>2. Strings!EndsInBuffer
  BY DEF StringsInv, Strings!EndsInBuffer
<1> HIDE DEF h, n
<1>3. ASSUME NEW w \in StringText
      PROVE  LET at == {i \in 0 .. n - 1 : Strings!StartsWith(Strings!From(h, i), w)}
                 found == Strings!Find(h, w)
             IN /\ found = -1 <=> at = {}
                /\ found # -1 => found \in at /\ \A i \in at : found <= i
                /\ Strings!EndsWith(h, w) <=> \E i \in 0 .. n : Strings!From(h, i) = w
                /\ Len(w) = 1 => found = Strings!FindChar(h, w[1])
                /\ Strings!StartsWith(h, w) <=> Len(w) <= n /\ Strings!Cut(h, 0, Len(w)) = w
                /\ Strings!Equals(h, w) <=> h = w
  <2> DEFINE at == {i \in 0 .. n - 1 : Strings!StartsWith(Strings!From(h, i), w)}
             found == Strings!Find(h, w)
  <2>1. w \in Seq(C)
    BY StringConstants
  <2>2. \A i \in 0 .. n - 1 : Strings!From(h, i) \in Seq(C) /\ Len(Strings!From(h, i)) = n - i
                              /\ \A k \in 1 .. n - i : Strings!From(h, i)[k] = h[i + k]
    BY <1>1, FromIs
  <2>3. at = Places(h, w)
    <3>1. \A i \in 0 .. n - 1 : Strings!StartsWith(Strings!From(h, i), w) <=> Leads(Strings!From(h, i), w)
      BY <2>1, <2>2, StartsWithIs
    <3>. QED BY <1>1, <3>1 DEF Places
  <2>4. IsFirst(at, -1, 0, found)
    BY <1>1, <2>1, <2>3, FindIs
  <2>5. \A i \in at : i \in 0 .. n - 1
    OBVIOUS
  <2>6. Len(w) = 1 => IsFirst(at, -1, 0, Strings!FindChar(h, w[1]))
    <3> SUFFICES ASSUME Len(w) = 1 PROVE IsFirst(at, -1, 0, Strings!FindChar(h, w[1]))
      OBVIOUS
    <3>1. IsFirst({i \in 0 .. n - 1 : h[i + 1] = w[1]}, -1, 0, Strings!FindChar(h, w[1]))
      BY <1>1, FindCharIs
    <3>2. ASSUME NEW i \in 0 .. n - 1 PROVE Leads(Strings!From(h, i), w) <=> h[i + 1] = w[1]
      <4>1. 1 \in 1 .. n - i /\ Len(Strings!From(h, i)) = n - i /\ Strings!From(h, i)[1] = h[i + 1]
        BY <1>1, <2>2
      <4>2. 1 .. Len(w) = {1} /\ Len(w) <= n - i
        BY <1>1
      <4>. QED BY <4>1, <4>2 DEF Leads
    <3>3. {i \in 0 .. n - 1 : h[i + 1] = w[1]} = Places(h, w)
      BY <1>1, <3>2 DEF Places
    <3>. QED BY <2>3, <3>1, <3>3
  <2>7. Strings!EndsWith(h, w) <=> \E i \in 0 .. n : Strings!From(h, i) = w
    BY <1>1, <2>1, EndsWithIs
  <2>8. Strings!StartsWith(h, w) <=> Len(w) <= n /\ Strings!Cut(h, 0, Len(w)) = w
    BY <1>1, <2>1, StartsWithIs
  <2>9. Strings!Equals(h, w) <=> h = w
    BY <1>1, <2>1, EqualsIs
  <2>10. at \in SUBSET (0 .. n)
    BY <1>1, <2>5
  <2> HIDE DEF at, found
  <2>11. found = -1 <=> at = {}
    BY <1>1, <2>4, <2>5 DEF IsFirst
  <2>12. found # -1 => found \in at /\ \A i \in at : found <= i
    BY <1>1, <2>4, <2>5 DEF IsFirst
  <2>13. Len(w) = 1 => found = Strings!FindChar(h, w[1])
    <3>1. at \in SUBSET Nat
      BY <1>1, <2>10
    <3>2. \A j, k : IsFirst(at, -1, 0, j) /\ IsFirst(at, -1, 0, k) => j = k
      BY <3>1, FirstUnique
    <3>. QED BY <2>4, <2>6, <3>2
  <2>. QED BY <2>7, <2>8, <2>9, <2>11, <2>12, <2>13 DEF at, found
<1>4. Strings!SearchesAgree
  BY <1>3 DEF h, n, Strings!SearchesAgree
<1>5. ASSUME NEW b1 \in BOOLEAN, NEW e1 \in BOOLEAN
      PROVE  LET t == Strings!Trim(h, b1, e1)
             IN \E i \in 0 .. n :
                  /\ i + Len(t) <= n /\ t = Strings!Cut(h, i, i + Len(t))
                  /\ IF b1 THEN Strings!IsBlank(Strings!Cut(h, 0, i)) /\ (t = <<>> \/ t[1] \notin BlankChar) ELSE i = 0
                  /\ IF e1 THEN Strings!IsBlank(Strings!From(h, i + Len(t))) /\ (t = <<>> \/ t[Len(t)] \notin BlankChar)
                           ELSE i + Len(t) = n \/ Strings!IsBlank(h)
  <2> DEFINE t == Strings!Trim(h, b1, e1)
  <2>1. PICK i \in 0 .. n, j \in 0 .. n :
           /\ i <= j /\ t = Strings!Cut(h, i, j)
           /\ IF b1 THEN TrimStartGood(h, i) ELSE i = 0
           /\ IF e1 THEN TrimEndGood(h, i, j) ELSE j = Len(h)
    BY <1>1, TrimIs
  <2> HIDE DEF t
  <2>2. t \in Seq(C) /\ Len(t) = j - i /\ \A k \in 1 .. j - i : t[k] = h[i + k]
    BY <1>1, <2>1, CutIs
  <2>3. i + Len(t) = j
    BY <1>1, <2>2
  <2>4. ASSUME b1 PROVE Strings!IsBlank(Strings!Cut(h, 0, i)) /\ (t = <<>> \/ t[1] \notin BlankChar)
    <3>1. TrimStartGood(h, i)
      BY <2>1, <2>4
    <3>2. Strings!Cut(h, 0, i) \in Seq(C) /\ Len(Strings!Cut(h, 0, i)) = i - 0
          /\ \A k \in 1 .. i - 0 : Strings!Cut(h, 0, i)[k] = h[0 + k]
      <4>1. 0 \in 0 .. Len(h) /\ i \in 0 .. Len(h)
        BY <1>1
      <4>. QED BY <1>1, <4>1, CutIs
    <3>3. \A k \in 1 .. i : Strings!Cut(h, 0, i)[k] \in BlankChar
      BY <1>1, <3>1, <3>2 DEF TrimStartGood
    <3>4. DOMAIN Strings!Cut(h, 0, i) = 1 .. i
      BY <1>1, <3>2
    <3>5. t = <<>> \/ t[1] \notin BlankChar
      <4>1. CASE j = i
        BY <2>2, <4>1
      <4>2. CASE j # i
        <5>1. 1 \in 1 .. j - i /\ i # Len(h)
          BY <1>1, <2>1, <4>2
        <5>. QED BY <2>2, <3>1, <5>1 DEF TrimStartGood
      <4>. QED BY <4>1, <4>2
    <3>. QED BY <3>3, <3>4, <3>5 DEF Strings!IsBlank
  <2>5. ASSUME e1 PROVE Strings!IsBlank(Strings!From(h, j)) /\ (t = <<>> \/ t[Len(t)] \notin BlankChar)
    <3>1. TrimEndGood(h, i, j)
      BY <2>1, <2>5
    <3>2. Strings!From(h, j) \in Seq(C) /\ Len(Strings!From(h, j)) = n - j
          /\ \A k \in 1 .. n - j : Strings!From(h, j)[k] = h[j + k]
      BY <1>1, FromIs
    <3>3. \A k \in 1 .. n - j : j + k \in j + 1 .. n
      BY <1>1
    <3>4. \A k \in 1 .. n - j : Strings!From(h, j)[k] \in BlankChar
      BY <1>1, <3>1, <3>2, <3>3 DEF TrimEndGood
    <3>5. DOMAIN Strings!From(h, j) = 1 .. n - j
      BY <1>1, <3>2
    <3>6. t = <<>> \/ t[Len(t)] \notin BlankChar
      <4>1. CASE j = i
        BY <2>2, <4>1
      <4>2. CASE j # i
        <5>1. j - i \in 1 .. j - i /\ i + (j - i) = j
          BY <1>1, <2>1, <4>2
        <5>. QED BY <2>2, <3>1, <4>2, <5>1 DEF TrimEndGood
      <4>. QED BY <4>1, <4>2
    <3>. QED BY <3>4, <3>5, <3>6 DEF Strings!IsBlank
  <2>6. ~e1 => j = n
    BY <1>1, <2>1
  <2>7. ~b1 => i = 0
    BY <2>1
  <2>. QED BY <2>1, <2>3, <2>4, <2>5, <2>6, <2>7 DEF t
<1>6. Strings!TrimsTheEnds
  BY <1>5 DEF h, n, Strings!TrimsTheEnds
<1>. QED BY <1>2, <1>4, <1>6

-----------------------------------------------------------------------------
(* Powers *)

\* The powers of x up to the n-th
IsPowers(x, n, p) ==
  p \in [0 .. n -> Int] /\ p[0] = 1 /\ \A i \in 1 .. n : p[i] = p[i - 1] * x

\* Powers are well defined, and unique.
LEMMA PowersExist ==
  ASSUME NEW x \in Int, NEW n \in Nat
  PROVE  \E p : IsPowers(x, n, p)
<1> DEFINE F == [k \in 1 .. n |-> [r \in Int |-> r * x]]
<1>1. F \in Rounds(n, Int) /\ \A k \in 1 .. n, r \in Int : F[k][r] = r * x
  BY DEF Rounds
<1> HIDE DEF F
<1>2. PICK p : IsCourse(p, n, Int, 1, F)
  BY <1>1, CourseExists
<1>3. p \in [0 .. n -> Int] /\ p[0] = 1 /\ \A k \in 1 .. n : p[k] = F[k][p[k - 1]]
  BY <1>2 DEF IsCourse
<1>4. \A k \in 1 .. n : k - 1 \in 0 .. n
  OBVIOUS
<1>5. \A k \in 1 .. n : p[k] = p[k - 1] * x
  BY <1>1, <1>3, <1>4
<1>6. IsPowers(x, n, p)
  BY <1>3, <1>5 DEF IsPowers
<1>. QED BY <1>6

LEMMA PowersUnique ==
  ASSUME NEW x \in Int, NEW n \in Nat, NEW p, NEW q, IsPowers(x, n, p), IsPowers(x, n, q)
  PROVE  p[n] = q[n]
<1> DEFINE S == {k \in 0 .. n : p[k] = q[k]}
<1>1. 0 \in S
  BY DEF IsPowers
<1>2. ASSUME NEW k \in 0 .. n - 1, k \in S PROVE k + 1 \in S
  <2>1. k + 1 \in 1 .. n /\ (k + 1) - 1 = k /\ k + 1 \in 0 .. n
    OBVIOUS
  <2>2. p[k + 1] = p[k] * x /\ q[k + 1] = q[k] * x
    BY <2>1 DEF IsPowers
  <2>. QED BY <1>2, <2>1, <2>2
<1> HIDE DEF S
<1>3. 0 .. n \subseteq S
  BY <1>1, <1>2, InductionUpTo
<1>. QED BY <1>3 DEF S

LEMMA PowerIs ==
  ASSUME NEW x \in Int, NEW n \in Nat, NEW q, IsPowers(x, n, q)
  PROVE  Power(x, n) = q[n]
<1> DEFINE Loop(p) == p = [i \in 0 .. n |-> IF i = 0 THEN 1 ELSE p[i - 1] * x]
           loop == CHOOSE p : Loop(p)
<1>1. Power(x, n) = loop[n]
  BY DEF Power
<1>2. Loop(q)
  <2>1. \A i \in 0 .. n : q[i] = IF i = 0 THEN 1 ELSE q[i - 1] * x
    <3>1. \A i \in 0 .. n : i = 0 \/ i \in 1 .. n
      OBVIOUS
    <3>. QED BY <3>1 DEF IsPowers
  <2>2. q = [i \in 0 .. n |-> q[i]]
    BY DEF IsPowers
  <2>3. [i \in 0 .. n |-> q[i]] = [i \in 0 .. n |-> IF i = 0 THEN 1 ELSE q[i - 1] * x]
    BY <2>1
  <2>. QED BY <2>2, <2>3
<1>3. Loop(loop)
  <2> HIDE DEF Loop
  <2>. QED BY <1>2
<1> HIDE DEF loop
<1>4. /\ loop[0] = 1 /\ \A i \in 1 .. n : loop[i] = loop[i - 1] * x
      /\ loop = [i \in 0 .. n |-> loop[i]]
  <2>1. loop = [i \in 0 .. n |-> IF i = 0 THEN 1 ELSE loop[i - 1] * x]
    BY <1>3
  <2> HIDE DEF Loop
  <2>2. \A i \in 0 .. n : loop[i] = IF i = 0 THEN 1 ELSE loop[i - 1] * x
    BY <2>1
  <2>3. 0 \in 0 .. n /\ \A i \in 1 .. n : i \in 0 .. n /\ i # 0
    OBVIOUS
  <2>4. loop = [i \in 0 .. n |-> loop[i]]
    BY <2>1
  <2>. QED BY <2>2, <2>3, <2>4
<1> HIDE DEF Loop
<1> DEFINE S == {k \in 0 .. n : loop[k] \in Int}
<1>5. 0 \in S
  BY <1>4
<1>6. ASSUME NEW k \in 0 .. n - 1, k \in S PROVE k + 1 \in S
  <2>1. k + 1 \in 1 .. n /\ (k + 1) - 1 = k /\ k + 1 \in 0 .. n
    OBVIOUS
  <2>2. loop[k + 1] = loop[k] * x
    BY <1>4, <2>1
  <2>. QED BY <1>6, <2>1, <2>2
<1> HIDE DEF S
<1>7. 0 .. n \subseteq S
  BY <1>5, <1>6, InductionUpTo
<1>8. \A k \in 0 .. n : loop[k] \in Int
  BY <1>7 DEF S
<1>9. IsPowers(x, n, loop)
  BY <1>4, <1>8 DEF IsPowers
<1>. QED BY <1>1, <1>9, PowersUnique

\* Each power is the one before it times x.
LEMMA PowerRound ==
  ASSUME NEW x \in Int, NEW n \in Nat
  PROVE  Power(x, n) \in Int /\ Power(x, 0) = 1 /\ Power(x, n + 1) = Power(x, n) * x
<1>1. PICK p : IsPowers(x, n + 1, p)
  BY PowersExist
<1> DEFINE Upto(m) == [i \in 0 .. m |-> p[i]]
<1>2. ASSUME NEW m \in 0 .. n + 1 PROVE Power(x, m) = p[m] /\ p[m] \in Int
  <2>1. IsPowers(x, m, Upto(m))
    <3>1. \A i \in 0 .. m : i \in 0 .. n + 1
      OBVIOUS
    <3>2. \A i \in 1 .. m : i \in 1 .. n + 1 /\ i \in 0 .. m /\ i - 1 \in 0 .. m
      OBVIOUS
    <3>3. 0 \in 0 .. m
      OBVIOUS
    <3>. QED BY <1>1, <3>1, <3>2, <3>3 DEF IsPowers
  <2>2. m \in 0 .. m /\ m \in Nat
    OBVIOUS
  <2> HIDE DEF Upto
  <2>3. Power(x, m) = Upto(m)[m]
    BY <2>1, <2>2, PowerIs
  <2>. QED BY <1>1, <2>2, <2>3 DEF Upto, IsPowers
<1>3. 0 \in 0 .. n + 1 /\ n \in 0 .. n + 1 /\ n + 1 \in 0 .. n + 1 /\ n + 1 \in 1 .. n + 1 /\ (n + 1) - 1 = n
  OBVIOUS
<1>4. p[0] = 1 /\ p[n + 1] = p[n] * x
  BY <1>1, <1>3 DEF IsPowers
<1>. QED BY <1>2, <1>3, <1>4

LEMMA PowerPositive ==
  ASSUME NEW x \in Nat \ {0}, NEW n \in Nat
  PROVE  Power(x, n) \in Nat \ {0}
<1> DEFINE S == {k \in 0 .. n : Power(x, k) \in Nat \ {0}}
<1>1. 0 \in S
  BY PowerRound
<1>2. ASSUME NEW k \in 0 .. n - 1, k \in S PROVE k + 1 \in S
  <2>1. k + 1 \in 0 .. n /\ k \in Nat /\ Power(x, k) \in Nat \ {0}
    BY <1>2
  <2>2. Power(x, k + 1) = Power(x, k) * x
    BY <2>1, PowerRound
  <2>3. \A u \in Nat \ {0} : u * x \in Nat \ {0}
    OBVIOUS
  <2>. QED BY <2>1, <2>2, <2>3
<1> HIDE DEF S
<1>3. 0 .. n \subseteq S
  BY <1>1, <1>2, InductionUpTo
<1>. QED BY <1>3 DEF S

\* Powers of the same number multiply by the sum of the exponents.
LEMMA PowerSum ==
  ASSUME NEW x \in Int, NEW m \in Nat, NEW n \in Nat
  PROVE  Power(x, m + n) = Power(x, m) * Power(x, n)
<1> DEFINE S == {k \in 0 .. n : Power(x, m + k) = Power(x, m) * Power(x, k)}
<1>1. 0 \in S
  <2>1. m + 0 = m /\ Power(x, 0) = 1 /\ Power(x, m) \in Int
    BY PowerRound
  <2>. QED BY <2>1
<1>2. ASSUME NEW k \in 0 .. n - 1, k \in S PROVE k + 1 \in S
  <2>1. k + 1 \in 0 .. n /\ k \in Nat /\ m + k \in Nat /\ m + (k + 1) = (m + k) + 1
    BY <1>2
  <2>2. /\ Power(x, m + (k + 1)) = Power(x, m + k) * x /\ Power(x, k + 1) = Power(x, k) * x
        /\ Power(x, m + k) = Power(x, m) * Power(x, k)
        /\ Power(x, m) \in Int /\ Power(x, k) \in Int
    BY <1>2, <2>1, PowerRound
  <2>3. \A u, v \in Int : (u * v) * x = u * (v * x)
    OBVIOUS
  <2>4. Power(x, m + (k + 1)) = Power(x, m) * Power(x, k + 1)
    BY <2>2, <2>3
  <2>. QED BY <2>1, <2>4
<1> HIDE DEF S
<1>3. 0 .. n \subseteq S
  BY <1>1, <1>2, InductionUpTo
<1>4. n \in S
  BY <1>3
<1>. QED BY <1>4 DEF S

-----------------------------------------------------------------------------
(* The values of the types *)

HalfWord == Power(2, MathBits - 1)

\* The instances use the same powers.
LEMMA SamePower ==
  ASSUME NEW x, NEW n
  PROVE  Math!Power(x, n) = Power(x, n) /\ Numerals!Power(x, n) = Power(x, n)
BY DEF Math!Power, Numerals!Power, Power

\* The sizes of the words, of MathBits bits and of twice as many
LEMMA WordsAre ==
  /\ HalfWord \in Nat /\ HalfWord >= 2
  /\ Power(2, MathBits) = 2 * HalfWord
  /\ Power(2, 2 * MathBits - 1) = 2 * (HalfWord * HalfWord)
  /\ Power(2, 2 * MathBits) = 4 * (HalfWord * HalfWord)
<1>1. MathBits \in Nat /\ MathBits > 1 /\ 2 \in Int /\ 2 \in Nat \ {0}
  BY NumberAssumption DEF Math!ArithmeticAssumption
<1> DEFINE m == MathBits - 1
<1>2. m \in Nat /\ m - 1 \in Nat /\ (m - 1) + 1 = m /\ MathBits = m + 1
  BY <1>1
<1>3. 2 * MathBits - 1 = m + (m + 1) /\ 2 * MathBits = (m + (m + 1)) + 1
  BY <1>1
<1> HIDE DEF m
<1>4. Power(2, m) \in Nat \ {0} /\ Power(2, m - 1) \in Nat \ {0}
  BY <1>1, <1>2, PowerPositive
<1>5. Power(2, m) = Power(2, m - 1) * 2 /\ Power(2, m + 1) = Power(2, m) * 2
  BY <1>1, <1>2, PowerRound
<1>6. Power(2, m + (m + 1)) = Power(2, m) * Power(2, m + 1)
  BY <1>1, <1>2, PowerSum
<1>7. Power(2, (m + (m + 1)) + 1) = Power(2, m + (m + 1)) * 2
  BY <1>1, <1>2, PowerRound
<1>8. HalfWord = Power(2, m)
  BY DEF HalfWord, m
<1>9. HalfWord \in Nat /\ HalfWord >= 2
  BY <1>4, <1>5, <1>8
<1>10. Power(2, m + 1) = 2 * HalfWord
  BY <1>4, <1>5, <1>8
<1>11. Power(2, m + (m + 1)) = HalfWord * (2 * HalfWord)
  BY <1>6, <1>8, <1>10
<1>12. HalfWord * (2 * HalfWord) = 2 * (HalfWord * HalfWord) /\ (2 * (HalfWord * HalfWord)) * 2 = 4 * (HalfWord * HalfWord) /\ HalfWord * HalfWord \in Nat
  BY <1>9
<1>. QED BY <1>2, <1>3, <1>7, <1>9, <1>10, <1>11, <1>12

\* The values of a type
Least(signed) == IF signed THEN -HalfWord ELSE 0
Most(signed) == IF signed THEN HalfWord - 1 ELSE 2 * HalfWord - 1

\* The values of a type are those of its words.
LEMMA ValuesAre ==
  ASSUME NEW signed \in BOOLEAN
  PROVE  /\ Math!Lowest(signed) = Least(signed) /\ Math!Highest(signed) = Most(signed)
         /\ Math!Values(signed) = Least(signed) .. Most(signed)
         /\ Least(signed) \in Int /\ Most(signed) \in Int
BY SamePower, WordsAre DEF Math!Values, Math!Lowest, Math!Highest, Least, Most, HalfWord

\* A conversion to a word of 2 * h values, which keeps what fits
Wrap(x, h, signed) ==
  IF signed /\ x % (2 * h) >= h THEN (x % (2 * h)) - 2 * h ELSE x % (2 * h)

\* The numbers of such a word
Word(h, signed) == (IF signed THEN -h ELSE 0) .. (IF signed THEN h - 1 ELSE 2 * h - 1)

\* Two numbers that are the same in it
SameIn(h, x, y) == \E q \in Int : x = y + q * (2 * h)

\* A word that wraps is the same number but for multiples of its size.
LEMMA Wraps ==
  ASSUME NEW h \in Nat \ {0}, NEW x \in Int, NEW signed \in BOOLEAN
  PROVE  /\ Wrap(x, h, signed) \in Int /\ Wrap(x, h, signed) \in Word(h, signed)
         /\ x \in Word(h, signed) => Wrap(x, h, signed) = x
         /\ SameIn(h, x, Wrap(x, h, signed))
<1> DEFINE w == 2 * h
           u == x % w
           y == IF signed /\ u >= h THEN u - w ELSE u
<1>1. w \in Nat /\ w > 0
  OBVIOUS
<1>2. u \in 0 .. w - 1 /\ x = w * (x \div w) + u /\ x \div w \in Int
  <2> HIDE DEF w
  <2>. QED BY <1>1
<1> DEFINE q == x \div w
<1>3. q \in Int /\ x = w * q + u
  BY <1>2
<1> HIDE DEF w, q
<1> HIDE DEF u
<1>4. w * q = q * w /\ (q + 1) * w = q * w + w /\ q * w \in Int
  BY <1>1, <1>3
<1>5. ASSUME x \in -h .. h - 1 PROVE q = 0 \/ q = -1
  <2>1. q >= 1 => w * q >= w
    BY <1>1, <1>3
  <2>2. q <= -2 => w * q <= -(2 * w)
    BY <1>1, <1>3
  <2>3. w = 2 * h
    BY DEF w
  <2>4. q >= 1 => FALSE
    BY <1>1, <1>2, <1>3, <1>5, <2>1, <2>3
  <2>5. q <= -2 => FALSE
    BY <1>1, <1>2, <1>3, <1>5, <2>2, <2>3
  <2>. QED BY <1>3, <2>4, <2>5
<1>6. ASSUME x \in 0 .. w - 1 PROVE q = 0
  <2>1. q >= 1 => w * q >= w
    BY <1>1, <1>3
  <2>2. q <= -1 => w * q <= -w
    BY <1>1, <1>3
  <2>. QED BY <1>1, <1>2, <1>3, <1>6, <2>1, <2>2
<1>7. w = 2 * h
  BY DEF w
<1>8. w * 0 = 0 /\ w * (-1) = -w
  BY <1>1
<1>9. signed /\ x \in -h .. h - 1 => y = x
  BY <1>1, <1>2, <1>3, <1>5, <1>7, <1>8
<1>10. ~signed /\ x \in 0 .. w - 1 => y = x
  BY <1>1, <1>2, <1>3, <1>6, <1>7, <1>8
<1>11. y \in (IF signed THEN -h ELSE 0) .. (IF signed THEN h - 1 ELSE 2 * h - 1)
  BY <1>1, <1>2, <1>7
<1>13. \E k \in Int : x = y + k * w
  <2>1. CASE signed /\ u >= h
    <3>1. x = (u - w) + (q + 1) * w /\ q + 1 \in Int
      BY <1>1, <1>2, <1>3, <1>4
    <3>. QED BY <2>1, <3>1
  <2>2. CASE ~(signed /\ u >= h)
    <3>1. x = u + q * w
      BY <1>1, <1>2, <1>3, <1>4
    <3>. QED BY <1>3, <2>2, <3>1
  <2>. QED BY <2>1, <2>2
<1>14. Wrap(x, h, signed) = y
  BY DEF Wrap, u, w
<1>15. y \in Int
  BY <1>1, <1>2
<1> HIDE DEF y
<1>16. Word(h, signed) = (IF signed THEN -h ELSE 0) .. (IF signed THEN h - 1 ELSE 2 * h - 1)
  BY DEF Word
<1>17. SameIn(h, x, y)
  BY <1>7, <1>13 DEF SameIn
<1>. QED BY <1>7, <1>9, <1>10, <1>11, <1>14, <1>15, <1>16, <1>17

LEMMA Monotone ==
  ASSUME NEW p \in Nat, NEW q \in Nat, NEW r \in Nat, NEW s \in Nat, p <= r, q <= s
  PROVE  p * q \in Nat /\ p * q <= r * s
<1>1. p * q <= r * q /\ r * q <= r * s
  <2>1. r * q - p * q = (r - p) * q /\ r * s - r * q = r * (s - q)
    OBVIOUS
  <2>2. (r - p) * q >= 0 /\ r * (s - q) >= 0
    OBVIOUS
  <2>. QED BY <2>1, <2>2
<1>2. p * q \in Nat /\ r * q \in Nat /\ r * s \in Nat
  OBVIOUS
<1>. QED BY <1>1, <1>2

Square == HalfWord * HalfWord

LEMMA SquareIs == Square \in Nat /\ Square >= 2 * HalfWord
<1>1. HalfWord \in Nat /\ 2 \in Nat /\ 2 <= HalfWord
  BY WordsAre
<1>2. 2 * HalfWord <= HalfWord * HalfWord /\ HalfWord * HalfWord \in Nat
  BY <1>1, Monotone
<1>. QED BY <1>2 DEF Square

LEMMA ProductFits ==
  ASSUME NEW x \in Int, NEW y \in Int
  PROVE  /\ x \in -HalfWord .. HalfWord /\ y \in -HalfWord .. HalfWord => x * y \in -Square .. Square
         /\ x \in 0 .. 2 * HalfWord - 1 /\ y \in 0 .. 2 * HalfWord - 1 => x * y \in 0 .. 4 * Square - 1
<1> DEFINE X == IF x < 0 THEN -x ELSE x
           Y == IF y < 0 THEN -y ELSE y
<1>0. HalfWord \in Nat /\ HalfWord >= 2 /\ Square \in Nat
  BY WordsAre, SquareIs
<1>1. X \in Nat /\ Y \in Nat /\ x * y \in Int /\ (x * y = X * Y \/ x * y = -(X * Y))
  OBVIOUS
<1>2. ASSUME x \in -HalfWord .. HalfWord, y \in -HalfWord .. HalfWord PROVE x * y \in -Square .. Square
  <2>1. X <= HalfWord /\ Y <= HalfWord
    BY <1>0, <1>2
  <2> HIDE DEF X, Y
  <2>2. X * Y \in Nat /\ X * Y <= HalfWord * HalfWord
    BY <1>0, <1>1, <2>1, Monotone
  <2>. QED BY <1>0, <1>1, <2>2 DEF Square
<1>3. ASSUME x \in 0 .. 2 * HalfWord - 1, y \in 0 .. 2 * HalfWord - 1 PROVE x * y \in 0 .. 4 * Square - 1
  <2> DEFINE m == 2 * HalfWord - 1
  <2>1. m \in Nat /\ x \in Nat /\ y \in Nat /\ x <= m /\ y <= m
    BY <1>0, <1>3
  <2> HIDE DEF m
  <2>2. x * y \in Nat /\ x * y <= m * m
    BY <2>1, Monotone
  <2>3. m * m = 4 * (HalfWord * HalfWord) - 4 * HalfWord + 1
    BY <1>0 DEF m
  <2>. QED BY <1>0, <2>2, <2>3, SquareIs DEF Square
<1>. QED BY <1>2, <1>3

\* A result is cut to a value of its type, which it is when it is one already.
LEMMA NarrowIs ==
  ASSUME NEW signed \in BOOLEAN, NEW x \in Int
  PROVE  /\ Math!Narrow(x, signed) \in Int /\ Math!Narrow(x, signed) \in Math!Values(signed)
         /\ x \in Math!Values(signed) => Math!Narrow(x, signed) = x
         /\ SameIn(HalfWord, x, Math!Narrow(x, signed))
<1>1. HalfWord \in Nat \ {0}
  BY WordsAre
<1>2. Math!Narrow(x, signed) = Wrap(x, HalfWord, signed)
  BY SamePower, WordsAre DEF Math!Narrow, Math!Wrapped, HalfWord, Wrap
<1>3. Math!Values(signed) = Word(HalfWord, signed)
  BY ValuesAre DEF Least, Most, Word
<1>. QED BY <1>1, <1>2, <1>3, Wraps

\* The results of the narrow types' operations in the wide word
Fits(x, signed) ==
  IF signed THEN x \in -(2 * Square) .. 2 * Square - 1 ELSE x \in -2 * HalfWord + 1 .. 4 * Square - 1

\* A result in the wide word
Wide(x, signed) == Math!Wrapped(x, 2 * MathBits, signed)

\* A double word holds every sum and product, or what it is when negative and unsigned.
LEMMA WideIs ==
  ASSUME NEW signed \in BOOLEAN, NEW x \in Int, Fits(x, signed)
  PROVE  /\ signed \/ x >= 0 => Wide(x, signed) = x
         /\ ~signed /\ x < 0 => Wide(x, signed) = x + 4 * Square
<1> DEFINE h == 2 * Square
<1>1. h \in Nat /\ h > 0 /\ h >= 4 * HalfWord /\ HalfWord \in Nat /\ 2 * h = 4 * Square
  BY WordsAre, SquareIs
<1>2. Wide(x, signed) = Wrap(x, h, signed)
  <2>1. Power(2, 2 * MathBits) = 2 * h /\ Power(2, 2 * MathBits - 1) = h
    BY WordsAre, SquareIs DEF Square
  <2> HIDE DEF h
  <2>. QED BY <2>1, SamePower DEF Wide, Math!Wrapped, Wrap
<1>3. signed => x \in -h .. h - 1
  BY DEF Fits
<1>4. ~signed => x \in -2 * HalfWord + 1 .. 2 * h - 1
  BY <1>1 DEF Fits
<1>5. Wide(x, signed) = x + 2 * h \/ signed \/ x >= 0
  <2> SUFFICES ASSUME ~signed, x < 0 PROVE Wide(x, signed) = x + 2 * h
    BY <1>1
  <2> HIDE DEF h
  <2>1. x + 2 * h \in 0 .. 2 * h - 1
    BY <1>1, <1>4
  <2>2. x % (2 * h) = x + 2 * h
    BY <1>1, <2>1
  <2>. QED BY <1>2, <2>2 DEF Wrap
<1>6. signed \/ x >= 0 => Wide(x, signed) = x
  <2> HIDE DEF h
  <2>1. signed \/ x >= 0 => x \in Word(h, signed)
    BY <1>1, <1>3, <1>4 DEF Word
  <2>2. h \in Nat \ {0}
    BY <1>1
  <2>. QED BY <1>2, <2>1, <2>2, Wraps
<1>. QED BY <1>1, <1>5, <1>6

\* A result computed in a double word is refused when the type does not have it.
LEMMA ComparedIs ==
  ASSUME NEW signed \in BOOLEAN, NEW x \in Int, Fits(x, signed)
  PROVE  Math!Compared(x, signed, 2 * MathBits)
           = IF x \in Math!Values(signed) THEN Math!Ok(x) ELSE Math!Refused("would_overflow")
<1> DEFINE w == Wide(x, signed)
<1>1. w \in Int
  BY WideIs, SquareIs
<1>2. Math!Narrow(w, signed) \in Math!Values(signed) /\ (w \in Math!Values(signed) => Math!Narrow(w, signed) = w)
  BY <1>1, NarrowIs
<1>3. w = Math!Narrow(w, signed) <=> w \in Math!Values(signed)
  BY <1>2
<1>4. w \in Math!Values(signed) <=> x \in Math!Values(signed)
  <2>1. CASE signed \/ x >= 0
    BY <2>1, WideIs
  <2>2. CASE ~signed /\ x < 0
    <3>1. w = x + 4 * Square /\ x >= -2 * HalfWord + 1
      BY <2>2, WideIs DEF Fits
    <3>2. w > 2 * HalfWord - 1
      BY <3>1, SquareIs, WordsAre
    <3>. QED BY <1>1, <2>2, <3>2, WordsAre, ValuesAre DEF Least, Most
  <2>. QED BY <2>1, <2>2
<1>5. x \in Math!Values(signed) => Math!Narrow(x, signed) = x
  BY NarrowIs
<1>. QED BY <1>3, <1>4, <1>5 DEF Math!Compared, Wide

\* A result computed in a word no wider than the type's is cut to the type and never refused.
LEMMA SingleIs ==
  ASSUME NEW signed \in BOOLEAN, NEW x \in Int
  PROVE  /\ Math!Compared(x, signed, MathBits) = Math!Ok(Math!Narrow(x, signed))
         /\ Math!Wrapped(x, MathBits, signed) = Math!Narrow(x, signed)
<1>1. Math!Wrapped(x, MathBits, signed) = Math!Narrow(x, signed)
  BY DEF Math!Narrow
<1>2. Math!Narrow(Math!Narrow(x, signed), signed) = Math!Narrow(x, signed)
  BY NarrowIs
<1>. QED BY <1>1, <1>2 DEF Math!Compared

-----------------------------------------------------------------------------
(* Division *)

\* What a quotient of two natural numbers is
LEMMA QuotientOfNaturals ==
  ASSUME NEW x \in Nat, NEW y \in Nat \ {0}
  PROVE  /\ x \div y \in Nat /\ (x \div y) * y <= x /\ x < (x \div y) * y + y
         /\ x \div y <= x
<1> DEFINE d == x \div y
<1>1. d \in Int /\ x = y * d + (x % y) /\ x % y \in 0 .. y - 1
  OBVIOUS
<1> HIDE DEF d
<1>2. d >= 0
  <2>1. d <= -1 => y * d <= -y
    BY <1>1
  <2>. QED BY <1>1, <2>1
<1>3. y * d = d * y /\ d * y >= d
  BY <1>1, <1>2
<1>4. d \in Nat /\ d * y <= x /\ x < d * y + y /\ d <= x
  BY <1>1, <1>2, <1>3
<1>. QED BY <1>4 DEF d

\* A product of a natural number with the divisor is in the dividend up to the quotient.
LEMMA QuotientBounds ==
  ASSUME NEW x \in Nat, NEW y \in Nat \ {0}, NEW z \in Nat
  PROVE  z > x \div y <=> z * y > x
<1> DEFINE d == x \div y
<1>1. d \in Nat /\ d * y <= x /\ x < d * y + y
  BY QuotientOfNaturals
<1> HIDE DEF d
<1>2. (d + 1) * y = d * y + y
  BY <1>1
<1>3. z > d => z * y >= (d + 1) * y
  <2>1. z > d => z - (d + 1) >= 0 /\ (z - (d + 1)) * y >= 0
    BY <1>1
  <2>2. (z - (d + 1)) * y = z * y - (d + 1) * y
    BY <1>1
  <2>. QED BY <1>1, <2>1, <2>2
<1>4. z <= d => z * y <= d * y
  <2>1. z <= d => d - z >= 0 /\ (d - z) * y >= 0
    BY <1>1
  <2>2. (d - z) * y = d * y - z * y
    BY <1>1
  <2>. QED BY <1>1, <2>1, <2>2
<1>. QED BY <1>1, <1>2, <1>3, <1>4 DEF d

\* The absolute value
Magnitude(x) == IF x < 0 THEN -x ELSE x

\* Division truncates: it divides the magnitudes.
LEMMA QuotientIs ==
  ASSUME NEW x \in Int, NEW y \in Int, y # 0
  PROVE  /\ Magnitude(x) \in Nat /\ Magnitude(y) \in Nat \ {0}
         /\ Math!Quotient(x, y) = IF (x < 0) = (y < 0) THEN Magnitude(x) \div Magnitude(y)
                                                        ELSE -(Magnitude(x) \div Magnitude(y))
         /\ Math!Quotient(x, y) \in Int
         /\ Math!Quotient(x, y) \in -Magnitude(x) .. Magnitude(x)
         /\ x >= 0 /\ y >= 0 => Math!Quotient(x, y) = x \div y /\ Math!Quotient(x, y) \in 0 .. x
<1>1. Magnitude(x) \in Nat /\ Magnitude(y) \in Nat \ {0} /\ (x >= 0 => Magnitude(x) = x) /\ (y >= 0 => Magnitude(y) = y)
  BY DEF Magnitude
<1>2. Math!Quotient(x, y) = IF (x < 0) = (y < 0) THEN Magnitude(x) \div Magnitude(y)
                                                ELSE -(Magnitude(x) \div Magnitude(y))
  BY DEF Math!Quotient, Magnitude
<1> DEFINE d == Magnitude(x) \div Magnitude(y)
<1>3. d \in Nat /\ d <= Magnitude(x)
  BY <1>1, QuotientOfNaturals
<1>4. Math!Quotient(x, y) = IF (x < 0) = (y < 0) THEN d ELSE -d
  BY <1>2
<1> HIDE DEF d
<1>5. Math!Quotient(x, y) \in -Magnitude(x) .. Magnitude(x)
  <2>1. d \in -Magnitude(x) .. Magnitude(x) /\ -d \in -Magnitude(x) .. Magnitude(x)
    BY <1>1, <1>3
  <2>. QED BY <1>4, <2>1
<1>6. ASSUME x >= 0, y >= 0 PROVE Math!Quotient(x, y) = x \div y /\ Math!Quotient(x, y) \in 0 .. x
  <2>1. (x < 0) = (y < 0)
    BY <1>6
  <2>2. Math!Quotient(x, y) = d /\ d = x \div y
    BY <1>1, <1>4, <1>6, <2>1 DEF d
  <2>. QED BY <1>1, <1>3, <1>6, <2>2
<1>7. Math!Quotient(x, y) \in Int
  BY <1>5, <1>1
<1>. QED BY <1>1, <1>2, <1>5, <1>6, <1>7

\* A product divided by one factor is the other.
LEMMA ProductDivided ==
  ASSUME NEW x \in Int, NEW y \in Int, y # 0, x # 0
  PROVE  Math!Quotient(x * y, y) = x
<1>1. /\ Magnitude(x) \in Nat \ {0} /\ Magnitude(y) \in Nat \ {0}
      /\ Magnitude(x * y) = Magnitude(x) * Magnitude(y) /\ x * y \in Int
  BY DEF Magnitude
<1>2. (x * y < 0) = (y < 0) <=> x > 0
  OBVIOUS
<1>3. (Magnitude(x) * Magnitude(y)) \div Magnitude(y) = Magnitude(x)
  <2> DEFINE u == Magnitude(x)  v == Magnitude(y)  d == (u * v) \div v
  <2>1. u \in Nat /\ v \in Nat \ {0} /\ u * v \in Nat
    BY <1>1
  <2> HIDE DEF u, v
  <2>2. d \in Nat /\ d * v <= u * v /\ u * v < d * v + v
    BY <2>1, QuotientOfNaturals
  <2>3. ~(u > d)
    <3>1. u > d <=> u * v > u * v
      BY <2>1, QuotientBounds
    <3>. QED BY <2>1, <3>1
  <2> HIDE DEF d
  <2>4. ~(u < d)
    <3>1. u < d => d - u >= 1 /\ (d - u) * v >= v
      BY <2>1, <2>2
    <3>2. (d - u) * v = d * v - u * v
      BY <2>1, <2>2
    <3>. QED BY <2>1, <2>2, <3>1, <3>2
  <2>. QED BY <2>1, <2>2, <2>3, <2>4 DEF d, u, v
<1> DEFINE p == x * y
<1>4. Math!Quotient(p, y) = IF (p < 0) = (y < 0) THEN Magnitude(p) \div Magnitude(y)
                                                  ELSE -(Magnitude(p) \div Magnitude(y))
  <2>1. p \in Int
    OBVIOUS
  <2> HIDE DEF p
  <2>. QED BY <2>1, QuotientIs
<1>5. Magnitude(p) \div Magnitude(y) = Magnitude(x)
  BY <1>1, <1>3
<1>6. (p < 0) = (y < 0) <=> x > 0
  BY <1>2
<1> HIDE DEF p
<1>7. Math!Quotient(p, y) = IF x > 0 THEN Magnitude(x) ELSE -Magnitude(x)
  BY <1>4, <1>5, <1>6
<1>. QED BY <1>7 DEF Magnitude, p

-----------------------------------------------------------------------------
(* The operations *)

\* What an operation answers whose exact result is v
Result(v, signed) == IF v \in Math!Values(signed) THEN Math!Ok(v) ELSE Math!Refused("would_overflow")

\* The operations of the narrow types
LEMMA NarrowOnes ==
  ASSUME NEW signed \in BOOLEAN, NEW x \in Math!Values(signed), NEW y \in Math!Values(signed),
         NEW o \in BOOLEAN
  PROVE  /\ Math!NarrowAdd(x, y, signed, 2 * MathBits) = Result(x + y, signed)
         /\ Math!NarrowSub(x, y, signed, 2 * MathBits) = Result(x - y, signed)
         /\ Math!NarrowMul(x, y, signed, 2 * MathBits) = Result(x * y, signed)
         /\ y # 0 => Math!NarrowDiv(x, y, signed, 2 * MathBits, o) = Result(Math!Quotient(x, y), signed)
<1>1. /\ x \in Int /\ y \in Int /\ x + y \in Int /\ x - y \in Int /\ x * y \in Int
      /\ x \in Least(signed) .. Most(signed) /\ y \in Least(signed) .. Most(signed)
  BY ValuesAre
<1>2. HalfWord \in Nat /\ HalfWord >= 2 /\ Square \in Nat /\ Square >= 2 * HalfWord
  BY WordsAre, SquareIs
<1>3. Fits(x + y, signed) /\ Fits(x - y, signed)
  BY <1>1, <1>2 DEF Fits, Least, Most
<1>4. Fits(x * y, signed)
  <2> DEFINE p == x * y
  <2>1. signed => p \in -Square .. Square
    <3>1. signed => x \in -HalfWord .. HalfWord /\ y \in -HalfWord .. HalfWord
      BY <1>1, <1>2 DEF Least, Most
    <3>. QED BY <1>1, <3>1, ProductFits
  <2>2. ~signed => p \in 0 .. 4 * Square - 1
    <3>1. ~signed => x \in 0 .. 2 * HalfWord - 1 /\ y \in 0 .. 2 * HalfWord - 1
      BY <1>1, <1>2 DEF Least, Most
    <3>. QED BY <1>1, <3>1, ProductFits
  <2> HIDE DEF p
  <2>3. Fits(p, signed)
    BY <1>2, <2>1, <2>2 DEF Fits
  <2>. QED BY <2>3 DEF p
<1>5. ASSUME y # 0
      PROVE  /\ Math!Quotient(x, y) \in Int /\ Fits(Math!Quotient(x, y), signed)
             /\ signed \/ Math!Quotient(x, y) >= 0
  <2>1. /\ Math!Quotient(x, y) \in Int /\ Math!Quotient(x, y) \in -Magnitude(x) .. Magnitude(x)
        /\ x >= 0 /\ y >= 0 => Math!Quotient(x, y) \in 0 .. x
    BY <1>1, <1>5, QuotientIs
  <2>. QED BY <1>1, <1>2, <2>1 DEF Fits, Least, Most, Magnitude
<1>6. ASSUME NEW v \in Int, Fits(v, signed) PROVE Math!Compared(v, signed, 2 * MathBits) = Result(v, signed)
  BY <1>6, ComparedIs DEF Result
<1>7. Math!NarrowAdd(x, y, signed, 2 * MathBits) = Result(x + y, signed) /\ Math!NarrowSub(x, y, signed, 2 * MathBits) = Result(x - y, signed)
  BY <1>1, <1>3, <1>6 DEF Math!NarrowAdd, Math!NarrowSub
<1>8. Math!NarrowMul(x, y, signed, 2 * MathBits) = Result(x * y, signed)
  BY <1>1, <1>4, <1>6 DEF Math!NarrowMul
<1>9. ASSUME y # 0 PROVE Math!Wrapped(Math!Quotient(x, y), 2 * MathBits, signed) = Math!Quotient(x, y)
  BY <1>5, <1>9, WideIs DEF Wide
<1>10. ASSUME y # 0 PROVE Math!NarrowDiv(x, y, signed, 2 * MathBits, o) = Result(Math!Quotient(x, y), signed)
  <2>1. Math!NarrowDiv(x, y, signed, 2 * MathBits, o) = Math!Compared(Math!Quotient(x, y), signed, 2 * MathBits)
    BY <1>9, <1>10 DEF Math!NarrowDiv
  <2>. QED BY <1>5, <1>6, <1>10, <2>1
<1>11. y # 0 => Math!NarrowDiv(x, y, signed, 2 * MathBits, o) = Result(Math!Quotient(x, y), signed)
  BY <1>10
<1>. QED BY <1>7, <1>8, <1>11

\* Those of a type that computes in its own word, which are cut to it
LEMMA SingleOnes ==
  ASSUME NEW signed \in BOOLEAN, NEW x \in Math!Values(signed), NEW y \in Math!Values(signed),
         NEW o \in BOOLEAN
  PROVE  /\ Math!NarrowAdd(x, y, signed, MathBits) = Math!Ok(Math!Narrow(x + y, signed))
         /\ Math!NarrowSub(x, y, signed, MathBits) = Math!Ok(Math!Narrow(x - y, signed))
         /\ Math!NarrowMul(x, y, signed, MathBits) = Math!Ok(Math!Narrow(x * y, signed))
         /\ y # 0 => \/ Math!NarrowDiv(x, y, signed, MathBits, o) = Math!Ok(Math!Narrow(Math!Quotient(x, y), signed))
                     \/ /\ Math!Quotient(x, y) \notin Math!Values(signed)
                        /\ Math!NarrowDiv(x, y, signed, MathBits, o) = Math!Fault
<1>1. x \in Int /\ y \in Int /\ x + y \in Int /\ x - y \in Int /\ x * y \in Int
  BY ValuesAre
<1>2. y # 0 => Math!Quotient(x, y) \in Int
  BY <1>1, QuotientIs
<1>3. Math!NarrowAdd(x, y, signed, MathBits) = Math!Ok(Math!Narrow(x + y, signed))
  BY <1>1, SingleIs DEF Math!NarrowAdd
<1>4. Math!NarrowSub(x, y, signed, MathBits) = Math!Ok(Math!Narrow(x - y, signed))
  BY <1>1, SingleIs DEF Math!NarrowSub
<1>5. Math!NarrowMul(x, y, signed, MathBits) = Math!Ok(Math!Narrow(x * y, signed))
  BY <1>1, SingleIs DEF Math!NarrowMul
<1>6. ASSUME y # 0
      PROVE  \/ Math!NarrowDiv(x, y, signed, MathBits, o) = Math!Ok(Math!Narrow(Math!Quotient(x, y), signed))
             \/ /\ Math!Quotient(x, y) \notin Math!Values(signed)
                /\ Math!NarrowDiv(x, y, signed, MathBits, o) = Math!Fault
  <2> DEFINE q == Math!Quotient(x, y)
  <2>1. Math!NarrowDiv(x, y, signed, MathBits, o)
          = IF Math!Wrapped(q, MathBits, signed) # q /\ ~o THEN Math!Fault ELSE Math!Compared(q, signed, MathBits)
    BY <1>6 DEF Math!NarrowDiv
  <2>2. q \in Int
    BY <1>2, <1>6
  <2> HIDE DEF q
  <2>3. /\ Math!Compared(q, signed, MathBits) = Math!Ok(Math!Narrow(q, signed))
        /\ q \in Math!Values(signed) => Math!Wrapped(q, MathBits, signed) = q
    BY <2>2, SingleIs, NarrowIs
  <2>. QED BY <2>1, <2>3 DEF q
<1>. QED BY <1>3, <1>4, <1>5, <1>6

\* The sums and differences of the widest types
LEMMA LongSums ==
  ASSUME NEW signed \in BOOLEAN, NEW x \in Math!Values(signed), NEW y \in Math!Values(signed)
  PROVE  /\ Math!LongAdd(x, y, signed) = Result(x + y, signed)
         /\ Math!LongSub(x, y, signed) = Result(x - y, signed)
<1>1. /\ x \in Int /\ y \in Int /\ x + y \in Int /\ x - y \in Int
      /\ x \in Least(signed) .. Most(signed) /\ y \in Least(signed) .. Most(signed)
      /\ Math!Values(signed) = Least(signed) .. Most(signed)
      /\ Math!Lowest(signed) = Least(signed) /\ Math!Highest(signed) = Most(signed)
  BY ValuesAre
<1>2. HalfWord \in Nat /\ HalfWord >= 2
  BY WordsAre
<1>3. Math!LongSub(x, y, signed) = Result(x - y, signed)
  BY <1>1, <1>2 DEF Math!LongSub, Result, Least, Most
<1>4. CASE signed
  <2>1. Math!LongAdd(x, y, signed) = Result(x + y, signed)
    BY <1>1, <1>2, <1>4 DEF Math!LongAdd, Result, Least, Most
  <2>. QED BY <1>3, <2>1
<1>5. CASE ~signed
  <2> DEFINE s == x + y  res == Math!Narrow(s, signed)
  <2>1. s \in Math!Values(signed) => res = s
    BY <1>1, NarrowIs
  <2>2. ASSUME s \notin Math!Values(signed) PROVE res < x /\ res \in Int
    <3>1. s \in 2 * HalfWord .. 4 * HalfWord - 1
      BY <1>1, <1>2, <1>5, <2>2 DEF Least, Most
    <3>2. Math!Narrow(s, signed) = s % (2 * HalfWord)
      BY <1>5, SamePower, WordsAre DEF Math!Narrow, Math!Wrapped
    <3>3. s % (2 * HalfWord) = s - 2 * HalfWord
      <4> HIDE DEF s
      <4>. QED BY <1>2, <3>1
    <3>4. res = s - 2 * HalfWord
      BY <3>2, <3>3
    <3> HIDE DEF res
    <3>. QED BY <1>1, <1>2, <1>5, <3>4 DEF Least, Most
  <2>3. Math!LongAdd(x, y, signed)
          = IF res < x \/ res < y THEN Math!Refused("would_overflow") ELSE Math!Ok(res)
    BY <1>5 DEF Math!LongAdd
  <2> HIDE DEF res
  <2>4. x <= s /\ y <= s
    BY <1>1, <1>2, <1>5 DEF Least, Most
  <2>5. CASE s \in Math!Values(signed)
    BY <1>1, <1>3, <2>1, <2>3, <2>4, <2>5 DEF Result
  <2>6. CASE s \notin Math!Values(signed)
    BY <1>1, <1>3, <2>2, <2>3, <2>6 DEF Result
  <2>. QED BY <2>5, <2>6
<1>. QED BY <1>4, <1>5

\* The products of the widest types; of the signed ones only those that the type has
LEMMA LongProducts ==
  ASSUME NEW signed \in BOOLEAN, NEW x \in Math!Values(signed), NEW y \in Math!Values(signed),
         NEW o \in BOOLEAN
  PROVE  \/ Math!LongMul(x, y, signed, o) = Result(x * y, signed)
         \/ signed /\ x * y \notin Math!Values(signed)
<1>1. /\ x \in Int /\ y \in Int /\ x * y \in Int
      /\ x \in Least(signed) .. Most(signed) /\ y \in Least(signed) .. Most(signed)
      /\ Math!Values(signed) = Least(signed) .. Most(signed)
      /\ Math!Lowest(signed) = Least(signed) /\ Math!Highest(signed) = Most(signed)
  BY ValuesAre
<1>2. HalfWord \in Nat /\ HalfWord >= 2
  BY WordsAre
<1>3. CASE x = 0 \/ y = 0
  <2>1. x * y = 0
    BY <1>1, <1>3
  <2>2. 0 \in Math!Values(signed)
    BY <1>1, <1>2 DEF Least, Most
  <2>. QED BY <1>3, <2>1, <2>2 DEF Math!LongMul, Result
<1>4. CASE x # 0 /\ y # 0 /\ ~signed
  <2>1. x \in Nat /\ y \in Nat \ {0} /\ Most(signed) \in Nat
    BY <1>1, <1>2, <1>4 DEF Least, Most
  <2> DEFINE m == Most(signed)  q == Math!Quotient(m, y)
  <2>2. q = m \div y
    BY <2>1, QuotientIs
  <2>3. x > q <=> x * y > m
    BY <2>1, <2>2, QuotientBounds
  <2>4. Math!LongMul(x, y, signed, o)
          = IF x > q THEN Math!Refused("would_overflow") ELSE Math!Ok(x * y)
    BY <1>1, <1>4 DEF Math!LongMul
  <2>5. x * y > m <=> x * y \notin Math!Values(signed)
    <3>1. x * y \in Nat
      BY <2>1
    <3>2. Math!Values(signed) = 0 .. m
      BY <1>1, <1>4 DEF Least
    <3> DEFINE p == x * y
    <3> HIDE DEF p, m
    <3>3. p \in Nat => (p > m <=> p \notin 0 .. m)
      BY <2>1 DEF m
    <3>. QED BY <3>1, <3>2, <3>3 DEF p
  <2> HIDE DEF q, m
  <2>. QED BY <2>3, <2>4, <2>5 DEF Result
<1>5. CASE x # 0 /\ y # 0 /\ signed /\ x * y \in Math!Values(signed)
  <2> DEFINE p == x * y
  <2>1. {x, y} # {-1, Math!Lowest(signed)}
    <3> SUFFICES ASSUME {x, y} = {-1, -HalfWord} PROVE FALSE
      BY <1>1, <1>5 DEF Least
    <3>2. x * y = HalfWord
      <4>1. (x = -1 /\ y = -HalfWord) \/ (x = -HalfWord /\ y = -1)
        BY <1>2
      <4>2. (-1) * (-HalfWord) = HalfWord /\ (-HalfWord) * (-1) = HalfWord
        BY <1>2
      <4>. QED BY <4>1, <4>2
    <3>. QED BY <1>1, <1>2, <1>5, <3>2 DEF Most, Least
  <2>2. Math!Narrow(p, signed) = p
    BY <1>1, <1>5, NarrowIs
  <2>3. Math!Quotient(p, y) = x
    BY <1>1, <1>5, ProductDivided
  <2>4. Math!LongMul(x, y, signed, o) = Math!Ok(p)
    BY <1>5, <2>1, <2>2, <2>3 DEF Math!LongMul
  <2>. QED BY <1>5, <2>4 DEF Result
<1>. QED BY <1>3, <1>4, <1>5

\* Division in the widest word gives the quotient, or refuses the one that the type has not.
LEMMA LongQuotients ==
  ASSUME NEW signed \in BOOLEAN, NEW x \in Math!Values(signed), NEW y \in Math!Values(signed), y # 0
  PROVE  Math!LongDiv(x, y, signed) = Result(Math!Quotient(x, y), signed)
<1>1. /\ x \in Int /\ y \in Int
      /\ x \in Least(signed) .. Most(signed) /\ y \in Least(signed) .. Most(signed)
      /\ Math!Values(signed) = Least(signed) .. Most(signed)
      /\ Math!Lowest(signed) = Least(signed) /\ Math!Highest(signed) = Most(signed)
  BY ValuesAre
<1>2. HalfWord \in Nat /\ HalfWord >= 2
  BY WordsAre
<1> DEFINE q == Math!Quotient(x, y)  d == Magnitude(x) \div Magnitude(y)
<1>3. /\ q \in Int /\ q \in -Magnitude(x) .. Magnitude(x) /\ (x >= 0 /\ y >= 0 => q \in 0 .. x)
      /\ q = (IF (x < 0) = (y < 0) THEN d ELSE -d)
      /\ Magnitude(x) \in Nat /\ Magnitude(y) \in Nat \ {0}
  BY <1>1, QuotientIs
<1>4. d \in Nat /\ d * Magnitude(y) <= Magnitude(x)
  BY <1>3, QuotientOfNaturals
<1>5. CASE signed /\ x = Least(signed) /\ y = -1
  <2>0. x = -HalfWord /\ y = -1
    BY <1>5 DEF Least
  <2>1. x < 0 /\ y < 0 /\ Magnitude(x) = HalfWord /\ Magnitude(y) = 1
    <3>1. -HalfWord < 0 /\ -(-HalfWord) = HalfWord
      BY ONLY <1>2
    <3>2. y + 1 = 0
      BY ONLY <2>0
    <3>3. y < 0 /\ -y = 1
      BY <1>1, <3>2
    <3>. QED BY ONLY <2>0, <3>1, <3>3 DEF Magnitude
  <2>2. HalfWord \div 1 = HalfWord
    BY <1>2
  <2>3. q = HalfWord
    BY <1>3, <2>1, <2>2
  <2> HIDE DEF q
  <2>4. q \notin Math!Values(signed)
    BY <1>1, <1>2, <1>5, <2>3 DEF Least, Most
  <2>5. Math!LongDiv(x, y, signed) = Math!Refused("would_overflow")
    BY <1>1, <1>5 DEF Math!LongDiv
  <2>. QED BY <2>4, <2>5 DEF Result, q
<1>6. CASE ~(signed /\ x = Least(signed) /\ y = -1)
  <2>1. Math!LongDiv(x, y, signed) = Math!Ok(q)
    BY <1>1, <1>6 DEF Math!LongDiv
  <2> HIDE DEF q
  <2>2. q \in Math!Values(signed)
    <3>1. CASE ~signed
      BY <1>1, <1>2, <1>3, <3>1 DEF Least, Most
    <3>2. CASE signed /\ x # -HalfWord
      BY <1>1, <1>2, <1>3, <3>2 DEF Least, Most, Magnitude
    <3>3. CASE signed /\ x = -HalfWord
      <4>1. y # -1 /\ Magnitude(x) = HalfWord /\ q \in -HalfWord .. HalfWord
        BY <1>2, <1>3, <1>6, <3>3 DEF Least, Magnitude
      <4>2. ASSUME q = HalfWord PROVE FALSE
        <5>2. d = HalfWord /\ y < 0
          <6> HIDE DEF d
          <6>. QED BY <1>1, <1>2, <1>3, <1>4, <3>3, <4>2
        <5>3. Magnitude(y) >= 2
          BY <1>1, <4>1, <5>2 DEF Magnitude
        <5> HIDE DEF d
        <5>4. d * Magnitude(y) >= HalfWord * 2
          <6>1. 2 \in Nat /\ Magnitude(y) \in Nat /\ HalfWord <= d /\ d \in Nat /\ HalfWord \in Nat
            BY <1>2, <1>3, <5>2
          <6>. QED BY <5>3, <6>1, Monotone
        <5>. QED BY <1>2, <1>3, <1>4, <4>1, <5>4
      <4>. QED BY <1>1, <1>2, <1>3, <3>3, <4>1, <4>2 DEF Least, Most
    <3>. QED BY <3>1, <3>2, <3>3
  <2>. QED BY <2>1, <2>2 DEF Result, q
<1>. QED BY <1>5, <1>6

-----------------------------------------------------------------------------
(* Powers in a type *)

LEMMA SmallPowers ==
  ASSUME NEW x \in {0, 1, -1}, NEW n \in Nat
  PROVE  Power(x, n) \in {0, 1, -1} /\ (x # -1 => Power(x, n) \in {0, 1})
<1> DEFINE S == {k \in 0 .. n : Power(x, k) \in {0, 1, -1} /\ (x # -1 => Power(x, k) \in {0, 1})}
<1>0. x \in Int
  OBVIOUS
<1>1. 0 \in S
  BY <1>0, PowerRound
<1>2. ASSUME NEW k \in 0 .. n - 1, k \in S PROVE k + 1 \in S
  <2>1. k + 1 \in 0 .. n /\ k \in Nat
    BY <1>2
  <2>2. Power(x, k + 1) = Power(x, k) * x
    BY <1>0, <2>1, PowerRound
  <2>3. Power(x, k) \in {0, 1, -1} /\ (x # -1 => Power(x, k) \in {0, 1})
    BY <1>2
  <2> DEFINE p == Power(x, k)
  <2> HIDE DEF p
  <2>4. p \in {0, 1, -1} /\ (x # -1 => p \in {0, 1}) => p * x \in {0, 1, -1} /\ (x # -1 => p * x \in {0, 1})
    OBVIOUS
  <2>. QED BY <2>1, <2>2, <2>3, <2>4 DEF p
<1> HIDE DEF S
<1>3. 0 .. n \subseteq S
  BY <1>1, <1>2, InductionUpTo
<1>. QED BY <1>3 DEF S

LEMMA NaturalPowers ==
  ASSUME NEW x \in Nat, NEW n \in Nat
  PROVE  Power(x, n) \in Nat
<1>1. CASE x = 0
  BY <1>1, SmallPowers
<1>2. CASE x # 0
  BY <1>2, PowerPositive
<1>. QED BY <1>1, <1>2

\* What a type does not have it does not have after a product with more than one.
LEMMA Escapes ==
  ASSUME NEW signed \in BOOLEAN, NEW x \in Math!Values(signed), x \notin {0, 1, -1},
         NEW v \in Int, v \notin Math!Values(signed), signed \/ v >= 0
  PROVE  v * x \notin Math!Values(signed)
<1>1. /\ x \in Int /\ x \in Least(signed) .. Most(signed)
      /\ Math!Values(signed) = Least(signed) .. Most(signed)
  BY ValuesAre
<1>2. HalfWord \in Nat /\ HalfWord >= 2
  BY WordsAre
<1>3. Magnitude(x) \in Nat /\ Magnitude(x) >= 2 /\ Magnitude(v) \in Nat
  BY <1>1 DEF Magnitude
<1>4. Magnitude(v) >= HalfWord /\ (~signed => Magnitude(v) >= 2 * HalfWord)
  BY <1>1, <1>2 DEF Least, Most, Magnitude
<1>5. Magnitude(v * x) = Magnitude(v) * Magnitude(x) /\ v * x \in Int
  BY <1>1 DEF Magnitude
<1>6. Magnitude(v) * Magnitude(x) >= HalfWord * 2 /\ (~signed => Magnitude(v) * Magnitude(x) >= (2 * HalfWord) * 2)
  <2>1. 2 \in Nat /\ HalfWord \in Nat /\ 2 * HalfWord \in Nat
    BY <1>2
  <2>. QED BY <1>3, <1>4, <2>1, Monotone
<1> DEFINE p == v * x
<1>7. p \in Int /\ Magnitude(p) >= 2 * HalfWord /\ (~signed => Magnitude(p) >= 4 * HalfWord)
  BY <1>2, <1>5, <1>6
<1> HIDE DEF p
<1>8. p \notin Math!Values(signed)
  BY <1>1, <1>2, <1>7 DEF Least, Most, Magnitude
<1>. QED BY <1>8 DEF p

\* Nor does it have the higher powers.
LEMMA PowersEscape ==
  ASSUME NEW signed \in BOOLEAN, NEW x \in Math!Values(signed), NEW k \in Nat,
         Power(x, k) \notin Math!Values(signed)
  PROVE  Power(x, k) * x \notin Math!Values(signed)
<1>1. /\ x \in Int /\ x \in Least(signed) .. Most(signed)
      /\ Math!Values(signed) = Least(signed) .. Most(signed)
  BY ValuesAre
<1>2. HalfWord \in Nat /\ HalfWord >= 2
  BY WordsAre
<1>3. Power(x, k) \in Int /\ (~signed => Power(x, k) >= 0)
  <2>1. ~signed => x \in Nat
    BY <1>1, <1>2 DEF Least
  <2>. QED BY <1>1, <2>1, PowerRound, NaturalPowers
<1>4. x \notin {0, 1, -1}
  <2> SUFFICES ASSUME x \in {0, 1, -1} PROVE FALSE
    OBVIOUS
  <2>2. Power(x, k) \in {0, 1, -1} /\ (x # -1 => Power(x, k) \in {0, 1})
    BY SmallPowers
  <2> DEFINE p == Power(x, k)
  <2> HIDE DEF p
  <2>3. p \in {0, 1, -1} /\ (x # -1 => p \in {0, 1}) => p \in Math!Values(signed)
    BY <1>1, <1>2 DEF Least, Most
  <2>. QED BY <2>2, <2>3 DEF p
<1>. QED BY <1>3, <1>4, Escapes

\* One more round of a power loop
LEMMA NextPower ==
  ASSUME NEW signed \in BOOLEAN, NEW x \in Math!Values(signed), NEW k \in Nat
  PROVE  /\ 1 \in Math!Values(signed) /\ Power(x, 0) = 1
         /\ Power(x, k + 1) = Power(x, k) * x /\ Power(x, k) \in Int
         /\ Power(x, k) \notin Math!Values(signed) => Power(x, k + 1) \notin Math!Values(signed)
<1>1. /\ x \in Int /\ Math!Values(signed) = Least(signed) .. Most(signed)
      /\ HalfWord \in Nat /\ HalfWord >= 2
  BY ValuesAre, WordsAre
<1>2. 1 \in Math!Values(signed)
  BY <1>1 DEF Least, Most
<1>3. x \in Int
  BY <1>1, ValuesAre
<1>4. Power(x, 0) = 1 /\ Power(x, k + 1) = Power(x, k) * x /\ Power(x, k) \in Int
  BY <1>3, PowerRound
<1>5. Power(x, k) \notin Math!Values(signed) => Power(x, k) * x \notin Math!Values(signed)
  BY PowersEscape
<1>. QED BY <1>2, <1>4, <1>5

\* The rounds of a power loop of the macros
IsRounds(p, x, n, signed, bits) ==
  p = [i \in 0 .. n |-> IF i = 0 THEN Math!Ok(1)
                        ELSE IF p[i - 1].err # "ok" THEN p[i - 1]
                        ELSE Math!Compared(p[i - 1].value * x, signed, bits)]

\* Whatever has these rounds is what the loop computes.
LEMMA PowersLoop ==
  ASSUME NEW signed \in BOOLEAN, NEW x \in Int, NEW n \in Nat, NEW bits \in Nat, NEW all,
         IsRounds(all, x, n, signed, bits)
  PROVE  Math!NarrowPowers(x, n, signed, bits) = all[n]
<1> DEFINE loop == CHOOSE p : IsRounds(p, x, n, signed, bits)
<1>1. Math!NarrowPowers(x, n, signed, bits) = loop[n]
  BY DEF Math!NarrowPowers, IsRounds
<1>2. IsRounds(loop, x, n, signed, bits)
  OBVIOUS
<1> HIDE DEF loop
<1>3. ASSUME NEW p, IsRounds(p, x, n, signed, bits), NEW i \in 0 .. n
      PROVE  p[i] = IF i = 0 THEN Math!Ok(1)
                    ELSE IF p[i - 1].err # "ok" THEN p[i - 1]
                    ELSE Math!Compared(p[i - 1].value * x, signed, bits)
  BY <1>3 DEF IsRounds
<1> DEFINE S == {k \in 0 .. n : loop[k] = all[k]}
<1>4. 0 \in S
  <2>1. loop[0] = Math!Ok(1) /\ all[0] = Math!Ok(1)
    BY <1>2, <1>3
  <2>. QED BY <2>1
<1>5. ASSUME NEW k \in 0 .. n - 1, k \in S PROVE k + 1 \in S
  <2>1. k + 1 \in 0 .. n /\ (k + 1) - 1 = k /\ k + 1 # 0
    OBVIOUS
  <2>2. loop[k + 1] = IF loop[k].err # "ok" THEN loop[k] ELSE Math!Compared(loop[k].value * x, signed, bits)
    BY <1>2, <1>3, <2>1
  <2>3. all[k + 1] = IF all[k].err # "ok" THEN all[k] ELSE Math!Compared(all[k].value * x, signed, bits)
    BY <1>3, <2>1
  <2>. QED BY <1>5, <2>1, <2>2, <2>3
<1> HIDE DEF S
<1>6. 0 .. n \subseteq S
  BY <1>4, <1>5, InductionUpTo
<1>. QED BY <1>1, <1>6 DEF S

\* Powers computed in a double word are exact, or refused.
LEMMA NarrowPowersAre ==
  ASSUME NEW signed \in BOOLEAN, NEW x \in Math!Values(signed), NEW n \in Nat
  PROVE  Math!NarrowPowers(x, n, signed, 2 * MathBits) = Result(Power(x, n), signed)
<1> DEFINE all == [i \in 0 .. n |-> Result(Power(x, i), signed)]
<1>2. ASSUME NEW k \in 0 .. n, k > 0
      PROVE  /\ k - 1 \in 0 .. n
             /\ Result(Power(x, k), signed)
                  = IF Result(Power(x, k - 1), signed).err # "ok" THEN Result(Power(x, k - 1), signed)
                    ELSE Math!Compared(Result(Power(x, k - 1), signed).value * x, signed, 2 * MathBits)
  <2>1. k - 1 \in Nat /\ k - 1 \in 0 .. n /\ (k - 1) + 1 = k
    BY <1>2
  <2> DEFINE j == k - 1
  <2> HIDE DEF j
  <2>2. /\ Power(x, j + 1) = Power(x, j) * x /\ Power(x, j) \in Int
        /\ Power(x, j) \notin Math!Values(signed) => Power(x, j + 1) \notin Math!Values(signed)
    BY <2>1, NextPower DEF j
  <2>3. CASE Power(x, j) \in Math!Values(signed)
    <3>1. Result(Power(x, j), signed).err = "ok" /\ Result(Power(x, j), signed).value = Power(x, j)
      BY <2>3 DEF Result, Math!Ok
    <3>2. Math!Compared(Power(x, j) * x, signed, 2 * MathBits) = Result(Power(x, j) * x, signed)
      BY <2>3, NarrowOnes DEF Math!NarrowMul
    <3>. QED BY <2>1, <2>2, <3>1, <3>2 DEF j
  <2>4. CASE Power(x, j) \notin Math!Values(signed)
    <3>1. /\ Result(Power(x, j), signed).err # "ok"
          /\ Result(Power(x, j + 1), signed) = Result(Power(x, j), signed)
      BY <2>2, <2>4 DEF Result, Math!Refused
    <3>. QED BY <2>1, <3>1 DEF j
  <2>. QED BY <2>3, <2>4
<1>3. Result(Power(x, 0), signed) = Math!Ok(1)
  <2>1. 0 \in Nat
    OBVIOUS
  <2>. QED BY <2>1, NextPower DEF Result
<1>4. all = [i \in 0 .. n |-> IF i = 0 THEN Math!Ok(1)
                             ELSE IF all[i - 1].err # "ok" THEN all[i - 1]
                             ELSE Math!Compared(all[i - 1].value * x, signed, 2 * MathBits)]
  <2>1. \A i \in 0 .. n : all[i] = IF i = 0 THEN Math!Ok(1)
                                   ELSE IF all[i - 1].err # "ok" THEN all[i - 1]
                                   ELSE Math!Compared(all[i - 1].value * x, signed, 2 * MathBits)
    <3> SUFFICES ASSUME NEW i \in 0 .. n
                 PROVE  all[i] = IF i = 0 THEN Math!Ok(1)
                                   ELSE IF all[i - 1].err # "ok" THEN all[i - 1]
                                   ELSE Math!Compared(all[i - 1].value * x, signed, 2 * MathBits)
      OBVIOUS
    <3>1. CASE i = 0
      BY <1>3, <3>1
    <3>2. CASE i # 0
      <4>1. i > 0
        BY <3>2
      <4>2. all[i] = Result(Power(x, i), signed)
        OBVIOUS
      <4>3. i - 1 \in 0 .. n
        BY <4>1, <1>2
      <4>4. all[i - 1] = Result(Power(x, i - 1), signed)
        BY <4>3
      <4> HIDE DEF all
      <4>. QED BY <1>2, <3>2, <4>1, <4>2, <4>4
    <3>. QED BY <3>1, <3>2
  <2>2. all = [i \in 0 .. n |-> all[i]]
    OBVIOUS
  <2> HIDE DEF all
  <2>3. [i \in 0 .. n |-> all[i]] = [i \in 0 .. n |-> IF i = 0 THEN Math!Ok(1)
                                            ELSE IF all[i - 1].err # "ok" THEN all[i - 1]
                                            ELSE Math!Compared(all[i - 1].value * x, signed, 2 * MathBits)]
    BY <2>1
  <2>. QED BY <2>2, <2>3
<1> HIDE DEF all
<1>5. Math!NarrowPowers(x, n, signed, 2 * MathBits) = all[n]
  <2>1. x \in Int /\ 2 * MathBits \in Nat
    BY ValuesAre, NumberAssumption DEF Math!ArithmeticAssumption
  <2>2. IsRounds(all, x, n, signed, 2 * MathBits)
    BY <1>4 DEF IsRounds
  <2>. QED BY <2>1, <2>2, PowersLoop
<1>6. all[n] = Result(Power(x, n), signed)
  BY DEF all
<1>. QED BY <1>5, <1>6

\* What is the same number in a word is cut to the same value.
LEMMA SameNarrows ==
  ASSUME NEW signed \in BOOLEAN, NEW x \in Int, NEW y \in Int, SameIn(HalfWord, x, y)
  PROVE  Math!Narrow(x, signed) = Math!Narrow(y, signed)
<1> DEFINE u == Math!Narrow(x, signed)  v == Math!Narrow(y, signed)
<1>1. HalfWord \in Nat /\ HalfWord >= 2
  BY WordsAre
<1>2. /\ u \in Math!Values(signed) /\ v \in Math!Values(signed)
      /\ SameIn(HalfWord, x, u) /\ SameIn(HalfWord, y, v) /\ u \in Int /\ v \in Int
  BY NarrowIs
<1> HIDE DEF u, v
<1>3. PICK q \in Int : x = y + q * (2 * HalfWord)
  BY DEF SameIn
<1>4. PICK r \in Int : x = u + r * (2 * HalfWord)
  BY <1>2 DEF SameIn
<1>5. PICK t \in Int : y = v + t * (2 * HalfWord)
  BY <1>2 DEF SameIn
<1> DEFINE d == (t + q) - r  w == 2 * HalfWord
<1>6. d \in Int /\ w \in Nat /\ u - v = d * w
  <2>1. u - v = (t * w + q * w) - r * w
    BY <1>1, <1>2, <1>3, <1>4, <1>5
  <2>2. (t * w + q * w) - r * w = ((t + q) - r) * w
    BY <1>1
  <2>. QED BY <1>1, <2>1, <2>2
<1>7. u - v < w /\ v - u < w
  BY <1>1, <1>2, ValuesAre DEF Least, Most
<1> HIDE DEF d
<1>8. w > 0
  BY <1>1
<1> HIDE DEF w
<1>9. d >= 1 => d * w >= w
  BY <1>6, <1>8
<1>10. d <= -1 => d * w <= -w
  BY <1>6, <1>8
<1>11. d = 0
  BY <1>2, <1>6, <1>7, <1>8, <1>9, <1>10
<1>12. u = v
  BY <1>2, <1>6, <1>8, <1>11
<1>. QED BY <1>12 DEF u, v

\* Powers computed in the type's own word are cut to it round by round, and so at the end.
LEMMA SinglePowersAre ==
  ASSUME NEW signed \in BOOLEAN, NEW x \in Math!Values(signed), NEW n \in Nat
  PROVE  Math!NarrowPowers(x, n, signed, MathBits) = Math!Ok(Math!Narrow(Power(x, n), signed))
<1> DEFINE R(i) == Math!Ok(Math!Narrow(Power(x, i), signed))
           all == [i \in 0 .. n |-> R(i)]
<1>1. x \in Int /\ MathBits \in Nat
  BY ValuesAre, NumberAssumption DEF Math!ArithmeticAssumption
<1>2. R(0) = Math!Ok(1)
  <2>1. 0 \in Nat
    OBVIOUS
  <2>2. Power(x, 0) = 1 /\ 1 \in Math!Values(signed)
    BY <2>1, NextPower
  <2>. QED BY <2>2, NarrowIs
<1>3. ASSUME NEW k \in 0 .. n - 1
      PROVE  R(k).err = "ok" /\ R(k + 1) = Math!Compared(R(k).value * x, signed, MathBits)
  <2> DEFINE p == Power(x, k)  c == Math!Narrow(p, signed)
  <2>1. k \in Nat
    OBVIOUS
  <2>2. Power(x, k + 1) = p * x /\ p \in Int
    BY <2>1, NextPower
  <2>3. R(k).err = "ok" /\ R(k).value = c
    BY DEF Math!Ok
  <2> HIDE DEF p
  <2>4. c \in Int /\ SameIn(HalfWord, p, c)
    BY <2>2, NarrowIs
  <2> HIDE DEF c
  <2>5. p * x \in Int /\ c * x \in Int
    BY <1>1, <2>2, <2>4
  <2>6. SameIn(HalfWord, p * x, c * x)
    <3>1. PICK q \in Int : p = c + q * (2 * HalfWord)
      BY <2>4 DEF SameIn
    <3>2. HalfWord \in Nat
      BY WordsAre
    <3>3. (c + q * (2 * HalfWord)) * x = c * x + (q * x) * (2 * HalfWord) /\ q * x \in Int
      BY <1>1, <2>4, <3>2
    <3>. QED BY <3>1, <3>3 DEF SameIn
  <2>7. Math!Narrow(p * x, signed) = Math!Narrow(c * x, signed)
    BY <2>5, <2>6, SameNarrows
  <2>8. Math!Compared(c * x, signed, MathBits) = Math!Ok(Math!Narrow(c * x, signed))
    BY <2>5, SingleIs
  <2>. QED BY <2>2, <2>3, <2>7, <2>8
<1> HIDE DEF R
<1>4. IsRounds(all, x, n, signed, MathBits)
  <2>1. ASSUME NEW i \in 0 .. n
        PROVE  all[i] = IF i = 0 THEN Math!Ok(1)
                        ELSE IF all[i - 1].err # "ok" THEN all[i - 1]
                        ELSE Math!Compared(all[i - 1].value * x, signed, MathBits)
    <3>1. CASE i = 0
      BY <1>2, <3>1
    <3>2. CASE i # 0
      <4>1. i - 1 \in 0 .. n - 1 /\ i - 1 \in 0 .. n /\ (i - 1) + 1 = i
        BY <3>2
      <4>2. R(i - 1).err = "ok" /\ R((i - 1) + 1) = Math!Compared(R(i - 1).value * x, signed, MathBits)
        BY <1>3, <4>1
      <4>3. all[i] = R(i) /\ all[i - 1] = R(i - 1)
        BY <4>1
      <4> HIDE DEF all
      <4>. QED BY <3>2, <4>1, <4>2, <4>3
    <3>. QED BY <3>1, <3>2
  <2>2. all = [i \in 0 .. n |-> all[i]]
    OBVIOUS
  <2> HIDE DEF all
  <2>3. [i \in 0 .. n |-> all[i]] = [i \in 0 .. n |-> IF i = 0 THEN Math!Ok(1)
                                           ELSE IF all[i - 1].err # "ok" THEN all[i - 1]
                                           ELSE Math!Compared(all[i - 1].value * x, signed, MathBits)]
    BY <2>1
  <2>. QED BY <2>2, <2>3 DEF IsRounds
<1>5. Math!NarrowPowers(x, n, signed, MathBits) = all[n]
  <2> HIDE DEF all
  <2>. QED BY <1>1, <1>4, PowersLoop
<1>. QED BY <1>5 DEF R

\* What the loop of the widest types has after n rounds: a negative base is refused in the
\* first one.
LongResult(x, n, signed) ==
  IF n > 0 /\ x < 0 THEN Math!Refused("would_overflow") ELSE Result(Power(x, n), signed)

\* The check before a round
Over(x, signed, r) ==
  x # 0 /\ \/ r > Math!Quotient(Math!Highest(signed), x)
           \/ signed /\ r < Math!Quotient(Math!Lowest(signed), x)

\* The check before each multiplication refuses the products that the type does not have.
LEMMA OverIs ==
  ASSUME NEW signed \in BOOLEAN, NEW x \in Math!Values(signed)
  PROVE  /\ x < 0 => Over(x, signed, 1)
         /\ \A r \in Math!Values(signed) : x >= 0 /\ r >= 0 => (Over(x, signed, r) <=> r * x \notin Math!Values(signed))
<1>1. /\ x \in Int /\ x \in Least(signed) .. Most(signed)
      /\ Math!Values(signed) = Least(signed) .. Most(signed)
      /\ Math!Lowest(signed) = Least(signed) /\ Math!Highest(signed) = Most(signed)
      /\ HalfWord \in Nat /\ HalfWord >= 2 /\ Most(signed) \in Nat /\ Least(signed) \in Int
      /\ Least(signed) <= 0
  BY ValuesAre, WordsAre DEF Least, Most
<1>2. ASSUME x < 0 PROVE Over(x, signed, 1)
  <2> DEFINE m == Most(signed)
  <2>1. Math!Quotient(m, x) = -(Magnitude(m) \div Magnitude(x)) /\ Magnitude(m) \in Nat /\ Magnitude(x) \in Nat \ {0}
    BY <1>1, <1>2, QuotientIs
  <2>2. Magnitude(m) \div Magnitude(x) \in Nat
    BY <2>1, QuotientOfNaturals
  <2>3. 1 > Math!Quotient(m, x)
    BY <2>1, <2>2
  <2>. QED BY <1>1, <1>2, <2>3 DEF Over
<1>3. ASSUME NEW r \in Math!Values(signed), x >= 0, r >= 0
      PROVE  Over(x, signed, r) <=> r * x \notin Math!Values(signed)
  <2>1. CASE x = 0
    <3>1. r * x = 0 /\ 0 \in Math!Values(signed)
      BY <1>1, <2>1
    <3>. QED BY <2>1, <3>1 DEF Over
  <2>2. CASE x # 0
    <3> DEFINE m == Most(signed)  l == Least(signed)
    <3>1. x \in Nat \ {0} /\ r \in Nat /\ r \in Int
      BY <1>1, <1>3, <2>2
    <3>2. r > Math!Quotient(m, x) <=> r * x > m
      <4>1. Math!Quotient(m, x) = m \div x
        BY <1>1, <3>1, QuotientIs
      <4>2. r > m \div x <=> r * x > m
        BY <1>1, <3>1, QuotientBounds
      <4>. QED BY <4>1, <4>2
    <3>3. ASSUME signed PROVE ~(r < Math!Quotient(l, x))
      <4>2. l < 0 /\ l \in Int
        BY <1>1, <3>3 DEF Least
      <4>3. Math!Quotient(l, x) = -(Magnitude(l) \div Magnitude(x)) /\ Magnitude(l) \in Nat /\ Magnitude(x) \in Nat \ {0}
        BY <1>1, <3>1, <4>2, QuotientIs
      <4>4. Magnitude(l) \div Magnitude(x) \in Nat
        BY <4>3, QuotientOfNaturals
      <4>. QED BY <3>1, <4>3, <4>4
    <3>4. r * x > m <=> r * x \notin Math!Values(signed)
      <4> DEFINE p == r * x
      <4>1. p \in Nat
        BY <3>1
      <4> HIDE DEF p
      <4>2. p > Most(signed) <=> p \notin Math!Values(signed)
        BY <1>1, <4>1
      <4>. QED BY <4>2 DEF p
    <3>. QED BY <1>1, <2>2, <3>2, <3>3, <3>4 DEF Over
  <2>. QED BY <2>1, <2>2
<1>. QED BY <1>2, <1>3

\* One round of that loop
LEMMA LongRound ==
  ASSUME NEW signed \in BOOLEAN, NEW x \in Math!Values(signed), NEW j \in Nat
  PROVE  /\ LongResult(x, 0, signed) = Math!Ok(1)
         /\ LongResult(x, j + 1, signed)
              = IF LongResult(x, j, signed).err # "ok" THEN LongResult(x, j, signed)
                ELSE IF Over(x, signed, LongResult(x, j, signed).value) THEN Math!Refused("would_overflow")
                ELSE Math!Ok(LongResult(x, j, signed).value * x)
<1>1. /\ 1 \in Math!Values(signed) /\ Power(x, 0) = 1
      /\ Power(x, j + 1) = Power(x, j) * x /\ Power(x, j) \in Int
      /\ Power(x, j) \notin Math!Values(signed) => Power(x, j + 1) \notin Math!Values(signed)
  BY NextPower
<1>2. LongResult(x, 0, signed) = Math!Ok(1)
  BY <1>1 DEF LongResult, Result
<1>3. x \in Int /\ j + 1 > 0
  BY ValuesAre
<1>4. CASE x < 0 /\ j > 0
  BY <1>2, <1>3, <1>4 DEF LongResult, Math!Refused
<1>5. CASE x < 0 /\ j = 0
  <2>1. LongResult(x, j, signed).err = "ok" /\ LongResult(x, j, signed).value = 1
    BY <1>2, <1>5 DEF Math!Ok
  <2>2. Over(x, signed, 1)
    BY <1>5, OverIs
  <2>. QED BY <1>2, <1>3, <1>5, <2>1, <2>2 DEF LongResult
<1>6. CASE ~(x < 0)
  <2>1. x \in Nat /\ x >= 0
    BY <1>3, <1>6
  <2>2. Power(x, j) \in Nat
    BY <2>1, NaturalPowers
  <2>3. LongResult(x, j, signed) = Result(Power(x, j), signed) /\ LongResult(x, j + 1, signed) = Result(Power(x, j + 1), signed)
    BY <1>6 DEF LongResult
  <2> DEFINE p == Power(x, j)
  <2>4. p \in Nat /\ Power(x, j + 1) = p * x
    BY <1>1, <2>2
  <2> HIDE DEF p
  <2>5. CASE p \in Math!Values(signed)
    <3>1. LongResult(x, j, signed).err = "ok" /\ LongResult(x, j, signed).value = p
      BY <2>3, <2>5 DEF Result, Math!Ok, p
    <3>2. Over(x, signed, p) <=> p * x \notin Math!Values(signed)
      BY <2>1, <2>4, <2>5, OverIs
    <3>. QED BY <1>2, <2>3, <2>4, <3>1, <3>2 DEF Result
  <2>6. CASE p \notin Math!Values(signed)
    <3>1. LongResult(x, j, signed).err # "ok" /\ LongResult(x, j + 1, signed) = LongResult(x, j, signed)
      BY <1>1, <2>3, <2>6 DEF Result, Math!Refused, p
    <3>. QED BY <1>2, <3>1
  <2>. QED BY <2>5, <2>6
<1>. QED BY <1>2, <1>4, <1>5, <1>6

\* Powers computed in the widest word are exact, or refused.
LEMMA LongPowersAre ==
  ASSUME NEW signed \in BOOLEAN, NEW x \in Math!Values(signed), NEW n \in Nat
  PROVE  Math!LongPow(x, n, signed) = LongResult(x, n, signed)
<1> DEFINE Loop(p) == p = [i \in 0 .. (IF n < 0 THEN -n ELSE n) |->
                             IF i = 0 THEN Math!Ok(1)
                             ELSE IF p[i - 1].err # "ok" THEN p[i - 1]
                             ELSE IF Over(x, signed, p[i - 1].value) THEN Math!Refused("would_overflow")
                             ELSE Math!Ok(p[i - 1].value * x)]
           loop == CHOOSE p : Loop(p)
           all == [i \in 0 .. n |-> LongResult(x, i, signed)]
<1>0. (IF n < 0 THEN -n ELSE n) = n /\ ~(n < 0)
  OBVIOUS
<1>1. Math!LongPow(x, n, signed) = loop[n]
  <2>1. Math!LongPow(x, n, signed)
          = IF n < 0 /\ loop[IF n < 0 THEN -n ELSE n].err = "ok" THEN Math!Refused("invalid_parameter")
                                                                  ELSE loop[IF n < 0 THEN -n ELSE n]
    BY DEF Math!LongPow, Over
  <2> HIDE DEF loop
  <2>. QED BY <1>0, <2>1
<1>2. ASSUME NEW k \in 0 .. n, k > 0
      PROVE  /\ k - 1 \in 0 .. n
             /\ LongResult(x, k, signed)
                  = IF LongResult(x, k - 1, signed).err # "ok" THEN LongResult(x, k - 1, signed)
                    ELSE IF Over(x, signed, LongResult(x, k - 1, signed).value) THEN Math!Refused("would_overflow")
                    ELSE Math!Ok(LongResult(x, k - 1, signed).value * x)
  <2>1. k - 1 \in Nat /\ k - 1 \in 0 .. n /\ (k - 1) + 1 = k
    BY <1>2
  <2> DEFINE j == k - 1
  <2> HIDE DEF j
  <2>2. LongResult(x, j + 1, signed)
                  = IF LongResult(x, j, signed).err # "ok" THEN LongResult(x, j, signed)
                    ELSE IF Over(x, signed, LongResult(x, j, signed).value) THEN Math!Refused("would_overflow")
                    ELSE Math!Ok(LongResult(x, j, signed).value * x)
    BY <2>1, LongRound DEF j
  <2>. QED BY <2>1, <2>2 DEF j
<1>3. LongResult(x, 0, signed) = Math!Ok(1)
  BY LongRound
<1>4. Loop(all)
  <2>1. \A i \in 0 .. n : all[i] = IF i = 0 THEN Math!Ok(1)
                                   ELSE IF all[i - 1].err # "ok" THEN all[i - 1]
                                   ELSE IF Over(x, signed, all[i - 1].value) THEN Math!Refused("would_overflow")
                                   ELSE Math!Ok(all[i - 1].value * x)
    <3> SUFFICES ASSUME NEW i \in 0 .. n
                 PROVE  all[i] = IF i = 0 THEN Math!Ok(1)
                                   ELSE IF all[i - 1].err # "ok" THEN all[i - 1]
                                   ELSE IF Over(x, signed, all[i - 1].value) THEN Math!Refused("would_overflow")
                                   ELSE Math!Ok(all[i - 1].value * x)
      OBVIOUS
    <3>1. CASE i = 0
      BY <1>3, <3>1
    <3>2. CASE i # 0
      <4>1. i > 0
        BY <3>2
      <4>2. all[i] = LongResult(x, i, signed)
        OBVIOUS
      <4>3. i - 1 \in 0 .. n
        BY <4>1, <1>2
      <4>4. all[i - 1] = LongResult(x, i - 1, signed)
        BY <4>3
      <4> HIDE DEF all
      <4>. QED BY <1>2, <3>2, <4>1, <4>2, <4>4
    <3>. QED BY <3>1, <3>2
  <2>2. all = [i \in 0 .. n |-> all[i]]
    OBVIOUS
  <2> HIDE DEF all
  <2>3. [i \in 0 .. n |-> all[i]]
          = [i \in 0 .. (IF n < 0 THEN -n ELSE n) |->
                             IF i = 0 THEN Math!Ok(1)
                             ELSE IF all[i - 1].err # "ok" THEN all[i - 1]
                             ELSE IF Over(x, signed, all[i - 1].value) THEN Math!Refused("would_overflow")
                             ELSE Math!Ok(all[i - 1].value * x)]
    BY <1>0, <2>1
  <2>. QED BY <2>2, <2>3
<1>5. Loop(loop)
  <2> HIDE DEF Loop
  <2>. QED BY <1>4
<1> HIDE DEF loop
<1>6. \A i \in 0 .. n : loop[i] = IF i = 0 THEN Math!Ok(1)
                                   ELSE IF loop[i - 1].err # "ok" THEN loop[i - 1]
                                   ELSE IF Over(x, signed, loop[i - 1].value) THEN Math!Refused("would_overflow")
                                   ELSE Math!Ok(loop[i - 1].value * x)
  <2>1. loop = [i \in 0 .. n |-> IF i = 0 THEN Math!Ok(1)
                                   ELSE IF loop[i - 1].err # "ok" THEN loop[i - 1]
                                   ELSE IF Over(x, signed, loop[i - 1].value) THEN Math!Refused("would_overflow")
                                   ELSE Math!Ok(loop[i - 1].value * x)]
    BY <1>0, <1>5
  <2> HIDE DEF Loop
  <2>. QED BY <2>1
<1> HIDE DEF Loop, all
<1> DEFINE S == {k \in 0 .. n : loop[k] = LongResult(x, k, signed)}
<1>7. 0 \in S
  BY <1>3, <1>6
<1>8. ASSUME NEW k \in 0 .. n - 1, k \in S PROVE k + 1 \in S
  <2>1. k + 1 \in 0 .. n /\ k + 1 > 0 /\ (k + 1) - 1 = k /\ k + 1 # 0
    OBVIOUS
  <2>2. loop[k + 1] = IF loop[k].err # "ok" THEN loop[k]
                      ELSE IF Over(x, signed, loop[k].value) THEN Math!Refused("would_overflow")
                      ELSE Math!Ok(loop[k].value * x)
    BY <1>6, <2>1
  <2>3. LongResult(x, k + 1, signed)
                  = IF LongResult(x, k, signed).err # "ok" THEN LongResult(x, k, signed)
                    ELSE IF Over(x, signed, LongResult(x, k, signed).value) THEN Math!Refused("would_overflow")
                    ELSE Math!Ok(LongResult(x, k, signed).value * x)
    BY <1>2, <2>1
  <2>. QED BY <1>8, <2>1, <2>2, <2>3
<1> HIDE DEF S
<1>9. 0 .. n \subseteq S
  BY <1>7, <1>8, InductionUpTo
<1>10. loop[n] = LongResult(x, n, signed)
  BY <1>9 DEF S
<1>. QED BY <1>1, <1>10

-----------------------------------------------------------------------------
(* The answers *)

\* What ArithmeticExact says of the answer r to a call
IsExact(op, x, y, signed, sort, r) ==
  IF op = "div" /\ y = 0 THEN r = Math!Refused("invalid_parameter")
  ELSE IF (op = "pow" /\ y < 0) /\ (signed /\ sort = "long") THEN r.err # "ok"
  ELSE IF (op = "pow" /\ y < 0) /\ x = 0 THEN r \in {Math!Fault, Math!Ok(0)}
  ELSE IF (op = "pow" /\ y < 0) /\ Math!Power(x, -y) \notin Math!Values(signed)
    THEN IF sort = "single" THEN r.err \in {"ok", "fault"} ELSE r = Math!Refused("would_overflow")
  ELSE IF Math!Exact(op, x, y) \in Math!Values(signed)
    THEN \/ r = Math!Ok(Math!Exact(op, x, y))
         \/ op = "pow" /\ (signed /\ sort = "long") /\ x < 0 /\ r = Math!Refused("would_overflow")
  ELSE IF sort = "single" THEN r = Math!Ok(Math!Narrow(Math!Exact(op, x, y), signed)) \/ (op = "div" /\ r = Math!Fault)
  ELSE r = Math!Refused("would_overflow") \/ ((signed /\ sort = "long") /\ op = "mul")

\* What that is of an operation with the exact result v that has no exception but where
\* the type does not have v
LEMMA ExactWhen ==
  ASSUME NEW op, NEW x, NEW y, NEW signed \in BOOLEAN, NEW sort \in Math!Kinds, NEW r,
         ~(op = "div" /\ y = 0), ~(op = "pow" /\ y < 0),
         NEW v \in Int, v = Math!Exact(op, x, y),
         \/ /\ sort # "single"
            /\ r = Result(v, signed) \/ (signed /\ sort = "long" /\ op = "mul" /\ v \notin Math!Values(signed))
         \/ /\ sort = "single"
            /\ \/ r = Math!Ok(Math!Narrow(v, signed))
               \/ op = "div" /\ v \notin Math!Values(signed) /\ r = Math!Fault
  PROVE  IsExact(op, x, y, signed, sort, r)
<1>1. v \in Math!Values(signed) => Math!Narrow(v, signed) = v
  BY NarrowIs
<1>2. CASE v \in Math!Values(signed)
  <2>1. r = Math!Ok(v)
    BY <1>1, <1>2 DEF Result
  <2>. QED BY <1>2, <2>1 DEF IsExact
<1>3. CASE v \notin Math!Values(signed)
  BY <1>3 DEF IsExact, Result
<1>. QED BY <1>2, <1>3

\* Sums, differences, products and quotients are exact or reported, or cut to the type.
LEMMA SumsExact ==
  ASSUME NEW signed \in BOOLEAN, NEW sort \in Math!Kinds, NEW o \in BOOLEAN,
         NEW x \in Math!Values(signed), NEW y \in Math!Values(signed),
         NEW op \in {"add", "sub", "mul", "div"}, NEW r, r = Math!Answer(op, x, y, signed, sort, o)
  PROVE  IsExact(op, x, y, signed, sort, r)
<1> DEFINE v == Math!Exact(op, x, y)
<1>1. CASE op = "div" /\ y = 0
  BY <1>1 DEF IsExact, Math!Answer, Math!LongDiv, Math!NarrowDiv
<1>2. ASSUME ~(op = "div" /\ y = 0) PROVE v \in Int
  <2>1. x \in Int /\ y \in Int
    BY ValuesAre
  <2>2. x + y \in Int /\ x - y \in Int /\ x * y \in Int /\ (y # 0 => Math!Quotient(x, y) \in Int)
    BY <2>1, QuotientIs
  <2>. QED BY <1>2, <2>2 DEF Math!Exact
<1>3. CASE ~(op = "div" /\ y = 0) /\ sort = "long"
  <2>1. \/ r = Result(v, signed)
        \/ signed /\ op = "mul" /\ v \notin Math!Values(signed)
    <3>1. CASE op = "add"
      BY <1>3, <3>1, LongSums DEF Math!Answer, Math!Exact
    <3>2. CASE op = "sub"
      BY <1>3, <3>2, LongSums DEF Math!Answer, Math!Exact
    <3>3. CASE op = "mul"
      BY <1>3, <3>3, LongProducts DEF Math!Answer, Math!Exact
    <3>4. CASE op = "div"
      BY <1>3, <3>4, LongQuotients DEF Math!Answer, Math!Exact
    <3>. QED BY <3>1, <3>2, <3>3, <3>4
  <2> HIDE DEF v
  <2>2. sort # "single" /\ v \in Int /\ ~(op = "pow" /\ y < 0)
    BY <1>2, <1>3
  <2>. QED BY <1>3, <2>1, <2>2, ExactWhen DEF v
<1>4. CASE ~(op = "div" /\ y = 0) /\ sort = "double"
  <2>1. r = Result(v, signed)
    <3>0. sort # "long" /\ Math!WordOf(sort) = 2 * MathBits
      BY <1>4 DEF Math!WordOf
    <3>1. CASE op = "add"
      BY <3>0, <3>1, NarrowOnes DEF Math!Answer, Math!Exact
    <3>2. CASE op = "sub"
      BY <3>0, <3>2, NarrowOnes DEF Math!Answer, Math!Exact
    <3>3. CASE op = "mul"
      BY <3>0, <3>3, NarrowOnes DEF Math!Answer, Math!Exact
    <3>4. CASE op = "div"
      BY <1>4, <3>0, <3>4, NarrowOnes DEF Math!Answer, Math!Exact
    <3>. QED BY <3>1, <3>2, <3>3, <3>4
  <2> HIDE DEF v
  <2>2. sort # "single" /\ v \in Int /\ ~(op = "pow" /\ y < 0)
    BY <1>2, <1>4
  <2>. QED BY <1>4, <2>1, <2>2, ExactWhen DEF v
<1>5. CASE ~(op = "div" /\ y = 0) /\ sort = "single"
  <2>1. \/ r = Math!Ok(Math!Narrow(v, signed))
        \/ op = "div" /\ v \notin Math!Values(signed) /\ r = Math!Fault
    <3>0. sort # "long" /\ Math!WordOf(sort) = MathBits
      BY <1>5 DEF Math!WordOf
    <3>1. CASE op = "add"
      BY <3>0, <3>1, SingleOnes DEF Math!Answer, Math!Exact
    <3>2. CASE op = "sub"
      BY <3>0, <3>2, SingleOnes DEF Math!Answer, Math!Exact
    <3>3. CASE op = "mul"
      BY <3>0, <3>3, SingleOnes DEF Math!Answer, Math!Exact
    <3>4. CASE op = "div"
      BY <1>5, <3>0, <3>4, SingleOnes DEF Math!Answer, Math!Exact
    <3>. QED BY <3>1, <3>2, <3>3, <3>4
  <2> HIDE DEF v
  <2>2. v \in Int /\ ~(op = "pow" /\ y < 0)
    BY <1>2, <1>5
  <2>. QED BY <1>5, <2>1, <2>2, ExactWhen DEF v
<1>. QED BY <1>1, <1>3, <1>4, <1>5 DEF Math!Kinds

\* One divided by a power
LEMMA OneDivided ==
  ASSUME NEW x \in Int, x # 0, NEW n \in Nat, n > 0
  PROVE  /\ Math!Quotient(1, Power(x, n)) = (IF x \in {1, -1} THEN Power(x, n) ELSE 0)
         /\ x \in {1, -1} => Power(x, n) \in {1, -1}
<1>1. CASE x \in {1, -1}
  <2>1. Power(x, n) \in {1, -1}
    <3> DEFINE S == {k \in 0 .. n : Power(x, k) \in {1, -1}}
    <3>1. 0 \in S
      BY PowerRound
    <3>2. ASSUME NEW k \in 0 .. n - 1, k \in S PROVE k + 1 \in S
      <4>1. k + 1 \in 0 .. n /\ k \in Nat
        BY <3>2
      <4>2. Power(x, k + 1) = Power(x, k) * x /\ Power(x, k) \in {1, -1}
        BY <3>2, <4>1, PowerRound
      <4> DEFINE p == Power(x, k)
      <4> HIDE DEF p
      <4>3. p \in {1, -1} => p * x \in {1, -1}
        BY <1>1
      <4>. QED BY <4>1, <4>2, <4>3 DEF p
    <3> HIDE DEF S
    <3>3. 0 .. n \subseteq S
      BY <3>1, <3>2, InductionUpTo
    <3>. QED BY <3>3 DEF S
  <2> DEFINE p == Power(x, n)
  <2> HIDE DEF p
  <2>2. p \in {1, -1} => Math!Quotient(1, p) = p
    <3>1. ASSUME p = 1 PROVE Math!Quotient(1, p) = p
      BY <3>1 DEF Math!Quotient
    <3>2. ASSUME p = -1 PROVE Math!Quotient(1, p) = p
      <4>1. p + 1 = 0 /\ p \in Int
        BY <3>2
      <4>2. p < 0 /\ -p = 1
        BY <4>1
      <4>. QED BY <3>2, <4>2 DEF Math!Quotient
    <3>. QED BY <3>1, <3>2
  <2>. QED BY <1>1, <2>1, <2>2 DEF p
<1>2. CASE x \notin {1, -1}
  <2>1. Magnitude(Power(x, n)) >= 2
    <3> DEFINE S == {k \in 0 .. n : Magnitude(Power(x, k)) >= 1 /\ (k > 0 => Magnitude(Power(x, k)) >= 2)}
    <3>1. 0 \in S
      <4>1. Power(x, 0) = 1
        BY PowerRound
      <4>2. Magnitude(1) = 1 /\ 0 \in 0 .. n
        BY DEF Magnitude
      <4>. QED BY <4>1, <4>2
    <3>2. ASSUME NEW k \in 0 .. n - 1, k \in S PROVE k + 1 \in S
      <4>1. k + 1 \in 0 .. n /\ k \in Nat
        BY <3>2
      <4>2. Power(x, k + 1) = Power(x, k) * x /\ Power(x, k) \in Int /\ Magnitude(Power(x, k)) >= 1
        BY <3>2, <4>1, PowerRound
      <4> DEFINE p == Power(x, k)
      <4> HIDE DEF p
      <4>3. p \in Int /\ Magnitude(p) >= 1 => Magnitude(p * x) >= 2
        <5> SUFFICES ASSUME p \in Int, Magnitude(p) >= 1 PROVE Magnitude(p * x) >= 2
          OBVIOUS
        <5>2. Magnitude(p * x) = Magnitude(p) * Magnitude(x) /\ Magnitude(p) \in Nat
          BY DEF Magnitude
        <5>3. Magnitude(x) >= 2 /\ Magnitude(x) \in Nat
          BY <1>2 DEF Magnitude
        <5>4. Magnitude(p) * Magnitude(x) >= 1 * 2
          BY <5>2, <5>3, Monotone
        <5>. QED BY <5>2, <5>3, <5>4
      <4>4. Magnitude(Power(x, k + 1)) >= 2
        BY <4>2, <4>3 DEF p
      <4>5. Magnitude(Power(x, k + 1)) >= 1
        <5>1. Power(x, k + 1) \in Int
          BY <4>1, PowerRound
        <5>. QED BY <4>4, <5>1 DEF Magnitude
      <4>. QED BY <4>1, <4>4, <4>5
    <3> HIDE DEF S
    <3>3. 0 .. n \subseteq S
      BY <3>1, <3>2, InductionUpTo
    <3>. QED BY <3>3 DEF S
  <2> DEFINE p == Power(x, n)
  <2>2. p \in Int
    BY PowerRound
  <2> HIDE DEF p
  <2>3. p \in Int /\ Magnitude(p) >= 2 => Math!Quotient(1, p) = 0
    <3> SUFFICES ASSUME p \in Int, Magnitude(p) >= 2 PROVE Math!Quotient(1, p) = 0
      OBVIOUS
    <3>2. Magnitude(p) \in Nat /\ p # 0
      BY DEF Magnitude
    <3>3. 1 \div Magnitude(p) = 0
      BY <3>2
    <3>4. Magnitude(1) = 1
      BY DEF Magnitude
    <3>5. Math!Quotient(1, p) = IF (1 < 0) = (p < 0) THEN Magnitude(1) \div Magnitude(p)
                                                     ELSE -(Magnitude(1) \div Magnitude(p))
      <4>1. 1 \in Int /\ p \in Int
        OBVIOUS
      <4>. QED BY <3>2, <4>1, QuotientIs
    <3>. QED BY <3>3, <3>4, <3>5
  <2>. QED BY <1>2, <2>1, <2>2, <2>3 DEF p
<1>. QED BY <1>1, <1>2

\* The answer of the functions of the macros to a negative exponent
LEMMA InversePowers ==
  ASSUME NEW x, NEW y \in Int, y < 0, NEW signed, NEW sort \in {"double", "single"}, NEW o \in BOOLEAN,
         NEW n, n = -y, NEW s, s = Math!NarrowPowers(x, n, signed, Math!WordOf(sort))
  PROVE  Math!Answer("pow", x, y, signed, sort, o)
           = IF s.err # "ok" THEN s
             ELSE IF s.value # 0 THEN Math!Ok(Math!Quotient(1, s.value))
             ELSE IF o THEN Math!Ok(0) ELSE Math!Fault
<1>1. ~(y >= 0) /\ sort # "long"
  OBVIOUS
<1>2. Math!Answer("pow", x, y, signed, sort, o) = Math!NarrowPow(x, y, signed, Math!WordOf(sort), o)
  BY <1>1 DEF Math!Answer
<1>. QED BY <1>1, <1>2 DEF Math!NarrowPow

\* A power is zero only of zero.
LEMMA ZeroPowers ==
  ASSUME NEW x \in Int, NEW n \in Nat
  PROVE  /\ x # 0 => Power(x, n) # 0
         /\ x = 0 /\ n > 0 => Power(x, n) = 0
<1>1. ASSUME x = 0, n > 0 PROVE Power(x, n) = 0
  <2>1. n - 1 \in Nat /\ (n - 1) + 1 = n
    BY <1>1
  <2> DEFINE m == n - 1
  <2> HIDE DEF m
  <2>2. Power(x, m + 1) = Power(x, m) * x /\ Power(x, m) \in Int
    BY <2>1, PowerRound DEF m
  <2>3. Power(x, m) * x = 0
    BY <1>1, <2>2
  <2>. QED BY <2>1, <2>2, <2>3 DEF m
<1>2. ASSUME x # 0 PROVE Power(x, n) # 0
  <2> DEFINE S == {k \in 0 .. n : Power(x, k) # 0}
  <2>1. 0 \in S
    BY PowerRound
  <2>2. ASSUME NEW k \in 0 .. n - 1, k \in S PROVE k + 1 \in S
    <3>1. k + 1 \in 0 .. n /\ k \in Nat
      BY <2>2
    <3>2. Power(x, k + 1) = Power(x, k) * x /\ Power(x, k) \in Int /\ Power(x, k) # 0
      BY <2>2, <3>1, PowerRound
    <3> DEFINE p == Power(x, k)
    <3> HIDE DEF p
    <3>3. p \in Int /\ p # 0 => p * x # 0
      BY <1>2
    <3>. QED BY <3>1, <3>2, <3>3 DEF p
  <2> HIDE DEF S
  <2>3. 0 .. n \subseteq S
    BY <2>1, <2>2, InductionUpTo
  <2>. QED BY <2>3 DEF S
<1>. QED BY <1>1, <1>2

\* Powers are exact or reported, those with a negative exponent too, or cut to the type.
LEMMA PowersExact ==
  ASSUME NEW signed \in BOOLEAN, NEW sort \in Math!Kinds, NEW o \in BOOLEAN,
         NEW x \in Math!Values(signed), NEW y \in Math!Exponents(signed),
         NEW r, r = Math!Answer("pow", x, y, signed, sort, o)
  PROVE  IsExact("pow", x, y, signed, sort, r)
<1>1. /\ x \in Int /\ y \in Int
      /\ Math!Values(signed) = Least(signed) .. Most(signed)
      /\ HalfWord \in Nat /\ HalfWord >= 2 /\ y \in Math!Values(signed)
  <2>1. y \in Math!Values(signed)
    BY DEF Math!Exponents
  <2>. QED BY <2>1, ValuesAre, WordsAre
<1>2. (x < 0 \/ y < 0) => signed
  BY <1>1 DEF Least
<1>4. CASE y >= 0
  <2>1. y \in Nat /\ ~(y < 0)
    BY <1>1, <1>4
  <2>2. Math!Exact("pow", x, y) = Power(x, y) /\ Power(x, y) \in Int
    BY <1>1, <2>1, SamePower, PowerRound DEF Math!Exact
  <2> DEFINE p == Power(x, y)
  <2>3. CASE sort = "double"
    <3>1. r = Math!NarrowPowers(x, y, signed, 2 * MathBits)
      BY <1>4, <2>1, <2>3 DEF Math!NarrowPow, Math!Answer, Math!WordOf
    <3>2. r = Result(p, signed) /\ sort # "single"
      BY <2>1, <2>3, <3>1, NarrowPowersAre
    <3> HIDE DEF p
    <3>. QED BY <2>1, <2>2, <3>2, ExactWhen DEF p
  <2>4. CASE sort = "single"
    <3>1. r = Math!NarrowPowers(x, y, signed, MathBits)
      BY <1>4, <2>1, <2>4 DEF Math!NarrowPow, Math!Answer, Math!WordOf
    <3>2. r = Math!Ok(Math!Narrow(p, signed))
      BY <2>1, <3>1, SinglePowersAre
    <3> HIDE DEF p
    <3>. QED BY <2>1, <2>2, <2>4, <3>2, ExactWhen DEF p
  <2>5. CASE sort = "long"
    <3>1. r = LongResult(x, y, signed)
      BY <2>1, <2>5, LongPowersAre DEF Math!Answer
    <3>2. CASE y > 0 /\ x < 0
      <4>1. r = Math!Refused("would_overflow")
        BY <3>1, <3>2 DEF LongResult
      <4>. QED BY <1>2, <2>1, <2>5, <3>2, <4>1 DEF IsExact
    <3>3. CASE ~(y > 0 /\ x < 0)
      <4>1. r = Result(p, signed) /\ sort # "single"
        BY <2>5, <3>1, <3>3 DEF LongResult
      <4> HIDE DEF p
      <4>. QED BY <2>1, <2>2, <4>1, ExactWhen DEF p
    <3>. QED BY <3>2, <3>3
  <2>. QED BY <2>3, <2>4, <2>5 DEF Math!Kinds
<1>5. CASE y < 0 /\ sort = "long"
  <2>1. Math!LongPow(x, y, signed).err # "ok"
    BY <1>5 DEF Math!LongPow, Math!Refused
  <2>2. r = Math!LongPow(x, y, signed)
    BY <1>5 DEF Math!Answer
  <2>. QED BY <1>2, <1>5, <2>1, <2>2 DEF IsExact
<1>6. CASE y < 0 /\ sort # "long"
  <2> DEFINE n == -y  p == Power(x, n)  s == Math!NarrowPowers(x, n, signed, Math!WordOf(sort))
  <2>1. n \in Nat /\ n > 0 /\ signed
    BY <1>1, <1>2, <1>6
  <2>2. r = IF s.err # "ok" THEN s
            ELSE IF s.value # 0 THEN Math!Ok(Math!Quotient(1, s.value))
            ELSE IF o THEN Math!Ok(0) ELSE Math!Fault
    <3>1. sort \in {"double", "single"}
      BY <1>6 DEF Math!Kinds
    <3> HIDE DEF s, n
    <3>. QED BY <1>1, <1>6, <3>1, InversePowers DEF s, n
  <2>3. Math!Exact("pow", x, y) = IF x \in {1, -1} THEN Power(x, n) ELSE 0
    BY <1>1, <1>6, SamePower DEF Math!Exact
  <2>4. Math!Power(x, -y) = p
    BY SamePower
  <2> HIDE DEF n
  <2>5. p \in Int /\ (x # 0 => p # 0) /\ (x = 0 => p = 0)
    BY <1>1, <2>1, ZeroPowers, PowerRound
  <2>6. sort = "double" => s = Result(p, signed)
    BY <2>1, NarrowPowersAre DEF Math!WordOf
  <2>7. sort = "single" => s = Math!Ok(Math!Narrow(p, signed))
    BY <2>1, SinglePowersAre DEF Math!WordOf
  <2>8. sort \in {"double", "single"} /\ ~((signed /\ sort = "long") /\ y < 0) /\ "pow" # "div"
    BY <1>6 DEF Math!Kinds
  <2>9. x # 0 => Math!Quotient(1, p) = Math!Exact("pow", x, y) /\ Math!Exact("pow", x, y) \in Math!Values(signed)
    <3> SUFFICES ASSUME x # 0
                 PROVE  Math!Quotient(1, p) = Math!Exact("pow", x, y) /\ Math!Exact("pow", x, y) \in Math!Values(signed)
      OBVIOUS
    <3>1. /\ Math!Quotient(1, p) = (IF x \in {1, -1} THEN p ELSE 0)
          /\ x \in {1, -1} => p \in {1, -1}
      BY <1>1, <2>1, OneDivided
    <3>2. Math!Exact("pow", x, y) \in {0, 1, -1}
      BY <2>3, <3>1
    <3> DEFINE e == Math!Exact("pow", x, y)
    <3> HIDE DEF e
    <3>3. e \in {0, 1, -1} => e \in Math!Values(signed)
      BY <1>1, <2>1 DEF Least, Most
    <3>. QED BY <2>3, <3>1, <3>2, <3>3 DEF e
  <2> HIDE DEF s, p
  <2>10. CASE p \in Math!Values(signed)
    <3>1. s = Math!Ok(p)
      BY <2>5, <2>6, <2>7, <2>8, <2>10, NarrowIs DEF Result
    <3>2. s.err = "ok" /\ s.value = p
      BY <3>1 DEF Math!Ok
    <3>3. CASE x = 0
      <4>1. r \in {Math!Fault, Math!Ok(0)}
        BY <2>2, <2>5, <3>2, <3>3
      <4>. QED BY <1>6, <2>8, <3>3, <4>1 DEF IsExact
    <3>4. CASE x # 0
      <4>1. r = Math!Ok(Math!Exact("pow", x, y))
        BY <2>2, <2>5, <2>9, <3>2, <3>4
      <4>. QED BY <1>6, <2>4, <2>8, <2>9, <2>10, <3>4, <4>1 DEF IsExact
    <3>. QED BY <3>3, <3>4
  <2>11. CASE p \notin Math!Values(signed)
    <3>1. x # 0
      <4>1. 0 \in Math!Values(signed)
        BY <1>1 DEF Least, Most
      <4>. QED BY <2>5, <2>11, <4>1
    <3>2. CASE sort = "double"
      <4>1. r = Math!Refused("would_overflow")
        BY <2>2, <2>6, <2>11, <3>2 DEF Result, Math!Refused
      <4>. QED BY <1>6, <2>4, <2>8, <2>11, <3>1, <3>2, <4>1 DEF IsExact
    <3>3. CASE sort = "single"
      <4>1. r.err \in {"ok", "fault"}
        BY <2>2, <2>7, <3>3 DEF Math!Ok, Math!Fault, Math!Refused
      <4>. QED BY <1>6, <2>4, <2>8, <2>11, <3>1, <3>3, <4>1 DEF IsExact
    <3>. QED BY <2>8, <3>2, <3>3
  <2>. QED BY <2>10, <2>11
<1>. QED BY <1>1, <1>4, <1>5, <1>6

\* A call is answered exactly.
LEMMA ComputesExactly ==
  ASSUME Math!Compute
  PROVE  Math!ArithmeticExact'
<1>1. PICK op \in Math!Ops, signed \in BOOLEAN, sort \in Math!Kinds, o \in BOOLEAN :
        \E x \in Math!Values(signed), y \in IF op = "pow" THEN Math!Exponents(signed) ELSE Math!Values(signed) :
         /\ args' = [op |-> op, x |-> x, y |-> y, signed |-> signed, kind |-> sort]
         /\ answer' = Math!Answer(op, x, y, signed, sort, o)
  BY DEF Math!Compute
<1>2. PICK x \in Math!Values(signed), y \in IF op = "pow" THEN Math!Exponents(signed) ELSE Math!Values(signed) :
         /\ args' = [op |-> op, x |-> x, y |-> y, signed |-> signed, kind |-> sort]
         /\ answer' = Math!Answer(op, x, y, signed, sort, o)
  BY <1>1
<1>3. IsExact(op, x, y, signed, sort, answer')
  <2>1. CASE op = "pow"
    BY <1>2, <2>1, PowersExact
  <2>2. CASE op # "pow"
    <3>1. op \in {"add", "sub", "mul", "div"} /\ y \in Math!Values(signed)
      BY <2>2 DEF Math!Ops
    <3>. QED BY <1>2, <3>1, SumsExact
  <2>. QED BY <2>1, <2>2
<1>4. /\ args'.op = op /\ args'.x = x /\ args'.y = y /\ args'.signed = signed /\ args'.kind = sort
  BY <1>2
<1>. QED BY <1>3, <1>4 DEF Math!ArithmeticExact, IsExact

-----------------------------------------------------------------------------
(* Pieces that are joined *)

\* Splitting and replacing search as the other strings do.
LEMMA SameSearches ==
  ASSUME NEW s, NEW w
  PROVE  /\ Pieces!Find(s, w) = Strings!Find(s, w) /\ Pieces!FindChar(s, w) = Strings!FindChar(s, w)
         /\ \A i : Pieces!From(s, i) = Strings!From(s, i)
         /\ \A i, j : Pieces!Cut(s, i, j) = Strings!Cut(s, i, j)
BY DEF Pieces!Find, Strings!Find, Pieces!FindChar, Strings!FindChar, Pieces!Agree, Strings!Agree,
       Pieces!From, Strings!From, Pieces!Cut, Strings!Cut

\* The strings that the first pieces of ps make
IsJoins(S, ps, j) ==
  /\ j \in [0 .. Len(ps) -> Seq(S)] /\ j[0] = <<>>
  /\ \A i \in 1 .. Len(ps) : j[i] = j[i - 1] \o ps[i]

\* Joining pieces is well defined.
LEMMA JoinsExist ==
  ASSUME NEW S, NEW ps \in Seq(Seq(S))
  PROVE  \E j : IsJoins(S, ps, j)
<1> DEFINE n == Len(ps)
           F == [k \in 1 .. n |-> [r \in Seq(S) |-> r \o ps[k]]]
<1>1. n \in Nat /\ \A k \in 1 .. n : ps[k] \in Seq(S)
  OBVIOUS
<1>2. \A k \in 1 .. n, r \in Seq(S) : r \o ps[k] \in Seq(S)
  BY <1>1, ConcatProperties
<1>3. F \in Rounds(n, Seq(S)) /\ \A k \in 1 .. n, r \in Seq(S) : F[k][r] = r \o ps[k]
  BY <1>2 DEF Rounds
<1>4. <<>> \in Seq(S)
  OBVIOUS
<1> HIDE DEF F
<1>5. PICK j : IsCourse(j, n, Seq(S), <<>>, F)
  BY <1>1, <1>3, <1>4, CourseExists
<1>6. j \in [0 .. n -> Seq(S)] /\ j[0] = <<>> /\ \A k \in 1 .. n : j[k] = F[k][j[k - 1]]
  BY <1>5 DEF IsCourse
<1>7. \A k \in 1 .. n : k - 1 \in 0 .. n
  BY <1>1
<1>8. \A k \in 1 .. n : j[k] = j[k - 1] \o ps[k]
  BY <1>3, <1>6, <1>7
<1>. QED BY <1>6, <1>8 DEF IsJoins

\* What a course of joined pieces ends with is what they make.
LEMMA JoinedIs ==
  ASSUME NEW S, NEW ps \in Seq(Seq(S)), NEW j, IsJoins(S, ps, j)
  PROVE  Pieces!Joined(ps) = j[Len(ps)] /\ Pieces!Joined(ps) \in Seq(S)
<1> DEFINE n == Len(ps)
           Loop(p) == p = [k \in 0 .. n |-> IF k = 0 THEN <<>> ELSE p[k - 1] \o ps[k]]
           loop == CHOOSE p : Loop(p)
<1>1. Pieces!Joined(ps) = loop[n]
  BY DEF Pieces!Joined
<1>2. n \in Nat /\ \A k \in 0 .. n : k = 0 \/ k \in 1 .. n
  OBVIOUS
<1>3. Loop(j)
  <2>1. \A k \in 0 .. n : j[k] = IF k = 0 THEN <<>> ELSE j[k - 1] \o ps[k]
    BY <1>2 DEF IsJoins
  <2>2. j = [k \in 0 .. n |-> j[k]]
    BY DEF IsJoins
  <2>3. [k \in 0 .. n |-> j[k]] = [k \in 0 .. n |-> IF k = 0 THEN <<>> ELSE j[k - 1] \o ps[k]]
    BY <2>1
  <2>. QED BY <2>2, <2>3
<1>4. Loop(loop)
  <2> HIDE DEF Loop
  <2>. QED BY <1>3
<1> HIDE DEF loop
<1>5. \A k \in 0 .. n : loop[k] = IF k = 0 THEN <<>> ELSE loop[k - 1] \o ps[k]
  <2>1. loop = [k \in 0 .. n |-> IF k = 0 THEN <<>> ELSE loop[k - 1] \o ps[k]]
    BY <1>4
  <2> HIDE DEF Loop
  <2>. QED BY <2>1
<1> HIDE DEF Loop
<1> DEFINE T == {k \in 0 .. n : loop[k] = j[k]}
<1>6. 0 \in T
  BY <1>2, <1>5 DEF IsJoins
<1>7. ASSUME NEW k \in 0 .. n - 1, k \in T PROVE k + 1 \in T
  <2>1. k + 1 \in 0 .. n /\ k + 1 \in 1 .. n /\ k + 1 # 0 /\ (k + 1) - 1 = k
    BY <1>2
  <2>2. loop[k + 1] = loop[k] \o ps[k + 1] /\ j[k + 1] = j[k] \o ps[k + 1]
    BY <1>5, <2>1 DEF IsJoins
  <2>. QED BY <1>7, <2>1, <2>2
<1> HIDE DEF T
<1>8. 0 .. n \subseteq T
  BY <1>2, <1>6, <1>7, InductionUpTo
<1>9. loop[n] = j[n]
  BY <1>2, <1>8 DEF T
<1>. QED BY <1>1, <1>2, <1>9 DEF IsJoins

\* One more piece is put at the end.
LEMMA JoinedRound ==
  ASSUME NEW S, NEW ps \in Seq(Seq(S)), NEW p \in Seq(S)
  PROVE  /\ Pieces!Joined(<<>>) = <<>> /\ Pieces!Joined(ps) \in Seq(S)
         /\ Pieces!Joined(Append(ps, p)) = Pieces!Joined(ps) \o p
<1>1. PICK j : IsJoins(S, ps, j)
  BY JoinsExist
<1>2. Pieces!Joined(ps) = j[Len(ps)] /\ Pieces!Joined(ps) \in Seq(S)
  BY <1>1, JoinedIs
<1>3. Pieces!Joined(<<>>) = <<>>
  <2>1. <<>> \in Seq(Seq(S)) /\ Len(<<>>) = 0
    OBVIOUS
  <2>2. PICK i : IsJoins(S, <<>>, i)
    BY <2>1, JoinsExist
  <2>3. Pieces!Joined(<<>>) = i[0]
    BY <2>1, <2>2, JoinedIs
  <2>. QED BY <2>2, <2>3 DEF IsJoins
<1> DEFINE n == Len(ps)  qs == Append(ps, p)
           i == [k \in 0 .. n + 1 |-> IF k = n + 1 THEN j[n] \o p ELSE j[k]]
<1>4. /\ qs \in Seq(Seq(S)) /\ Len(qs) = n + 1 /\ n \in Nat /\ qs[n + 1] = p
      /\ \A k \in 1 .. n : qs[k] = ps[k]
  OBVIOUS
<1>5. j \in [0 .. n -> Seq(S)] /\ j[0] = <<>> /\ \A k \in 1 .. n : j[k] = j[k - 1] \o ps[k]
  BY <1>1 DEF IsJoins
<1>6. j[n] \o p \in Seq(S)
  BY <1>4, <1>5, ConcatProperties
<1>7. IsJoins(S, qs, i)
  <2>1. i \in [0 .. n + 1 -> Seq(S)]
    BY <1>4, <1>5, <1>6
  <2>2. i[0] = <<>>
    BY <1>4, <1>5
  <2>3. ASSUME NEW k \in 1 .. n + 1 PROVE i[k] = i[k - 1] \o qs[k]
    <3>1. CASE k = n + 1
      <4>1. i[k] = j[n] \o p /\ i[k - 1] = j[n] /\ qs[k] = p
        BY <1>4, <3>1
      <4>. QED BY <4>1
    <3>2. CASE k # n + 1
      <4>1. k \in 1 .. n /\ k \in 0 .. n + 1 /\ k - 1 \in 0 .. n + 1 /\ k - 1 # n + 1
        BY <1>4, <3>2
      <4>2. i[k] = j[k] /\ i[k - 1] = j[k - 1] /\ qs[k] = ps[k]
        BY <1>4, <3>2, <4>1
      <4>. QED BY <1>5, <4>1, <4>2
    <3>. QED BY <3>1, <3>2
  <2> HIDE DEF i, qs
  <2>. QED BY <1>4, <2>1, <2>2, <2>3 DEF IsJoins
<1>8. i[n + 1] = j[n] \o p
  BY <1>4
<1> HIDE DEF i, qs
<1>9. Pieces!Joined(qs) = i[n + 1]
  BY <1>4, <1>7, JoinedIs
<1>. QED BY <1>2, <1>3, <1>8, <1>9 DEF qs

\* A string is what is before an index, what is between that and another one, and the rest.
LEMMA TakenApart ==
  ASSUME NEW S, NEW s \in Seq(S), NEW i \in 0 .. Len(s), NEW j \in i .. Len(s)
  PROVE  /\ s = Strings!Cut(s, 0, i) \o (Strings!Cut(s, i, j) \o Strings!From(s, j))
         /\ Strings!Cut(s, 0, i) \in Seq(S) /\ Strings!Cut(s, i, j) \in Seq(S) /\ Strings!From(s, j) \in Seq(S)
<1> DEFINE u == Strings!Cut(s, 0, i)  v == Strings!Cut(s, i, j)  w == Strings!From(s, j)
<1>1. Len(s) \in Nat /\ 0 \in 0 .. Len(s) /\ i \in 0 .. Len(s) /\ j \in 0 .. Len(s) /\ i - 0 = i
  OBVIOUS
<1>2. u \in Seq(S) /\ Len(u) = i /\ \A k \in 1 .. i : u[k] = s[0 + k]
  BY <1>1, CutIs
<1>3. v \in Seq(S) /\ Len(v) = j - i /\ \A k \in 1 .. j - i : v[k] = s[i + k]
  BY CutIs
<1>4. w \in Seq(S) /\ Len(w) = Len(s) - j /\ \A k \in 1 .. Len(s) - j : w[k] = s[j + k]
  BY <1>1, FromIs
<1> HIDE DEF u, v, w
<1>5. /\ v \o w \in Seq(S) /\ Len(v \o w) = Len(s) - i
      /\ \A k \in 1 .. Len(s) - i : (v \o w)[k] = IF k <= j - i THEN v[k] ELSE w[k - (j - i)]
  <2>1. Len(v) + Len(w) = Len(s) - i
    BY <1>1, <1>3, <1>4
  <2>. QED BY <1>3, <1>4, <2>1, ConcatProperties
<1> DEFINE t == v \o w
<1>6. ASSUME NEW k \in 1 .. Len(s) - i PROVE t[k] = s[i + k]
  <2>1. CASE k <= j - i
    <3>1. k \in 1 .. j - i
      BY <1>1, <2>1
    <3>. QED BY <1>3, <1>5, <2>1, <3>1
  <2>2. CASE ~(k <= j - i)
    <3>1. k - (j - i) \in 1 .. Len(s) - j /\ j + (k - (j - i)) = i + k
      BY <1>1, <2>2
    <3>. QED BY <1>4, <1>5, <2>2, <3>1
  <2>. QED BY <2>1, <2>2
<1> HIDE DEF t
<1>7. t \in Seq(S) /\ Len(t) = Len(s) - i
  BY <1>5 DEF t
<1>8. /\ u \o t \in Seq(S) /\ Len(u \o t) = Len(s)
      /\ \A k \in 1 .. Len(s) : (u \o t)[k] = IF k <= i THEN u[k] ELSE t[k - i]
  <2>1. Len(u) + Len(t) = Len(s)
    BY <1>1, <1>2, <1>7
  <2>. QED BY <1>2, <1>7, <2>1, ConcatProperties
<1>9. ASSUME NEW k \in 1 .. Len(s) PROVE (u \o t)[k] = s[k]
  <2>1. CASE k <= i
    <3>1. k \in 1 .. i /\ 0 + k = k
      BY <1>1, <2>1
    <3>. QED BY <1>2, <1>8, <2>1, <3>1
  <2>2. CASE ~(k <= i)
    <3>1. k - i \in 1 .. Len(s) - i /\ i + (k - i) = k
      BY <1>1, <2>2
    <3>. QED BY <1>6, <1>8, <2>2, <3>1
  <2>. QED BY <2>1, <2>2
<1> DEFINE x == u \o t
<1>10. x \in Seq(S) /\ Len(x) = Len(s) /\ \A k \in 1 .. Len(s) : x[k] = s[k]
  BY <1>8, <1>9
<1> HIDE DEF x
<1>11. x = s
  BY <1>10, SameSequence
<1>. QED BY <1>2, <1>3, <1>4, <1>11 DEF t, x, u, v, w

-----------------------------------------------------------------------------
(* Strings that are split *)

\* The indices at which a line of s ends
LineEnds(s) ==
  {i \in 0 .. Len(s) - 1 : s[i + 1] = NewlineChar \/ (s[i + 1] = ReturnChar /\ i + 1 < Len(s) /\ s[i + 2] = NewlineChar)}

\* The end of a line is the first newline, or the return right before it.
LEMMA LineEndIs ==
  ASSUME NEW S, NEW s \in Seq(S)
  PROVE  IsFirst(LineEnds(s), -1, 0, Pieces!LineEnd(s))
<1> DEFINE n == Len(s)
           Here(i) == s[i + 1] = NewlineChar \/ (s[i + 1] = ReturnChar /\ i + 1 < Len(s) /\ s[i + 2] = NewlineChar)
           T == {i \in 0 .. n - 1 : Here(i)}
           Loop(at) == at = [i \in 0 .. Len(s) |-> IF i = Len(s) THEN -1 ELSE IF Here(i) THEN i ELSE at[i + 1]]
           loop == CHOOSE at : Loop(at)
<1>1. n \in Nat /\ \A i \in T : i \in 0 .. n /\ i # n
  OBVIOUS
<1>2. Pieces!LineEnd(s) = loop[0]
  BY DEF Pieces!LineEnd
<1>3. T = LineEnds(s)
  BY DEF LineEnds
<1>4. \A at : Loop(at) <=> IsSearch(0, n, T, -1, at)
  <2> SUFFICES ASSUME NEW at PROVE Loop(at) <=> IsSearch(0, n, T, -1, at)
    OBVIOUS
  <2> HIDE DEF Here
  <2>1. \A i \in 0 .. n : (IF i = n THEN -1 ELSE IF Here(i) THEN i ELSE at[i + 1])
                            = IF i \in T THEN i ELSE IF i = n THEN -1 ELSE at[i + 1]
    BY <1>1
  <2>2. [i \in 0 .. n |-> IF i = n THEN -1 ELSE IF Here(i) THEN i ELSE at[i + 1]]
          = [i \in 0 .. n |-> IF i \in T THEN i ELSE IF i = n THEN -1 ELSE at[i + 1]]
    BY <2>1
  <2>. QED BY <2>2 DEF IsSearch
<1>5. 0 \in 0 .. n /\ 0 \in Nat /\ T \in SUBSET (0 .. n)
  BY <1>1
<1> HIDE DEF T, n
<1>6. \E at : IsSearch(0, n, T, -1, at)
  BY <1>1, <1>5, SearchExists
<1>7. Loop(loop)
  <2> HIDE DEF Loop
  <2>. QED BY <1>4, <1>6
<1>8. IsSearch(0, n, T, -1, loop)
  BY <1>4, <1>7
<1> HIDE DEF loop
<1>9. IsFirst(T, -1, 0, loop[0])
  BY <1>1, <1>5, <1>8, SearchStops
<1>. QED BY <1>2, <1>3, <1>9

\* What may be between two pieces: the end of a line after a return is never the newline
\* alone.
Between(op, what, e, before) ==
  IF op = "split_char" THEN e = what
  ELSE /\ e \in {<<NewlineChar>>, <<ReturnChar, NewlineChar>>}
       /\ e = <<NewlineChar>> /\ before # <<>> => before[Len(before)] # ReturnChar
\* What no piece has
Separator(op, what) == IF op = "split_char" THEN what[1] ELSE NewlineChar

\* The call splits a string.
Splits(c) ==
  /\ c.op \in {"split_char", "split_lines"} /\ c.s \in Seq(StringChar) /\ c.what \in Seq(StringChar)
  /\ c.op = "split_char" => Len(c.what) = 1

\* The pieces with what is before each of them
Led(ps, ls) == [k \in DOMAIN ps |-> ls[k] \o ps[k]]

\* Pieces and what is before them, of which they have no more than the rest of them
Parted(op, what, ps, ls) ==
  /\ ps \in Seq(Seq(StringChar)) /\ ls \in Seq(Seq(StringChar))
  /\ Len(ls) > 0 => ls[1] = <<>>
  /\ \A k \in 2 .. Len(ls) : Between(op, what, ls[k], ps[k - 1])
  /\ \A k \in DOMAIN ps : \A j \in DOMAIN ps[k] : ps[k][j] # Separator(op, what)

\* The next piece of r ends at i, and what ends it has m characters.
EndsAt(op, what, r, i, m) ==
  /\ i = IF op = "split_char" THEN Strings!FindChar(r, what[1]) ELSE Pieces!LineEnd(r)
  /\ m = IF op = "split_lines" THEN IF r[i + 1] = ReturnChar THEN 2 ELSE 1 ELSE Len(what)

\* The next piece of r, and what is behind it
LEMMA NextPiece ==
  ASSUME NEW op \in {"split_char", "split_lines"}, NEW what \in Seq(StringChar),
         op = "split_char" => Len(what) = 1,
         NEW r \in Seq(StringChar), NEW i, NEW m, EndsAt(op, what, r, i, m)
  PROVE  /\ i = -1 => \A j \in DOMAIN r : r[j] # Separator(op, what)
         /\ i # -1 =>
              /\ i \in 0 .. Len(r) /\ m \in {1, 2} /\ i + m \in i .. Len(r)
              /\ \A j \in DOMAIN Strings!Cut(r, 0, i) : Strings!Cut(r, 0, i)[j] # Separator(op, what)
              /\ Between(op, what, Strings!Cut(r, i, i + m), Strings!Cut(r, 0, i))
<1> DEFINE T == IF op = "split_char" THEN {k \in 0 .. Len(r) - 1 : r[k + 1] = what[1]} ELSE LineEnds(r)
<1>1. IsFirst(T, -1, 0, i)
  BY FindCharIs, LineEndIs DEF EndsAt
<1>0. m = IF op = "split_lines" THEN IF r[i + 1] = ReturnChar THEN 2 ELSE 1 ELSE Len(what)
  BY DEF EndsAt
<1>2. Len(r) \in Nat /\ \A k \in T : k \in 0 .. Len(r) - 1
  BY DEF LineEnds
<1>3. ASSUME NEW k \in 0 .. Len(r) - 1, r[k + 1] = Separator(op, what) PROVE k \in T
  BY <1>3 DEF Separator, LineEnds
<1>4. ReturnChar # NewlineChar /\ NewlineChar \in StringChar /\ ReturnChar \in StringChar
  BY StringAssumption DEF Pieces!PiecesAssumption
<1> HIDE DEF T
<1>5. ASSUME i = -1 PROVE \A j \in DOMAIN r : r[j] # Separator(op, what)
  <2>1. \A k \in T : k < 0
    BY <1>1, <1>2, <1>5 DEF IsFirst
  <2>2. \A j \in DOMAIN r : j - 1 \in 0 .. Len(r) - 1 /\ (j - 1) + 1 = j
    BY <1>2
  <2>. QED BY <1>2, <1>3, <2>1, <2>2
<1>6. ASSUME i # -1
      PROVE  /\ i \in 0 .. Len(r) /\ m \in {1, 2} /\ i + m \in i .. Len(r)
             /\ \A j \in DOMAIN Strings!Cut(r, 0, i) : Strings!Cut(r, 0, i)[j] # Separator(op, what)
             /\ Between(op, what, Strings!Cut(r, i, i + m), Strings!Cut(r, 0, i))
  <2>1. i \in T /\ i \in 0 .. Len(r) - 1 /\ \A k \in T : i <= k
    BY <1>1, <1>2, <1>6 DEF IsFirst
  <2> DEFINE p == Strings!Cut(r, 0, i)  e == Strings!Cut(r, i, i + m)
  <2>2. p \in Seq(StringChar) /\ Len(p) = i /\ \A k \in 1 .. i : p[k] = r[k]
    <3>1. 0 \in 0 .. Len(r) /\ i \in 0 .. Len(r) /\ i - 0 = i /\ \A k \in 1 .. i : 0 + k = k
      BY <1>2, <2>1
    <3>2. p \in Seq(StringChar) /\ Len(p) = i - 0 /\ \A k \in 1 .. i - 0 : p[k] = r[0 + k]
      BY <3>1, CutIs
    <3> HIDE DEF p
    <3>. QED BY <3>1, <3>2
  <2>3. m \in {1, 2} /\ i + m <= Len(r)
    <3>1. CASE op = "split_char"
      BY <1>2, <1>0, <2>1, <3>1
    <3>2. CASE op = "split_lines"
      <4>1. r[i + 1] = ReturnChar => i + 1 < Len(r)
        BY <1>4, <2>1, <3>2 DEF T, LineEnds
      <4>2. m = IF r[i + 1] = ReturnChar THEN 2 ELSE 1
        BY <1>0, <3>2
      <4>. QED BY <1>2, <2>1, <4>1, <4>2
    <3>. QED BY <3>1, <3>2
  <2>4. i \in 0 .. Len(r) /\ i + m \in i .. Len(r) /\ (i + m) - i = m
    BY <1>2, <2>1, <2>3
  <2>5. e \in Seq(StringChar) /\ Len(e) = m /\ \A k \in 1 .. m : e[k] = r[i + k]
    <3> DEFINE j == i + m
    <3>1. i \in 0 .. Len(r) /\ j \in i .. Len(r) /\ j - i = m
      BY <2>4
    <3>2. e = Strings!Cut(r, i, j)
      OBVIOUS
    <3> HIDE DEF j, e
    <3>. QED BY <3>1, <3>2, CutIs
  <2> HIDE DEF p, e
  <2>6. ASSUME NEW j \in DOMAIN p PROVE p[j] # Separator(op, what)
    <3>1. j \in 1 .. i /\ j - 1 \in 0 .. Len(r) - 1 /\ (j - 1) + 1 = j /\ j - 1 < i
      BY <1>2, <2>1, <2>2
    <3>2. j - 1 \notin T
      BY <2>1, <3>1
    <3>3. r[j] # Separator(op, what)
      BY <1>3, <3>1, <3>2
    <3>. QED BY <2>2, <3>1, <3>3
  <2>7. ASSUME op = "split_char" PROVE e = what
    <3>1. m = 1 /\ r[i + 1] = what[1]
      BY <1>0, <2>1, <2>7 DEF T
    <3>2. Len(e) = Len(what) /\ \A k \in 1 .. Len(e) : e[k] = what[k]
      BY <2>5, <2>7, <3>1
    <3>. QED BY <2>5, <3>2, SameSequence
  <2>8. ASSUME op = "split_lines"
        PROVE  /\ e \in {<<NewlineChar>>, <<ReturnChar, NewlineChar>>}
               /\ e = <<NewlineChar>> /\ p # <<>> => p[Len(p)] # ReturnChar
    <3>1. i \in LineEnds(r)
      BY <2>1, <2>8 DEF T
    <3>2. CASE r[i + 1] = ReturnChar
      <4>1. m = 2 /\ r[i + 2] = NewlineChar
        BY <1>4, <1>0, <2>8, <3>1, <3>2 DEF LineEnds
      <4>2. e[1] = ReturnChar /\ e[2] = NewlineChar /\ Len(e) = 2
        BY <2>5, <3>2, <4>1
      <4>3. e = <<ReturnChar, NewlineChar>>
        BY <2>5, <4>2
      <4>. QED BY <1>4, <4>2, <4>3
    <3>3. CASE r[i + 1] # ReturnChar
      <4>1. m = 1 /\ r[i + 1] = NewlineChar
        BY <1>0, <2>8, <3>1, <3>3 DEF LineEnds
      <4>2. e[1] = NewlineChar /\ Len(e) = 1
        BY <2>5, <4>1
      <4>3. e = <<NewlineChar>>
        BY <2>5, <4>2
      <4>4. ASSUME p # <<>>, p[Len(p)] = ReturnChar PROVE FALSE
        <5>1. i > 0 /\ Len(p) = i /\ p[i] = r[i]
          BY <2>1, <2>2, <4>4
        <5>2. i - 1 \in 0 .. Len(r) - 1 /\ (i - 1) + 1 = i /\ (i - 1) + 2 = i + 1 /\ i < Len(r)
          BY <1>2, <2>1, <5>1
        <5>3. i - 1 \in LineEnds(r)
          BY <4>1, <4>4, <5>1, <5>2 DEF LineEnds
        <5>. QED BY <2>1, <2>8, <5>2, <5>3 DEF T
      <4>. QED BY <4>3, <4>4
    <3>. QED BY <3>2, <3>3
  <2>9. Between(op, what, e, p)
    BY <2>7, <2>8 DEF Between
  <2>. QED BY <2>3, <2>4, <2>6, <2>9 DEF p, e
<1>. QED BY <1>5, <1>6

\* A separator and the piece behind it come at the end.
LEMMA LedRound ==
  ASSUME NEW ps \in Seq(Seq(StringChar)), NEW ls \in Seq(Seq(StringChar)), Len(ls) > Len(ps),
         NEW p \in Seq(StringChar)
  PROVE  /\ Led(ps, ls) \in Seq(Seq(StringChar)) /\ ls[Len(ps) + 1] \in Seq(StringChar)
         /\ Led(Append(ps, p), ls) = Append(Led(ps, ls), ls[Len(ps) + 1] \o p)
         /\ \A e \in Seq(StringChar) : Led(ps, Append(ls, e)) = Led(ps, ls)
<1> DEFINE n == Len(ps)
<1>1. /\ n \in Nat /\ DOMAIN ps = 1 .. n /\ ls[n + 1] \in Seq(StringChar)
      /\ \A k \in 1 .. n : ps[k] \in Seq(StringChar) /\ ls[k] \in Seq(StringChar)
  OBVIOUS
<1>2. \A k \in 1 .. n : ls[k] \o ps[k] \in Seq(StringChar)
  BY <1>1, ConcatProperties
<1>3. Led(ps, ls) = [k \in 1 .. n |-> ls[k] \o ps[k]]
  BY <1>1 DEF Led
<1>4. Led(ps, ls) \in Seq(Seq(StringChar)) /\ Len(Led(ps, ls)) = n
  BY <1>1, <1>2, <1>3
<1>5. ls[n + 1] \o p \in Seq(StringChar)
  BY <1>1, ConcatProperties
<1>6. Led(Append(ps, p), ls) = Append(Led(ps, ls), ls[n + 1] \o p)
  <2> DEFINE qs == Append(ps, p)  u == Led(ps, ls)  v == ls[n + 1] \o p
  <2>1. DOMAIN qs = 1 .. n + 1 /\ qs[n + 1] = p /\ \A k \in 1 .. n : qs[k] = ps[k]
    BY <1>1
  <2>2. Led(qs, ls) = [k \in 1 .. n + 1 |-> ls[k] \o qs[k]]
    BY <2>1 DEF Led
  <2> HIDE DEF qs, n
  <2>3. \A k \in 1 .. n + 1 : ls[k] \o qs[k] = IF k = n + 1 THEN v ELSE u[k]
    <3>1. \A k \in 1 .. n + 1 : k = n + 1 \/ (k # n + 1 /\ k \in 1 .. n)
      BY <1>1
    <3>2. \A k \in 1 .. n : u[k] = ls[k] \o ps[k]
      BY <1>3
    <3> HIDE DEF u
    <3>. QED BY <2>1, <3>1, <3>2
  <2>4. Append(u, v) = [k \in 1 .. n + 1 |-> IF k = n + 1 THEN v ELSE u[k]]
    <3> DEFINE w == [k \in 1 .. n + 1 |-> IF k = n + 1 THEN v ELSE u[k]]
    <3>1. u \in Seq(Seq(StringChar)) /\ Len(u) = n /\ v \in Seq(StringChar)
      BY <1>4, <1>5
    <3> HIDE DEF u, v
    <3>2. \A k \in 1 .. n : u[k] \in Seq(StringChar)
      BY <3>1
    <3>3. \A k \in 1 .. n + 1 : (IF k = n + 1 THEN v ELSE u[k]) \in Seq(StringChar)
      BY <1>1, <3>1, <3>2
    <3>4. w \in Seq(Seq(StringChar)) /\ Len(w) = n + 1
      BY <1>1, <3>3
    <3>5. /\ Append(u, v) \in Seq(Seq(StringChar)) /\ Len(Append(u, v)) = n + 1
          /\ \A k \in 1 .. n + 1 : Append(u, v)[k] = IF k = n + 1 THEN v ELSE u[k]
      BY <1>1, <3>1
    <3>6. \A k \in 1 .. n + 1 : Append(u, v)[k] = w[k]
      BY <3>5
    <3> DEFINE x == Append(u, v)
    <3> HIDE DEF w, x
    <3>7. x \in Seq(Seq(StringChar)) /\ Len(x) = Len(w) /\ \A k \in 1 .. Len(x) : x[k] = w[k]
      BY <3>4, <3>5, <3>6 DEF x
    <3>8. x = w
      BY <3>4, <3>7, SameSequence
    <3>. QED BY <3>8 DEF x, w
  <2>5. [k \in 1 .. n + 1 |-> ls[k] \o qs[k]] = [k \in 1 .. n + 1 |-> IF k = n + 1 THEN v ELSE u[k]]
    <3> HIDE DEF u, v
    <3>. QED BY <2>3
  <2>. QED BY <2>2, <2>4, <2>5 DEF qs
<1>7. ASSUME NEW e \in Seq(StringChar) PROVE Led(ps, Append(ls, e)) = Led(ps, ls)
  <2> DEFINE ms == Append(ls, e)
  <2>1. \A k \in 1 .. n : ms[k] = ls[k]
    BY <1>1
  <2> HIDE DEF ms
  <2>2. [k \in 1 .. n |-> ms[k] \o ps[k]] = [k \in 1 .. n |-> ls[k] \o ps[k]]
    BY <2>1
  <2>3. Led(ps, ms) = [k \in 1 .. n |-> ms[k] \o ps[k]]
    BY <1>1 DEF Led
  <2>. QED BY <1>3, <2>2, <2>3 DEF ms
<1>. QED BY <1>1, <1>4, <1>6, <1>7

\* Pieces without separators in them stay so with one more piece.
LEMMA PartedGrows ==
  ASSUME NEW op, NEW what, NEW ps, NEW ls, Parted(op, what, ps, ls), Len(ls) = Len(ps) + 1,
         NEW p \in Seq(StringChar), \A j \in DOMAIN p : p[j] # Separator(op, what),
         NEW e \in Seq(StringChar), Between(op, what, e, p)
  PROVE  /\ Parted(op, what, Append(ps, p), ls) /\ Parted(op, what, Append(ps, p), Append(ls, e))
         /\ Append(ls, e)[Len(ls) + 1] = e
<1> DEFINE n == Len(ps)  qs == Append(ps, p)  ms == Append(ls, e)
<1>1. /\ n \in Nat /\ DOMAIN ps = 1 .. n /\ Len(ls) = n + 1
      /\ ps \in Seq(Seq(StringChar)) /\ ls \in Seq(Seq(StringChar))
  BY DEF Parted
<1>2. /\ qs \in Seq(Seq(StringChar)) /\ DOMAIN qs = 1 .. n + 1 /\ qs[n + 1] = p
      /\ \A k \in 1 .. n : qs[k] = ps[k]
  BY <1>1
<1>3. /\ ms \in Seq(Seq(StringChar)) /\ Len(ms) = n + 2 /\ ms[n + 2] = e
      /\ \A k \in 1 .. n + 1 : ms[k] = ls[k]
  BY <1>1
<1> HIDE DEF n, qs, ms
<1>4. \A k \in DOMAIN qs : \A j \in DOMAIN qs[k] : qs[k][j] # Separator(op, what)
  <2>1. \A k \in 1 .. n + 1 : k = n + 1 \/ k \in 1 .. n
    BY <1>1
  <2>2. \A k \in 1 .. n : \A j \in DOMAIN ps[k] : ps[k][j] # Separator(op, what)
    BY <1>1 DEF Parted
  <2>. QED BY <1>2, <2>1, <2>2
<1>5. \A k \in 2 .. n + 1 : Between(op, what, ls[k], qs[k - 1])
  <2>1. \A k \in 2 .. n + 1 : Between(op, what, ls[k], ps[k - 1])
    BY <1>1 DEF Parted
  <2>2. \A k \in 2 .. n + 1 : k - 1 \in 1 .. n
    BY <1>1
  <2>. QED BY <1>2, <2>1, <2>2
<1>6. \A k \in 2 .. n + 2 : Between(op, what, ms[k], qs[k - 1])
  <2>1. \A k \in 2 .. n + 2 : (k = n + 2 /\ k - 1 = n + 1) \/ (k \in 2 .. n + 1 /\ k \in 1 .. n + 1)
    BY <1>1
  <2>. QED BY <1>2, <1>3, <1>5, <2>1
<1>7. ls[1] = <<>> /\ ms[1] = <<>>
  <2>1. ls[1] = <<>>
    BY <1>1 DEF Parted
  <2>2. 1 \in 1 .. n + 1
    BY <1>1
  <2>. QED BY <1>3, <2>1, <2>2
<1>8. Parted(op, what, qs, ls)
  BY <1>1, <1>2, <1>4, <1>5, <1>7 DEF Parted
<1>9. Parted(op, what, qs, ms)
  BY <1>2, <1>3, <1>4, <1>6, <1>7 DEF Parted
<1>10. ms[Len(ls) + 1] = e
  <2>1. Len(ls) + 1 = n + 2
    BY <1>1
  <2>. QED BY <1>3, <2>1
<1>. QED BY <1>8, <1>9, <1>10 DEF qs, ms

\* A call that splits a string, under way
Splitting(ls) ==
  /\ Splits(call) /\ offset \in 0 .. Len(call.s) /\ ~chunk /\ blocks = Len(pieces) + 1
  /\ Parted(call.op, call.what, pieces, ls) /\ Len(ls) = Len(pieces) + 1
  /\ Pieces!Joined(Led(pieces, ls)) \o (ls[Len(ls)] \o Strings!From(call.s, offset)) = call.s

\* A call that splits starts with nothing but one empty separator.
LEMMA SplitStarts ==
  ASSUME Splits(call), offset = 0, ~chunk, blocks = 1, pieces = <<>>
  PROVE  Splitting(<< <<>> >>)
<1> DEFINE ls == << <<>> >>
<1>1. ls \in Seq(Seq(StringChar)) /\ Len(ls) = 1 /\ ls[1] = <<>>
  OBVIOUS
<1>2. pieces \in Seq(Seq(StringChar)) /\ Len(pieces) = 0 /\ DOMAIN pieces = {}
  OBVIOUS
<1>3. call.s \in Seq(StringChar) /\ Len(call.s) \in Nat
  BY DEF Splits
<1>4. Strings!From(call.s, 0) = call.s
  <2>1. 0 \in 0 .. Len(call.s)
    BY <1>3
  <2>2. /\ Strings!From(call.s, 0) \in Seq(StringChar) /\ Len(Strings!From(call.s, 0)) = Len(call.s) - 0
        /\ \A k \in 1 .. Len(call.s) - 0 : Strings!From(call.s, 0)[k] = call.s[0 + k]
    BY <1>3, <2>1, FromIs
  <2> DEFINE f == Strings!From(call.s, 0)  s == call.s
  <2> HIDE DEF f, s
  <2>3. f \in Seq(StringChar) /\ s \in Seq(StringChar) /\ Len(f) = Len(s) - 0 /\ \A k \in 1 .. Len(s) - 0 : f[k] = s[0 + k]
    BY <1>3, <2>2 DEF f, s
  <2>4. Len(f) = Len(s) /\ \A k \in 1 .. Len(f) : f[k] = s[k]
    BY <2>3
  <2>5. f = s
    BY <2>3, <2>4, SameSequence
  <2>. QED BY <2>5 DEF f, s
<1>5. Led(pieces, ls) = <<>>
  <2>1. Led(pieces, ls) = [k \in {} |-> ls[k] \o pieces[k]]
    BY <1>2 DEF Led
  <2>2. \A f, g : f = [k \in {} |-> f[k]] /\ g = [k \in {} |-> g[k]] => f = g
    OBVIOUS
  <2>. QED BY <2>1
<1>6. Pieces!Joined(<<>>) = <<>>
  <2>1. <<>> \in Seq(StringChar) /\ <<>> \in Seq(Seq(StringChar))
    OBVIOUS
  <2>. QED BY <2>1, JoinedRound
<1>7. <<>> \o (<<>> \o call.s) = call.s
  BY <1>3, ConcatEmptySeq
<1>8. \A k \in 2 .. Len(ls) : FALSE
  BY <1>1
<1> HIDE DEF ls
<1>9. Parted(call.op, call.what, pieces, ls)
  BY <1>1, <1>2, <1>8 DEF Parted
<1>10. 0 \in 0 .. Len(call.s) /\ Len(ls) = Len(pieces) + 1 /\ blocks = Len(pieces) + 1
  BY <1>1, <1>2, <1>3
<1>11. Pieces!Joined(Led(pieces, ls)) \o (ls[Len(ls)] \o Strings!From(call.s, offset)) = call.s
  BY <1>1, <1>4, <1>5, <1>6, <1>7
<1>. QED BY <1>9, <1>10, <1>11 DEF Splitting, ls

\* What begins at an index of what begins at an index
LEMMA FromFrom ==
  ASSUME NEW S, NEW s \in Seq(S), NEW i \in 0 .. Len(s), NEW k \in 0 .. Len(s) - i
  PROVE  /\ Strings!From(Strings!From(s, i), k) = Strings!From(s, i + k)
         /\ \A l \in k .. Len(s) - i : Strings!Cut(Strings!From(s, i), k, l) = Strings!Cut(s, i + k, i + l)
<1> DEFINE f == Strings!From(s, i)
<1>1. f \in Seq(S) /\ Len(f) = Len(s) - i /\ \A j \in 1 .. Len(s) - i : f[j] = s[i + j]
  BY FromIs
<1>2. i + k \in 0 .. Len(s) /\ k \in 0 .. Len(s) - i /\ Len(s) \in Nat
  OBVIOUS
<1> HIDE DEF f
<1>3. Strings!From(f, k) = Strings!From(s, i + k)
  <2> DEFINE g == Strings!From(f, k)  n == i + k
  <2>1. n \in 0 .. Len(s)
    BY <1>2
  <2> HIDE DEF n
  <2> DEFINE h == Strings!From(s, n)
  <2>2. g \in Seq(S) /\ Len(g) = (Len(s) - i) - k /\ \A j \in 1 .. (Len(s) - i) - k : g[j] = f[k + j]
    <3>1. f \in Seq(S) /\ k \in 0 .. Len(f)
      BY <1>1, <1>2
    <3>2. g \in Seq(S) /\ Len(g) = Len(f) - k /\ \A j \in 1 .. Len(f) - k : g[j] = f[k + j]
      BY ONLY <3>1, FromIs
    <3> HIDE DEF g
    <3>. QED BY <1>1, <3>2
  <2>3. h \in Seq(S) /\ Len(h) = Len(s) - n /\ \A j \in 1 .. Len(s) - n : h[j] = s[n + j]
    BY <2>1, FromIs
  <2> HIDE DEF g, h
  <2>4. (Len(s) - i) - k = Len(s) - n
    BY <1>2 DEF n
  <2>5. ASSUME NEW j \in 1 .. Len(s) - n PROVE g[j] = h[j]
    <3>1. j \in 1 .. (Len(s) - i) - k /\ k + j \in 1 .. Len(s) - i /\ i + (k + j) = n + j
      BY <1>2 DEF n
    <3>. QED BY <1>1, <2>2, <2>3, <3>1
  <2>6. g = h
    BY <2>2, <2>3, <2>4, <2>5, SameSequence
  <2>. QED BY <2>6 DEF g, h, n
<1>4. ASSUME NEW l \in k .. Len(s) - i PROVE Strings!Cut(f, k, l) = Strings!Cut(s, i + k, i + l)
  <2> DEFINE g == Strings!Cut(f, k, l)  n == i + k  m == i + l
  <2>1. n \in 0 .. Len(s) /\ m \in n .. Len(s) /\ l \in k .. Len(f) /\ k \in 0 .. Len(f)
    BY <1>1, <1>2
  <2> HIDE DEF n, m
  <2> DEFINE h == Strings!Cut(s, n, m)
  <2>2. g \in Seq(S) /\ Len(g) = l - k /\ \A j \in 1 .. l - k : g[j] = f[k + j]
    <3>1. f \in Seq(S) /\ k \in 0 .. Len(f) /\ l \in k .. Len(f)
      BY <1>1, <2>1
    <3>. QED BY ONLY <3>1, CutIs
  <2>3. h \in Seq(S) /\ Len(h) = m - n /\ \A j \in 1 .. m - n : h[j] = s[n + j]
    BY <2>1, CutIs
  <2> HIDE DEF g, h
  <2>4. l - k = m - n
    BY <1>2 DEF n, m
  <2>5. ASSUME NEW j \in 1 .. m - n PROVE g[j] = h[j]
    <3>1. j \in 1 .. l - k /\ k + j \in 1 .. Len(s) - i /\ i + (k + j) = n + j
      BY <1>2, <2>4 DEF n
    <3>. QED BY <1>1, <2>2, <2>3, <3>1
  <2>6. g = h
    BY <2>2, <2>3, <2>4, <2>5, SameSequence
  <2>. QED BY <2>6 DEF g, h, n, m
<1>. QED BY <1>3, <1>4 DEF f

\* The next piece of a split
LEMMA SplitTakes ==
  ASSUME NEW ls, Splitting(ls), NEW i, NEW m,
         EndsAt(call.op, call.what, Strings!From(call.s, offset), i, m), i # -1,
         pieces' = Append(pieces, Strings!Cut(Strings!From(call.s, offset), 0, i)),
         blocks' = blocks + 1, offset' = offset + i + m, UNCHANGED <<call, chunk>>
  PROVE  \E ms : Splitting(ms)'
<1> DEFINE s == call.s  r == Strings!From(s, offset)
           p == Strings!Cut(r, 0, i)  e == Strings!Cut(r, i, i + m)
           n == Len(pieces)  j == Pieces!Joined(Led(pieces, ls))
<1>1. /\ s \in Seq(StringChar) /\ offset \in 0 .. Len(s) /\ Len(s) \in Nat
      /\ Parted(call.op, call.what, pieces, ls) /\ Len(ls) = n + 1 /\ n \in Nat
      /\ pieces \in Seq(Seq(StringChar)) /\ ls \in Seq(Seq(StringChar))
      /\ call.op \in {"split_char", "split_lines"} /\ call.what \in Seq(StringChar)
      /\ call.op = "split_char" => Len(call.what) = 1
      /\ j \o (ls[n + 1] \o r) = s
  BY DEF Splitting, Splits, Parted
<1>2. r \in Seq(StringChar) /\ Len(r) = Len(s) - offset
  BY <1>1, FromIs
<1>3. /\ i \in 0 .. Len(r) /\ m \in {1, 2} /\ i + m \in i .. Len(r)
      /\ \A k \in DOMAIN p : p[k] # Separator(call.op, call.what)
      /\ Between(call.op, call.what, e, p)
  <2> HIDE DEF r
  <2>1. EndsAt(call.op, call.what, r, i, m)
    BY DEF r
  <2>. QED BY <1>1, <1>2, <2>1, NextPiece
<1>4. /\ r = p \o (e \o Strings!From(r, i + m))
      /\ p \in Seq(StringChar) /\ e \in Seq(StringChar) /\ Strings!From(r, i + m) \in Seq(StringChar)
  <2> DEFINE k == i + m
  <2>1. k \in i .. Len(r)
    BY <1>3
  <2> HIDE DEF k, r
  <2>2. /\ r = Strings!Cut(r, 0, i) \o (Strings!Cut(r, i, k) \o Strings!From(r, k))
        /\ Strings!Cut(r, 0, i) \in Seq(StringChar) /\ Strings!Cut(r, i, k) \in Seq(StringChar)
        /\ Strings!From(r, k) \in Seq(StringChar)
    BY <1>2, <1>3, <2>1, TakenApart
  <2>. QED BY <2>2 DEF k
<1>5. Strings!From(r, i + m) = Strings!From(s, offset') /\ offset' \in 0 .. Len(s)
  <2> DEFINE k == i + m
  <2>1. k \in 0 .. Len(s) - offset
    BY <1>1, <1>2, <1>3
  <2>2. offset' = offset + k /\ offset' \in 0 .. Len(s)
    BY <1>1, <1>2, <1>3
  <2> HIDE DEF k, s
  <2>3. Strings!From(Strings!From(s, offset), k) = Strings!From(s, offset + k)
    BY <1>1, <2>1, FromFrom
  <2>. QED BY <2>2, <2>3 DEF k
<1> PICK ms : ms = Append(ls, e)
  OBVIOUS
<1> HIDE DEF r, p, e, j
<1>6. /\ Parted(call.op, call.what, Append(pieces, p), ms) /\ ms[n + 2] = e /\ Len(ms) = n + 2
  <2> DEFINE op == call.op  what == call.what
  <2> HIDE DEF op, what
  <2>1. /\ Parted(op, what, pieces, ls) /\ Len(ls) = Len(pieces) + 1
        /\ p \in Seq(StringChar) /\ e \in Seq(StringChar)
        /\ \A k \in DOMAIN p : p[k] # Separator(op, what)
        /\ Between(op, what, e, p)
    BY <1>1, <1>3, <1>4 DEF op, what
  <2>2. Parted(op, what, Append(pieces, p), Append(ls, e)) /\ Append(ls, e)[Len(ls) + 1] = e
    BY ONLY <2>1, PartedGrows
  <2>3. Len(Append(ls, e)) = n + 2 /\ Len(ls) + 1 = n + 2
    BY <1>1, <1>4
  <2>. QED BY <2>2, <2>3 DEF op, what
<1>7. Pieces!Joined(Led(Append(pieces, p), ms)) = j \o (ls[n + 1] \o p) /\ j \in Seq(StringChar) /\ ls[n + 1] \in Seq(StringChar)
  <2>1. /\ ms \in Seq(Seq(StringChar)) /\ Len(ms) > n /\ Len(ls) > n /\ ms[n + 1] = ls[n + 1]
    BY <1>1, <1>4, <1>6
  <2>2. /\ Led(pieces, ms) = Led(pieces, ls) /\ ls[n + 1] \in Seq(StringChar)
        /\ Led(pieces, ls) \in Seq(Seq(StringChar))
    BY <1>1, <1>4, <2>1, LedRound
  <2>3. Led(Append(pieces, p), ms) = Append(Led(pieces, ms), ms[n + 1] \o p)
    BY <1>1, <1>4, <2>1, LedRound
  <2>4. ls[n + 1] \o p \in Seq(StringChar)
    BY <1>4, <2>2, ConcatProperties
  <2>5. /\ Pieces!Joined(Append(Led(pieces, ls), ls[n + 1] \o p)) = Pieces!Joined(Led(pieces, ls)) \o (ls[n + 1] \o p)
        /\ Pieces!Joined(Led(pieces, ls)) \in Seq(StringChar)
    BY <2>2, <2>4, JoinedRound
  <2>. QED BY <2>1, <2>2, <2>3, <2>5 DEF j
<1>8. Pieces!Joined(Led(Append(pieces, p), ms)) \o (ms[n + 2] \o Strings!From(s, offset')) = s
  <2> DEFINE y == e \o Strings!From(s, offset')
  <2>1. y \in Seq(StringChar) /\ r = p \o y
    BY <1>4, <1>5, ConcatProperties
  <2> HIDE DEF y
  <2> DEFINE l == ls[n + 1]
  <2>0. l \in Seq(StringChar)
    BY <1>7
  <2> HIDE DEF l
  <2>b. (j \o (l \o p)) \o y = j \o (l \o (p \o y))
    <3>1. p \in Seq(StringChar) /\ j \in Seq(StringChar)
      BY <1>4, <1>7
    <3>2. l \o p \in Seq(StringChar) /\ p \o y \in Seq(StringChar)
      BY <2>1, <2>0, <3>1, ConcatProperties
    <3>0. \A f, g, h \in Seq(StringChar) : (f \o g) \o h = f \o (g \o h)
      BY ONLY ConcatAssociative
    <3>3. (j \o (l \o p)) \o y = j \o ((l \o p) \o y)
      BY ONLY <2>1, <3>1, <3>2, <3>0, Zenon
    <3>4. (l \o p) \o y = l \o (p \o y)
      BY ONLY <2>1, <2>0, <3>1, <3>0, Zenon
    <3>. QED BY <3>3, <3>4
  <2>2. (j \o (ls[n + 1] \o p)) \o y = j \o (ls[n + 1] \o (p \o y))
    BY <2>b DEF l
  <2>3. (j \o (ls[n + 1] \o p)) \o y = s
    BY <1>1, <2>1, <2>2
  <2>. QED BY <1>6, <1>7, <2>3 DEF y
<1>9. pieces' = Append(pieces, p) /\ Len(pieces') = n + 1 /\ Len(ms) = Len(pieces') + 1 /\ call' = call /\ chunk' = chunk
  BY <1>1, <1>6 DEF p, r
<1>10. Parted(call'.op, call'.what, pieces', ms) /\ Splits(call') /\ offset' \in 0 .. Len(call'.s)
       /\ ~chunk' /\ blocks' = Len(pieces') + 1
  BY <1>1, <1>5, <1>6, <1>9 DEF Splitting
<1>11. Pieces!Joined(Led(pieces', ms)) \o (ms[Len(ms)] \o Strings!From(call'.s, offset')) = call'.s
  BY <1>6, <1>8, <1>9
<1>12. Splitting(ms)'
  BY <1>9, <1>10, <1>11 DEF Splitting
<1>. QED BY <1>12

\* The last piece of a split
LEMMA SplitEnds ==
  ASSUME NEW ls, Splitting(ls), NEW m,
         EndsAt(call.op, call.what, Strings!From(call.s, offset), -1, m),
         pieces' = Append(pieces, Strings!From(call.s, offset)), blocks' = blocks + 1, UNCHANGED call
  PROVE  Pieces!SplitsApart'
<1> DEFINE s == call.s  r == Strings!From(s, offset)  ps == Append(pieces, r)  n == Len(pieces)
           op == call.op  what == call.what
<1>1. /\ s \in Seq(StringChar) /\ offset \in 0 .. Len(s)
      /\ Parted(op, what, pieces, ls) /\ Len(ls) = n + 1 /\ n \in Nat
      /\ pieces \in Seq(Seq(StringChar)) /\ ls \in Seq(Seq(StringChar))
      /\ op \in {"split_char", "split_lines"} /\ what \in Seq(StringChar)
      /\ op = "split_char" => Len(what) = 1
      /\ Pieces!Joined(Led(pieces, ls)) \o (ls[n + 1] \o r) = s /\ blocks = n + 1
  BY DEF Splitting, Splits, Parted
<1>2. r \in Seq(StringChar)
  BY <1>1, FromIs
<1>3. \A k \in DOMAIN r : r[k] # Separator(op, what)
  <2> HIDE DEF r, op, what
  <2>1. EndsAt(op, what, r, -1, m)
    BY DEF r, op, what
  <2> DEFINE i == -1
  <2>2. EndsAt(op, what, r, i, m) /\ i = -1
    BY <2>1
  <2> HIDE DEF i
  <2>. QED BY <1>1, <1>2, <2>2, NextPiece
<1>4. pieces' = ps /\ call' = call /\ DOMAIN ps = 1 .. n + 1 /\ Len(ps) = n + 1 /\ blocks' = Len(ps) + 1
  BY <1>1
<1> HIDE DEF r
<1>5. Parted(op, what, ps, ls)
  <2>1. ASSUME NEW e \in Seq(StringChar), Between(op, what, e, r) PROVE Parted(op, what, ps, ls)
    <3> HIDE DEF op, what
    <3>1. Parted(op, what, Append(pieces, r), ls)
      BY <1>1, <1>2, <1>3, <2>1, PartedGrows
    <3>. QED BY <3>1
  <2>2. \E e \in Seq(StringChar) : Between(op, what, e, r)
    <3>1. CASE op = "split_char"
      BY <1>1, <3>1 DEF Between
    <3>2. CASE op = "split_lines"
      <4>1. <<ReturnChar, NewlineChar>> \in Seq(StringChar) /\ <<ReturnChar, NewlineChar>> # <<NewlineChar>>
        BY StringAssumption DEF Pieces!PiecesAssumption
      <4>. QED BY <3>2, <4>1 DEF Between
    <3>. QED BY <1>1, <3>1, <3>2
  <2>. QED BY <2>1, <2>2
<1>6. Pieces!Joined(Led(ps, ls)) = s
  <2>0. Len(ls) > Len(pieces)
    BY <1>1
  <2>1. /\ Led(ps, ls) = Append(Led(pieces, ls), ls[n + 1] \o r) /\ ls[n + 1] \in Seq(StringChar)
        /\ Led(pieces, ls) \in Seq(Seq(StringChar))
    BY <1>1, <1>2, <2>0, LedRound
  <2>2. ls[n + 1] \o r \in Seq(StringChar)
    BY <1>2, <2>1, ConcatProperties
  <2>3. Pieces!Joined(Append(Led(pieces, ls), ls[n + 1] \o r)) = Pieces!Joined(Led(pieces, ls)) \o (ls[n + 1] \o r)
    BY <2>1, <2>2, JoinedRound
  <2>. QED BY <1>1, <2>1, <2>3
<1> HIDE DEF ps
<1>7. /\ ps \in Seq(Seq(StringChar)) /\ ls[1] = <<>>
      /\ \A k \in 2 .. n + 1 : Between(op, what, ls[k], ps[k - 1])
      /\ \A k \in 1 .. n + 1 : \A j \in DOMAIN ps[k] : ps[k][j] # Separator(op, what)
  <2>1. Len(ls) > 0 /\ Len(ls) = n + 1
    BY <1>1
  <2> HIDE DEF op, what, n
  <2>. QED BY <1>4, <1>5, <2>1 DEF Parted
<1>8. Led(ps, ls) = [k \in 1 .. n + 1 |-> ls[k] \o ps[k]]
  BY <1>4 DEF Led
<1>9. \A k \in 1 .. n + 1 : ps[k] \in Seq(StringChar) /\ (k = 1 \/ (k > 1 /\ k \in 2 .. n + 1))
  BY <1>1, <1>4, <1>7
<1>10. ls[1] \o ps[1] = ps[1]
  <2>1. ps[1] \in Seq(StringChar)
    BY <1>1, <1>9
  <2>. QED BY <1>7, <2>1, ConcatEmptySeq
<1>11. ASSUME op = "split_char"
       PROVE  /\ \A k \in DOMAIN ps : \A j \in DOMAIN ps[k] : ps[k][j] # what[1]
              /\ Pieces!Joined([k \in DOMAIN ps |-> IF k = 1 THEN ps[k] ELSE what \o ps[k]]) = s
  <2>1. \A k \in 1 .. n + 1 : ls[k] \o ps[k] = IF k = 1 THEN ps[k] ELSE what \o ps[k]
    BY <1>7, <1>9, <1>10, <1>11 DEF Between
  <2>2. [k \in 1 .. n + 1 |-> ls[k] \o ps[k]] = [k \in 1 .. n + 1 |-> IF k = 1 THEN ps[k] ELSE what \o ps[k]]
    BY <2>1
  <2>. QED BY <1>4, <1>6, <1>7, <1>8, <1>11, <2>2 DEF Separator
<1>12. ASSUME op = "split_lines"
       PROVE  /\ \A k \in DOMAIN ps : \A j \in DOMAIN ps[k] : ps[k][j] # NewlineChar
              /\ \E ends \in [DOMAIN ps -> {<<NewlineChar>>, <<ReturnChar, NewlineChar>>}] :
                   /\ Pieces!Joined([k \in DOMAIN ps |-> IF k = 1 THEN ps[k] ELSE ends[k] \o ps[k]]) = s
                   /\ \A k \in DOMAIN ps : k > 1 /\ ends[k] = <<NewlineChar>> /\ ps[k - 1] # <<>>
                                            => ps[k - 1][Len(ps[k - 1])] # ReturnChar
  <2> DEFINE ends == [k \in 1 .. n + 1 |-> IF k = 1 THEN <<NewlineChar>> ELSE ls[k]]
  <2>1. \A k \in 2 .. n + 1 : /\ ls[k] \in {<<NewlineChar>>, <<ReturnChar, NewlineChar>>}
                              /\ ls[k] = <<NewlineChar>> /\ ps[k - 1] # <<>> => ps[k - 1][Len(ps[k - 1])] # ReturnChar
    BY <1>7, <1>12 DEF Between
  <2>2. \A k \in 1 .. n + 1 : (IF k = 1 THEN <<NewlineChar>> ELSE ls[k]) \in {<<NewlineChar>>, <<ReturnChar, NewlineChar>>}
    BY <1>9, <2>1
  <2>3. ends \in [1 .. n + 1 -> {<<NewlineChar>>, <<ReturnChar, NewlineChar>>}] /\ \A k \in 1 .. n + 1 : k > 1 => ends[k] = ls[k]
    BY <2>2
  <2> HIDE DEF ends
  <2>4. \A k \in 1 .. n + 1 : ls[k] \o ps[k] = IF k = 1 THEN ps[k] ELSE ends[k] \o ps[k]
    BY <1>9, <1>10, <2>3
  <2>5. [k \in 1 .. n + 1 |-> ls[k] \o ps[k]] = [k \in 1 .. n + 1 |-> IF k = 1 THEN ps[k] ELSE ends[k] \o ps[k]]
    BY <2>4
  <2>6. Pieces!Joined([k \in DOMAIN ps |-> IF k = 1 THEN ps[k] ELSE ends[k] \o ps[k]]) = s
    BY <1>4, <1>6, <1>8, <2>5
  <2>7. \A k \in DOMAIN ps : k > 1 /\ ends[k] = <<NewlineChar>> /\ ps[k - 1] # <<>>
                                            => ps[k - 1][Len(ps[k - 1])] # ReturnChar
    BY <1>4, <1>9, <2>1, <2>3
  <2>8. \A k \in DOMAIN ps : \A j \in DOMAIN ps[k] : ps[k][j] # NewlineChar
    BY <1>4, <1>7, <1>12 DEF Separator
  <2>9. ends \in [DOMAIN ps -> {<<NewlineChar>>, <<ReturnChar, NewlineChar>>}]
    BY <1>4, <2>3
  <2>. QED BY <2>6, <2>7, <2>8, <2>9
<1>13. op = call'.op /\ what = call'.what /\ s = call'.s
  BY <1>4
<1> HIDE DEF op, what, s
<1>. QED BY <1>4, <1>11, <1>12, <1>13 DEF Pieces!SplitsApart

-----------------------------------------------------------------------------
(* Occurrences *)

\* A chosen set of places is the first ones that do not overlap, up to index m.
Chosen(s, w, P, m) ==
  /\ P \in SUBSET Pieces!Occurs(s, w)
  /\ \A i, j \in P : i < j => i + Len(w) <= j
  /\ \A i \in P : i + Len(w) <= m
  /\ \A i \in Pieces!Occurs(s, w) : i < m => \E j \in P : j <= i /\ i < j + Len(w)

\* Where a string occurs is where it is found, and an empty one is found nowhere.
LEMMA OccursIs ==
  ASSUME NEW S, NEW s \in Seq(S), NEW w \in Seq(S)
  PROVE  /\ w # <<>> => Pieces!Occurs(s, w) = Places(s, w)
         /\ w = <<>> => Pieces!Occurs(s, w) = {}
         /\ \A i \in Pieces!Occurs(s, w) : i \in 0 .. Len(s) - 1 /\ i + Len(w) <= Len(s) /\ Len(w) > 0
<1>1. w = <<>> => Pieces!Occurs(s, w) = {}
  BY DEF Pieces!Occurs
<1>2. ASSUME w # <<>> PROVE Pieces!Occurs(s, w) = Places(s, w)
  <2>1. Len(w) \in Nat /\ Len(w) > 0 /\ Len(s) \in Nat
    BY <1>2
  <2>2. ASSUME NEW i \in 0 .. Len(s) - 1
        PROVE  Leads(Strings!From(s, i), w) <=> i \in 0 .. Len(s) - Len(w) /\ Pieces!Cut(s, i, i + Len(w)) = w
    <3> DEFINE f == Strings!From(s, i)  m == i + Len(w)  c == Strings!Cut(s, i, m)
    <3>1. f \in Seq(S) /\ Len(f) = Len(s) - i /\ \A k \in 1 .. Len(s) - i : f[k] = s[i + k]
      <4>1. i \in 0 .. Len(s)
        BY <2>1
      <4>. QED BY <4>1, FromIs
    <3> HIDE DEF f
    <3>2. ASSUME Len(w) <= Len(s) - i
          PROVE  (\A k \in 1 .. Len(w) : f[k] = w[k]) <=> c = w
      <4>1. m \in i .. Len(s) /\ i \in 0 .. Len(s) /\ m - i = Len(w)
        BY <2>1, <3>2
      <4> HIDE DEF m
      <4>2. c \in Seq(S) /\ Len(c) = m - i /\ \A k \in 1 .. m - i : c[k] = s[i + k]
        BY <4>1, CutIs
      <4> HIDE DEF c
      <4>3. \A k \in 1 .. Len(w) : k \in 1 .. Len(s) - i /\ f[k] = c[k]
        <5>1. \A k \in 1 .. Len(w) : k \in 1 .. Len(s) - i
          BY <2>1, <3>2
        <5>2. \A k \in 1 .. Len(w) : k \in 1 .. m - i
          BY <4>1
        <5>. QED BY <3>1, <4>2, <5>1, <5>2
      <4>4. c \in Seq(S) /\ Len(c) = Len(w)
        BY <4>1, <4>2
      <4>5. (\A k \in 1 .. Len(c) : c[k] = w[k]) => c = w
        BY <4>4, SameSequence
      <4>. QED BY <4>3, <4>4, <4>5
    <3>3. Leads(f, w) <=> Len(w) <= Len(s) - i /\ c = w
      BY <3>1, <3>2 DEF Leads
    <3>4. Pieces!Cut(s, i, i + Len(w)) = c
      BY SameSearches
    <3>5. i \in 0 .. Len(s) - Len(w) <=> Len(w) <= Len(s) - i
      BY <2>1
    <3>. QED BY <3>3, <3>4, <3>5 DEF f
  <2>3. \A i \in 0 .. Len(s) - Len(w) : i \in 0 .. Len(s) - 1
    BY <2>1
  <2>. QED BY <1>2, <2>2, <2>3 DEF Pieces!Occurs, Places
<1>3. ASSUME NEW i \in Pieces!Occurs(s, w) PROVE i \in 0 .. Len(s) - 1 /\ i + Len(w) <= Len(s) /\ Len(w) > 0
  <2>1. i \in 0 .. Len(s) - Len(w) /\ w # <<>> /\ Len(w) \in Nat /\ Len(s) \in Nat
    BY DEF Pieces!Occurs
  <2>2. Len(w) > 0
    BY <2>1
  <2>. QED BY <2>1, <2>2
<1>. QED BY <1>1, <1>2, <1>3

\* There is one such set for the whole string.
LEMMA LeftmostIs ==
  ASSUME NEW S, NEW s \in Seq(S), NEW w \in Seq(S), NEW P, NEW m, Chosen(s, w, P, m),
         \A i \in Pieces!Occurs(s, w) : i < m
  PROVE  Pieces!Leftmost(s, w) = P
<1> DEFINE O == Pieces!Occurs(s, w)  l == Len(w)
           Fits2(Q) == /\ \A i, j \in Q : i < j => i + Len(w) <= j
                       /\ \A i \in O : \E j \in Q : j <= i /\ i < j + Len(w)
<1>1. \A i \in O : i \in Nat /\ i \in 0 .. Len(s)
  BY OccursIs
<1>2. Fits2(P) /\ P \in SUBSET O
  BY DEF Chosen
<1>3. l \in Nat /\ Len(s) \in Nat
  OBVIOUS
<1>4. ASSUME NEW Q \in SUBSET O, Fits2(Q) PROVE Q = P
  <2> DEFINE T == {k \in 0 .. Len(s) : \A i \in 0 .. k : i \in P <=> i \in Q}
  <2>0. ASSUME NEW i \in 0 .. Len(s), \A j \in 0 .. i - 1 : j \in P <=> j \in Q PROVE i \in P <=> i \in Q
    <3> HIDE DEF O, l
    <3>1. ASSUME i \in P, i \notin Q PROVE FALSE
      <4>1. PICK j \in Q : j <= i /\ i < j + l
        BY <1>2, <1>4, <3>1 DEF l
      <4>2. j \in Nat /\ j # i
        BY <1>1, <3>1, <4>1
      <4>3. j \in 0 .. i - 1 /\ j < i
        BY <4>1, <4>2
      <4>4. j \in P
        BY <2>0, <4>1, <4>3
      <4>5. j + l <= i
        BY <1>2, <3>1, <4>3, <4>4 DEF l
      <4>. QED BY <1>3, <4>1, <4>2, <4>5
    <3>2. ASSUME i \in Q, i \notin P PROVE FALSE
      <4>1. PICK j \in P : j <= i /\ i < j + l
        BY <1>2, <1>4, <3>2 DEF l
      <4>2. j \in Nat /\ j # i
        BY <1>1, <1>2, <3>2, <4>1
      <4>3. j \in 0 .. i - 1 /\ j < i
        BY <4>1, <4>2
      <4>4. j \in Q
        BY <2>0, <4>1, <4>3
      <4>5. j + l <= i
        BY <1>4, <3>2, <4>3, <4>4 DEF l
      <4>. QED BY <1>3, <4>1, <4>2, <4>5
    <3>. QED BY <3>1, <3>2
  <2>1. 0 \in T
    <3>1. 0 .. 0 = {0} /\ 0 .. 0 - 1 = {} /\ 0 \in 0 .. Len(s)
      BY <1>3
    <3>2. 0 \in P <=> 0 \in Q
      BY <2>0, <3>1
    <3>. QED BY <3>1, <3>2
  <2>2. ASSUME NEW k \in 0 .. Len(s) - 1, k \in T PROVE k + 1 \in T
    <3>1. k + 1 \in 0 .. Len(s) /\ \A i \in 0 .. k + 1 : i = k + 1 \/ i \in 0 .. k
      BY <1>3
    <3>2. \A i \in 0 .. k : i \in P <=> i \in Q
      BY <2>2
    <3>3. \A i \in 0 .. (k + 1) - 1 : i \in 0 .. k
      OBVIOUS
    <3>4. k + 1 \in P <=> k + 1 \in Q
      BY <2>0, <3>1, <3>2, <3>3
    <3>. QED BY <3>1, <3>2, <3>4
  <2> HIDE DEF T
  <2>3. 0 .. Len(s) \subseteq T
    BY <1>3, <2>1, <2>2, InductionUpTo
  <2>4. \A i \in 0 .. Len(s) : i \in P <=> i \in Q
    <3>1. \A i \in 0 .. Len(s) : i \in 0 .. i
      OBVIOUS
    <3>. QED BY <2>3, <3>1 DEF T
  <2>. QED BY <1>1, <1>2, <1>4, <2>4
<1>5. Pieces!Leftmost(s, w) = CHOOSE Q \in SUBSET O : Fits2(Q)
  BY DEF Pieces!Leftmost
<1> HIDE DEF Fits2, O
<1>6. (CHOOSE Q \in SUBSET O : Fits2(Q)) = P
  BY <1>2, <1>4
<1>. QED BY <1>5, <1>6

-----------------------------------------------------------------------------
(* The first strings of a sequence, joined *)

\* What the first m strings of ps make
Upto(S, ps, m) == (CHOOSE j : IsJoins(S, ps, j))[m]

\* One more string at a time
LEMMA UptoRound ==
  ASSUME NEW S, NEW ps \in Seq(Seq(S))
  PROVE  /\ Upto(S, ps, 0) = <<>> /\ Pieces!Joined(ps) = Upto(S, ps, Len(ps))
         /\ \A m \in 0 .. Len(ps) : Upto(S, ps, m) \in Seq(S)
         /\ \A m \in 1 .. Len(ps) : Upto(S, ps, m) = Upto(S, ps, m - 1) \o ps[m]
<1> DEFINE j == CHOOSE i : IsJoins(S, ps, i)
<1>1. IsJoins(S, ps, j)
  BY JoinsExist
<1>2. \A m : Upto(S, ps, m) = j[m]
  BY DEF Upto
<1> HIDE DEF j
<1>3. Pieces!Joined(ps) = j[Len(ps)]
  BY <1>1, JoinedIs
<1>. QED BY <1>1, <1>2, <1>3 DEF IsJoins

\* The first strings alone decide.
LEMMA UptoAgrees ==
  ASSUME NEW S, NEW ps \in Seq(Seq(S)), NEW qs \in Seq(Seq(S)), Len(ps) = Len(qs),
         NEW m \in 0 .. Len(ps), \A k \in 1 .. m : ps[k] = qs[k]
  PROVE  Upto(S, ps, m) = Upto(S, qs, m)
<1> DEFINE T == {k \in 0 .. m : Upto(S, ps, k) = Upto(S, qs, k)}
<1>1. m \in Nat /\ \A k \in 1 .. m : k \in 1 .. Len(ps) /\ k \in 1 .. Len(qs)
  OBVIOUS
<1>2. 0 \in T
  <2>1. Upto(S, ps, 0) = <<>>
    BY UptoRound
  <2>2. Upto(S, qs, 0) = <<>>
    BY UptoRound
  <2>. QED BY <1>1, <2>1, <2>2
<1>3. ASSUME NEW k \in 0 .. m - 1, k \in T PROVE k + 1 \in T
  <2>1. k + 1 \in 1 .. m /\ k + 1 \in 0 .. m /\ (k + 1) - 1 = k
    BY <1>1
  <2>2. Upto(S, ps, k + 1) = Upto(S, ps, k) \o ps[k + 1] /\ Upto(S, qs, k + 1) = Upto(S, qs, k) \o qs[k + 1]
    BY <1>1, <2>1, UptoRound
  <2>. QED BY <1>3, <2>1, <2>2
<1> HIDE DEF T
<1>4. 0 .. m \subseteq T
  BY <1>1, <1>2, <1>3, InductionUpTo
<1>. QED BY <1>1, <1>4 DEF T

LEMMA Associates ==
  ASSUME NEW S, NEW f \in Seq(S), NEW g \in Seq(S), NEW h \in Seq(S)
  PROVE  (f \o g) \o h = f \o (g \o h)
BY ConcatAssociative, SMT

\* One more character of a string
LEMMA CutGrows ==
  ASSUME NEW S, NEW s \in Seq(S), NEW i \in 0 .. Len(s), NEW j \in i .. Len(s) - 1
  PROVE  Strings!Cut(s, i, j + 1) = Strings!Cut(s, i, j) \o <<s[j + 1]>>
<1> DEFINE u == Strings!Cut(s, i, j)  v == Strings!Cut(s, i, j + 1)  c == s[j + 1]
<1>1. j \in i .. Len(s) /\ j + 1 \in i .. Len(s) /\ c \in S /\ (j + 1) - i = (j - i) + 1 /\ j - i \in Nat
  OBVIOUS
<1>2. u \in Seq(S) /\ Len(u) = j - i /\ \A k \in 1 .. j - i : u[k] = s[i + k]
  BY <1>1, CutIs
<1>3. v \in Seq(S) /\ Len(v) = (j - i) + 1 /\ \A k \in 1 .. (j - i) + 1 : v[k] = s[i + k]
  <2> DEFINE m == j + 1
  <2>1. m \in i .. Len(s) /\ m - i = (j - i) + 1
    BY <1>1
  <2> HIDE DEF m
  <2>2. Strings!Cut(s, i, m) \in Seq(S) /\ Len(Strings!Cut(s, i, m)) = m - i
        /\ \A k \in 1 .. m - i : Strings!Cut(s, i, m)[k] = s[i + k]
    BY <2>1, CutIs
  <2>. QED BY <2>1, <2>2 DEF m
<1>4. i + ((j - i) + 1) = j + 1
  BY <1>1
<1> HIDE DEF u, v
<1> DEFINE t == u \o <<c>>
<1>5. t \in Seq(S) /\ Len(t) = (j - i) + 1 /\ \A k \in 1 .. (j - i) + 1 : t[k] = IF k <= j - i THEN u[k] ELSE c
  BY <1>1, <1>2
<1> HIDE DEF t
<1>6. ASSUME NEW k \in 1 .. (j - i) + 1 PROVE v[k] = t[k]
  <2>1. CASE k <= j - i
    <3>1. k \in 1 .. j - i
      BY <1>1, <2>1
    <3>. QED BY <1>2, <1>3, <1>5, <2>1, <3>1
  <2>2. CASE ~(k <= j - i)
    <3>1. k = (j - i) + 1
      BY <1>1, <2>2
    <3>. QED BY <1>3, <1>4, <1>5, <2>2, <3>1 DEF c
  <2>. QED BY <2>1, <2>2
<1>7. v = t
  BY <1>3, <1>5, <1>6, SameSequence
<1>. QED BY <1>7 DEF t, u, v, c

\* Strings of one character each are a part of the string; nothing adds nothing.
LEMMA UptoRaw ==
  ASSUME NEW S, NEW s \in Seq(S), NEW ps \in Seq(Seq(S)), Len(ps) = Len(s),
         NEW i \in 0 .. Len(s), NEW j \in i .. Len(s), \A k \in i + 1 .. j : ps[k] = <<s[k]>>
  PROVE  Upto(S, ps, j) = Upto(S, ps, i) \o Strings!Cut(s, i, j)
<1>0. \A f, g, h \in Seq(S) : (f \o g) \o h = f \o (g \o h)
  BY Associates
<1> DEFINE T == {d \in 0 .. j - i : Upto(S, ps, i + d) = Upto(S, ps, i) \o Strings!Cut(s, i, i + d)}
           x == Upto(S, ps, i)
<1>1. j - i \in Nat /\ Len(s) \in Nat /\ i + 0 = i /\ i + (j - i) = j /\ 0 \in 0 .. j - i /\ j - i \in 0 .. j - i
  OBVIOUS
<1>2. x \in Seq(S)
  BY UptoRound
<1> HIDE DEF x
<1>3. 0 \in T
  <2>1. Strings!Cut(s, i, i) \in Seq(S) /\ Len(Strings!Cut(s, i, i)) = 0
    <3>1. i \in i .. Len(s) /\ i - i = 0
      OBVIOUS
    <3>. QED BY <3>1, CutIs
  <2>2. Strings!Cut(s, i, i) = <<>>
    BY <2>1
  <2>3. x \o <<>> = x
    BY <1>2, ConcatEmptySeq
  <2>. QED BY <1>1, <2>2, <2>3 DEF x
<1>4. ASSUME NEW d \in 0 .. (j - i) - 1, d \in T PROVE d + 1 \in T
  <2> DEFINE m == i + d
  <2>1. m \in i .. Len(s) - 1 /\ m \in i .. Len(s) /\ m + 1 \in i + 1 .. j /\ m + 1 \in 1 .. Len(ps) /\ (m + 1) - 1 = m
        /\ i + (d + 1) = m + 1 /\ d + 1 \in 0 .. j - i /\ m + 1 \in 1 .. Len(s)
    BY <1>1
  <2>2. Upto(S, ps, m) = x \o Strings!Cut(s, i, m)
    BY <1>4 DEF x
  <2> HIDE DEF m
  <2> DEFINE u == Strings!Cut(s, i, m)  c == <<s[m + 1]>>
  <2>3. Upto(S, ps, m + 1) = (x \o u) \o c
    <3>1. Upto(S, ps, m + 1) = Upto(S, ps, (m + 1) - 1) \o ps[m + 1]
      BY <2>1, UptoRound
    <3>. QED BY <2>1, <2>2, <3>1
  <2>4. u \in Seq(S) /\ c \in Seq(S)
    BY <2>1, CutIs
  <2>5. Strings!Cut(s, i, m + 1) = u \o c
    BY <2>1, CutGrows
  <2> HIDE DEF u, c, T
  <2>7. (x \o u) \o c = x \o (u \o c)
    BY ONLY <1>0, <1>2, <2>4, Zenon
  <2>8. Upto(S, ps, m + 1) = x \o Strings!Cut(s, i, m + 1)
    BY <2>3, <2>5, <2>7
  <2>9. Upto(S, ps, i + (d + 1)) = Upto(S, ps, i) \o Strings!Cut(s, i, i + (d + 1))
    BY <2>1, <2>8 DEF x
  <2>. QED BY <2>1, <2>9 DEF T
<1> HIDE DEF T
<1>5. 0 .. j - i \subseteq T
  BY <1>1, <1>3, <1>4, InductionUpTo
<1>6. j - i \in T
  BY <1>1, <1>5
<1>7. Upto(S, ps, i + (j - i)) = Upto(S, ps, i) \o Strings!Cut(s, i, i + (j - i))
  BY <1>6 DEF T
<1>. QED BY <1>1, <1>7

\* Empty strings add nothing.
LEMMA UptoNone ==
  ASSUME NEW S, NEW ps \in Seq(Seq(S)), NEW i \in 0 .. Len(ps), NEW j \in i .. Len(ps),
         \A k \in i + 1 .. j : ps[k] = <<>>
  PROVE  Upto(S, ps, j) = Upto(S, ps, i)
<1> DEFINE T == {d \in 0 .. j - i : Upto(S, ps, i + d) = Upto(S, ps, i)}
<1>1. j - i \in Nat /\ Len(ps) \in Nat /\ i + 0 = i /\ i + (j - i) = j /\ 0 \in 0 .. j - i /\ j - i \in 0 .. j - i
  OBVIOUS
<1>2. 0 \in T
  BY <1>1
<1>3. ASSUME NEW d \in 0 .. (j - i) - 1, d \in T PROVE d + 1 \in T
  <2> DEFINE m == i + d
  <2>1. m + 1 \in i + 1 .. j /\ m + 1 \in 1 .. Len(ps) /\ (m + 1) - 1 = m /\ m \in 0 .. Len(ps)
        /\ i + (d + 1) = m + 1 /\ d + 1 \in 0 .. j - i
    BY <1>1
  <2>2. Upto(S, ps, m) = Upto(S, ps, i)
    BY <1>3
  <2> HIDE DEF m
  <2>3. Upto(S, ps, m + 1) = Upto(S, ps, (m + 1) - 1) \o ps[m + 1] /\ Upto(S, ps, m) \in Seq(S)
    BY <2>1, UptoRound
  <2> DEFINE x == Upto(S, ps, m)
  <2>4. x \o <<>> = x
    <3>1. x \in Seq(S)
      BY <2>3
    <3> HIDE DEF x
    <3>. QED BY <3>1, ConcatEmptySeq
  <2>5. Upto(S, ps, i + (d + 1)) = Upto(S, ps, i)
    BY <2>1, <2>2, <2>3, <2>4
  <2>. QED BY <2>1, <2>5
<1> HIDE DEF T
<1>4. 0 .. j - i \subseteq T
  BY <1>1, <1>2, <1>3, InductionUpTo
<1>5. j - i \in T
  BY <1>1, <1>4
<1>6. Upto(S, ps, i + (j - i)) = Upto(S, ps, i)
  BY <1>5 DEF T
<1>. QED BY <1>1, <1>6

-----------------------------------------------------------------------------
(* Strings in which something is replaced *)

\* What each character of s becomes when v stands for w at the places in P
Images(s, w, v, P) ==
  [k \in 1 .. Len(s) |-> IF k - 1 \in P THEN v
                         ELSE IF \E p \in P : p < k - 1 /\ k - 1 < p + Len(w) THEN <<>> ELSE <<s[k]>>]

\* Each character has an image: itself, nothing, or what replaces it.
LEMMA ImagesAre ==
  ASSUME NEW S, NEW s \in Seq(S), NEW w \in Seq(S), NEW v \in Seq(S), NEW P
  PROVE  /\ Images(s, w, v, P) \in Seq(Seq(S)) /\ Len(Images(s, w, v, P)) = Len(s)
         /\ \A k \in 1 .. Len(s) :
              Images(s, w, v, P)[k] = IF k - 1 \in P THEN v
                                      ELSE IF \E p \in P : p < k - 1 /\ k - 1 < p + Len(w) THEN <<>> ELSE <<s[k]>>
<1> DEFINE R(k) == IF k - 1 \in P THEN v
                   ELSE IF \E p \in P : p < k - 1 /\ k - 1 < p + Len(w) THEN <<>> ELSE <<s[k]>>
           F == [k \in 1 .. Len(s) |-> R(k)]
<1>1. \A k \in 1 .. Len(s) : R(k) \in Seq(S)
  <2>1. \A k \in 1 .. Len(s) : <<s[k]>> \in Seq(S) /\ <<>> \in Seq(S)
    OBVIOUS
  <2>. QED BY <2>1
<1> HIDE DEF R
<1>2. F \in [1 .. Len(s) -> Seq(S)] /\ \A k \in 1 .. Len(s) : F[k] = R(k)
  BY <1>1
<1> HIDE DEF F
<1>3. Len(s) \in Nat
  OBVIOUS
<1>4. F \in Seq(Seq(S)) /\ Len(F) = Len(s)
  BY <1>2, <1>3
<1>. QED BY <1>2, <1>4 DEF Images, F, R

\* The next place to replace, or -1
IsNextPlace(s, w, o, i) == i = IF w = <<>> THEN -1 ELSE Strings!Find(Strings!From(s, o), w)

\* The next occurrence behind the offset, or none
LEMMA NextPlaceIs ==
  ASSUME NEW S, NEW s \in Seq(S), NEW w \in Seq(S), NEW o \in 0 .. Len(s), NEW i, IsNextPlace(s, w, o, i)
  PROVE  /\ i = -1 => \A p \in Pieces!Occurs(s, w) : p < o
         /\ i # -1 => /\ i \in 0 .. Len(s) - o /\ o + i \in Pieces!Occurs(s, w)
                      /\ \A p \in Pieces!Occurs(s, w) : p < o \/ o + i <= p
<1> DEFINE r == Strings!From(s, o)  O == Pieces!Occurs(s, w)
<1>1. /\ w = <<>> => O = {}
      /\ w # <<>> => O = Places(s, w)
      /\ \A p \in O : p \in 0 .. Len(s) - 1
  BY OccursIs
<1>2. r \in Seq(S) /\ Len(r) = Len(s) - o /\ Len(s) \in Nat /\ o \in Nat
  BY FromIs
<1>3. CASE w = <<>>
  BY <1>1, <1>3 DEF IsNextPlace
<1>4. CASE w # <<>>
  <2>1. ASSUME NEW k \in 0 .. Len(s) - o PROVE k \in Places(r, w) <=> o + k \in O
    <3>1. Strings!From(r, k) = Strings!From(s, o + k)
      BY FromFrom
    <3> HIDE DEF r, O
    <3>2. k \in 0 .. Len(r) - 1 <=> o + k \in 0 .. Len(s) - 1
      BY <1>2
    <3>3. k \in Places(r, w) <=> k \in 0 .. Len(r) - 1 /\ Leads(Strings!From(r, k), w)
      BY DEF Places
    <3>4. o + k \in O <=> o + k \in 0 .. Len(s) - 1 /\ Leads(Strings!From(s, o + k), w)
      BY <1>1, <1>4 DEF Places
    <3>. QED BY <3>1, <3>2, <3>3, <3>4
  <2>2. IsFirst(Places(r, w), -1, 0, i)
    BY <1>2, <1>4, FindIs DEF IsNextPlace
  <2>3. \A k \in Places(r, w) : k \in 0 .. Len(s) - o
    BY <1>2 DEF Places
  <2>4. ASSUME NEW p \in O PROVE p < o \/ (p - o \in Places(r, w) /\ p - o \in 0 .. Len(s) - o)
    <3>1. CASE ~(p < o)
      <4>1. p - o \in 0 .. Len(s) - o /\ o + (p - o) = p
        BY <1>1, <1>2, <3>1
      <4> DEFINE k == p - o
      <4>2. k \in 0 .. Len(s) - o /\ o + k \in O
        BY <4>1
      <4> HIDE DEF k, O, r
      <4>3. k \in Places(r, w)
        BY <2>1, <4>2
      <4>. QED BY <4>2, <4>3 DEF k
    <3>. QED BY <3>1
  <2> HIDE DEF r, O
  <2>5. ASSUME i = -1 PROVE \A p \in O : p < o
    <3>1. \A k \in Places(r, w) : k < 0
      BY <2>2, <2>3, <2>5 DEF IsFirst
    <3>2. ASSUME NEW p \in O, p - o \in Places(r, w), p - o \in 0 .. Len(s) - o PROVE FALSE
      <4>1. p - o < 0
        BY <3>1, <3>2
      <4>. QED BY <3>2, <4>1
    <3>. QED BY <2>4, <3>2
  <2>6. ASSUME i # -1 PROVE /\ i \in 0 .. Len(s) - o /\ o + i \in O
                            /\ \A p \in O : p < o \/ o + i <= p
    <3>1. i \in Places(r, w) /\ \A k \in Places(r, w) : k < 0 \/ i <= k
      BY <2>2, <2>6 DEF IsFirst
    <3>2. i \in 0 .. Len(s) - o
      BY <2>3, <3>1
    <3>3. o + i \in O
      BY <2>1, <3>1, <3>2
    <3>4. ASSUME NEW p \in O, p - o \in Places(r, w), p - o \in 0 .. Len(s) - o PROVE o + i <= p
      <4>1. i <= p - o /\ p \in Int
        <5>1. p - o < 0 \/ i <= p - o
          BY <3>1, <3>4
        <5>2. p \in Int
          BY <1>1
        <5>. QED BY <3>4, <5>1, <5>2
      <4>. QED BY <1>2, <3>2, <4>1
    <3>. QED BY <2>4, <3>2, <3>3, <3>4
  <2>. QED BY <2>5, <2>6 DEF O
<1>. QED BY <1>3, <1>4

\* The leftmost occurrence behind the ones chosen is chosen next.
LEMMA ChosenGrows ==
  ASSUME NEW S, NEW s \in Seq(S), NEW w \in Seq(S), NEW o \in Nat, NEW P, Chosen(s, w, P, o),
         NEW q \in Pieces!Occurs(s, w), o <= q, \A p \in Pieces!Occurs(s, w) : p < o \/ q <= p
  PROVE  Chosen(s, w, P \cup {q}, q + Len(w))
<1> DEFINE O == Pieces!Occurs(s, w)  l == Len(w)  Q == P \cup {q}
<1>1. l \in Nat /\ l > 0 /\ \A p \in O : p \in Nat
  BY OccursIs
<1>2. /\ P \in SUBSET O /\ q \in O
      /\ \A i, j \in P : i < j => i + l <= j
      /\ \A i \in P : i + l <= o
      /\ \A i \in O : i < o => \E j \in P : j <= i /\ i < j + l
      /\ \A p \in O : p < o \/ q <= p
  BY DEF Chosen
<1> HIDE DEF O, l
<1>3. Q \in SUBSET O
  BY <1>2
<1>4. ASSUME NEW i \in Q, NEW j \in Q, i < j PROVE i + l <= j
  <2>1. CASE i \in P /\ j \in P
    BY <1>2, <1>4, <2>1
  <2>2. CASE i \in P /\ j = q
    <3>1. i + l <= o /\ i \in Nat /\ q \in Nat
      BY <1>1, <1>2, <2>2
    <3>. QED BY <1>1, <2>2, <3>1
  <2>3. CASE i = q /\ j \in P
    <3>1. j + l <= o /\ j \in Nat /\ q \in Nat
      BY <1>1, <1>2, <2>3
    <3>. QED BY <1>1, <1>4, <2>3, <3>1
  <2>4. CASE i = q /\ j = q
    BY <1>1, <1>2, <1>4, <2>4
  <2>. QED BY <2>1, <2>2, <2>3, <2>4
<1>5. ASSUME NEW i \in Q PROVE i + l <= q + l
  <2>1. CASE i \in P
    <3>1. i + l <= o /\ i \in Nat /\ q \in Nat
      BY <1>1, <1>2, <2>1
    <3>. QED BY <1>1, <3>1
  <2>2. CASE i = q
    BY <1>1, <1>2, <2>2
  <2>. QED BY <2>1, <2>2
<1>6. ASSUME NEW i \in O, i < q + l PROVE \E j \in Q : j <= i /\ i < j + l
  <2>1. CASE i < o
    BY <1>2, <2>1
  <2>2. CASE ~(i < o)
    <3>1. q <= i
      BY <1>2, <2>2
    <3>. QED BY <1>6, <3>1
  <2>. QED BY <2>1, <2>2
<1> HIDE DEF Q
<1>. QED BY <1>3, <1>4, <1>5, <1>6 DEF Chosen, O, l, Q

\* Nothing is replaced behind the places that were chosen.
LEMMA RawBehind ==
  ASSUME NEW S, NEW s \in Seq(S), NEW w \in Seq(S), NEW v \in Seq(S), NEW o \in 0 .. Len(s),
         NEW P, Chosen(s, w, P, o)
  PROVE  \A k \in o + 1 .. Len(s) : Images(s, w, v, P)[k] = <<s[k]>>
<1> SUFFICES ASSUME NEW k \in o + 1 .. Len(s) PROVE Images(s, w, v, P)[k] = <<s[k]>>
  OBVIOUS
<1>1. Len(w) \in Nat /\ \A p \in P : p \in Nat /\ Len(w) > 0 /\ p + Len(w) <= o
  <2>1. \A p \in P : p \in Pieces!Occurs(s, w) /\ p + Len(w) <= o
    BY DEF Chosen
  <2>2. \A p \in Pieces!Occurs(s, w) : p \in 0 .. Len(s) - 1 /\ Len(w) > 0
    BY OccursIs
  <2>. QED BY <2>1, <2>2
<1>2. k \in 1 .. Len(s) /\ o <= k - 1 /\ k \in Nat /\ o \in Nat
  OBVIOUS
<1>3. k - 1 \notin P /\ ~ \E p \in P : p < k - 1 /\ k - 1 < p + Len(w)
  BY <1>1, <1>2
<1>4. Images(s, w, v, P)[k] = IF k - 1 \in P THEN v
                              ELSE IF \E p \in P : p < k - 1 /\ k - 1 < p + Len(w) THEN <<>> ELSE <<s[k]>>
  BY <1>2, ImagesAre
<1>. QED BY <1>3, <1>4

\* What replaces w at place q follows what is between index o and it.
Grown(S, s, w, v, P, o, q) ==
  Upto(S, Images(s, w, v, P \cup {q}), q + Len(w)) = (Upto(S, Images(s, w, v, P), o) \o Strings!Cut(s, o, q)) \o v

\* One more place
LEMMA ImagesGrow ==
  ASSUME NEW S, NEW s \in Seq(S), NEW w \in Seq(S), NEW v \in Seq(S), NEW o \in 0 .. Len(s),
         NEW P, Chosen(s, w, P, o), NEW q \in Pieces!Occurs(s, w), o <= q
  PROVE  Grown(S, s, w, v, P, o, q)
<1> DEFINE Q == P \cup {q}  F == Images(s, w, v, P)  G == Images(s, w, v, Q)  n == Len(s)  l == Len(w)
           R(D, k) == IF k - 1 \in D THEN v ELSE IF \E p \in D : p < k - 1 /\ k - 1 < p + l THEN <<>> ELSE <<s[k]>>
<1>1. /\ q \in 0 .. n - 1 /\ q + l <= n /\ l > 0 /\ l \in Nat /\ n \in Nat /\ o \in Nat
      /\ q \in o .. n /\ q \in 0 .. n
  <2>1. q \in 0 .. n - 1 /\ q + l <= n /\ l > 0
    BY OccursIs
  <2>. QED BY <2>1
<1>2. \A p \in P : p \in Nat /\ p + l <= o
  <2>1. \A p \in P : p \in Pieces!Occurs(s, w) /\ p + l <= o
    BY DEF Chosen
  <2>2. \A p \in Pieces!Occurs(s, w) : p \in 0 .. n - 1
    BY OccursIs
  <2>. QED BY <2>1, <2>2
<1>3. F \in Seq(Seq(S)) /\ Len(F) = n /\ \A k \in 1 .. n : F[k] = R(P, k)
  BY ImagesAre
<1>4. G \in Seq(Seq(S)) /\ Len(G) = n /\ \A k \in 1 .. n : G[k] = R(Q, k)
  <2> HIDE DEF Q
  <2>. QED BY ImagesAre
<1>5. \A k \in o + 1 .. n : F[k] = <<s[k]>>
  BY RawBehind
<1> HIDE DEF F, G, n, l
<1>6. \A k \in 1 .. q : F[k] = G[k]
  <2> TAKE k \in 1 .. q
  <2>1. k \in 1 .. n /\ k - 1 < q /\ k \in Nat
    BY <1>1
  <2>2. k - 1 \in Q <=> k - 1 \in P
    BY <1>1, <2>1
  <2>3. (\E p \in Q : p < k - 1 /\ k - 1 < p + l) <=> (\E p \in P : p < k - 1 /\ k - 1 < p + l)
    <3>1. ~(q < k - 1)
      BY <1>1, <2>1
    <3>. QED BY <3>1
  <2>4. R(P, k) = R(Q, k)
    BY <2>2, <2>3
  <2>. QED BY <1>3, <1>4, <2>1, <2>4
<1>7. G[q + 1] = v
  <2>1. q + 1 \in 1 .. n /\ (q + 1) - 1 = q
    BY <1>1
  <2>. QED BY <1>4, <2>1
<1>8. \A k \in q + 2 .. q + l : G[k] = <<>>
  <2> TAKE k \in q + 2 .. q + l
  <2>1. k \in 1 .. n /\ q < k - 1 /\ k - 1 < q + l /\ k \in Nat
    BY <1>1
  <2>2. k - 1 \notin Q
    <3>1. ASSUME NEW p \in P PROVE p # k - 1
      BY <1>1, <1>2, <2>1
    <3>. QED BY <1>1, <2>1, <3>1
  <2>3. R(Q, k) = <<>>
    BY <2>1, <2>2
  <2>. QED BY <1>4, <2>1, <2>3
<1>9. Upto(S, G, q) = Upto(S, F, q)
  BY <1>1, <1>3, <1>4, <1>6, UptoAgrees
<1>10. Upto(S, F, q) = Upto(S, F, o) \o Strings!Cut(s, o, q)
  <2>1. \A k \in o + 1 .. q : F[k] = <<s[k]>>
    BY <1>1, <1>5
  <2>. QED BY <1>1, <1>3, <2>1, UptoRaw DEF n
<1>11. Upto(S, G, q + 1) = Upto(S, G, q) \o v
  <2>1. q + 1 \in 1 .. Len(G) /\ (q + 1) - 1 = q
    BY <1>1, <1>4
  <2>2. Upto(S, G, q + 1) = Upto(S, G, (q + 1) - 1) \o G[q + 1]
    BY <1>4, <2>1, UptoRound
  <2>. QED BY <1>7, <2>1, <2>2
<1>12. Upto(S, G, q + l) = Upto(S, G, q + 1)
  <2> DEFINE i == q + 1  j == q + l
  <2>1. i \in 0 .. Len(G) /\ j \in i .. Len(G) /\ i + 1 = q + 2
    BY <1>1, <1>4
  <2>2. \A k \in i + 1 .. j : G[k] = <<>>
    BY <1>8, <2>1
  <2> HIDE DEF i, j
  <2>3. Upto(S, G, j) = Upto(S, G, i)
    BY <1>4, <2>1, <2>2, UptoNone
  <2>. QED BY <2>3 DEF i, j
<1>13. Upto(S, G, q + l) = (Upto(S, F, o) \o Strings!Cut(s, o, q)) \o v
  BY <1>9, <1>10, <1>11, <1>12
<1>. QED BY <1>13 DEF Grown, F, G, l

\* No more place
LEMMA ImagesEnd ==
  ASSUME NEW S, NEW s \in Seq(S), NEW w \in Seq(S), NEW v \in Seq(S), NEW o \in 0 .. Len(s),
         NEW P, Chosen(s, w, P, o)
  PROVE  Pieces!Joined(Images(s, w, v, P)) = Upto(S, Images(s, w, v, P), o) \o Strings!From(s, o)
<1> DEFINE F == Images(s, w, v, P)
<1>1. F \in Seq(Seq(S)) /\ Len(F) = Len(s)
  BY ImagesAre
<1>2. \A k \in o + 1 .. Len(s) : F[k] = <<s[k]>>
  BY RawBehind
<1> HIDE DEF F
<1>3. Len(s) \in o .. Len(s)
  OBVIOUS
<1>4. Upto(S, F, Len(s)) = Upto(S, F, o) \o Strings!Cut(s, o, Len(s))
  BY <1>1, <1>2, <1>3, UptoRaw
<1>5. Pieces!Joined(F) = Upto(S, F, Len(s))
  BY <1>1, UptoRound
<1>6. Strings!Cut(s, o, Len(s)) = Strings!From(s, o)
  BY DEF Strings!Cut, Strings!From
<1>. QED BY <1>4, <1>5, <1>6 DEF F

\* A call that replaces, under way: what it has is what the string becomes up to the offset.
Replacing(P) ==
  /\ call.op = "replace" /\ call.s \in Seq(StringChar) /\ call.what \in Seq(StringChar)
  /\ call.with \in Seq(StringChar) /\ offset \in 0 .. Len(call.s) /\ pieces \in Seq(Seq(StringChar))
  /\ Chosen(call.s, call.what, P, offset) /\ chunk \in BOOLEAN /\ skipped \in BOOLEAN
  /\ ~chunk /\ ~skipped =>
       Pieces!Joined(pieces) = Upto(StringChar, Images(call.s, call.what, call.with, P), offset)
  /\ chunk => \E i : /\ IsNextPlace(call.s, call.what, offset, i) /\ i # -1
                     /\ ~skipped => Pieces!Joined(pieces) =
                          Upto(StringChar, Images(call.s, call.what, call.with, P), offset)
                            \o Strings!Cut(call.s, offset, offset + i)

\* A call that replaces starts with no occurrence behind it.
LEMMA ReplaceStarts ==
  ASSUME call.op = "replace", call.s \in Seq(StringChar), call.what \in Seq(StringChar),
         call.with \in Seq(StringChar), offset = 0, pieces = <<>>, chunk = FALSE, skipped = FALSE
  PROVE  Replacing({})
<1> DEFINE s == call.s  w == call.what  v == call.with  F == Images(s, w, v, {})
<1>1. s \in Seq(StringChar) /\ w \in Seq(StringChar) /\ v \in Seq(StringChar)
  OBVIOUS
<1> HIDE DEF s, w, v
<1>2. F \in Seq(Seq(StringChar))
  BY <1>1, ImagesAre
<1>3. Upto(StringChar, F, 0) = <<>>
  <2> HIDE DEF F
  <2>. QED BY <1>2, UptoRound
<1>4. Pieces!Joined(<<>>) = <<>>
  <2>1. <<>> \in Seq(StringChar) /\ <<>> \in Seq(Seq(StringChar))
    OBVIOUS
  <2>. QED BY <2>1, JoinedRound
<1>5. Chosen(s, w, {}, 0)
  <2>1. \A i \in Pieces!Occurs(s, w) : i \in 0 .. Len(s) - 1
    BY <1>1, OccursIs
  <2>2. \A i \in Pieces!Occurs(s, w) : ~(i < 0)
    BY <2>1
  <2>. QED BY <2>2 DEF Chosen
<1>6. <<>> \in Seq(Seq(StringChar)) /\ 0 \in 0 .. Len(s)
  BY <1>1
<1>. QED BY <1>1, <1>3, <1>4, <1>5, <1>6 DEF Replacing, s, w, v

\* The call has the string up to the next place.
LEMMA ReplaceTakes ==
  ASSUME NEW P, Replacing(P), ~chunk, NEW i, IsNextPlace(call.s, call.what, offset, i), i # -1,
         pieces' = Append(pieces, Strings!Cut(Strings!From(call.s, offset), 0, i)), chunk' = TRUE,
         UNCHANGED <<call, offset, skipped>>
  PROVE  Replacing(P)'
<1> DEFINE s == call.s  w == call.what  v == call.with  F == Images(s, w, v, P)
<1>1. /\ s \in Seq(StringChar) /\ w \in Seq(StringChar) /\ v \in Seq(StringChar)
      /\ offset \in 0 .. Len(s) /\ pieces \in Seq(Seq(StringChar)) /\ Chosen(s, w, P, offset)
      /\ ~skipped => Pieces!Joined(pieces) = Upto(StringChar, F, offset)
      /\ call.op = "replace" /\ skipped \in BOOLEAN
  BY DEF Replacing
<1>2. IsNextPlace(s, w, offset, i)
  OBVIOUS
<1> DEFINE p == Strings!Cut(Strings!From(s, offset), 0, i)
<1>0. pieces' = Append(pieces, p)
  OBVIOUS
<1> HIDE DEF s, w, v
<1>3. i \in 0 .. Len(s) - offset
  BY <1>1, <1>2, NextPlaceIs
<1>4. p = Strings!Cut(s, offset, offset + i)
  <2>1. 0 \in 0 .. Len(s) - offset /\ i \in 0 .. Len(s) - offset /\ offset + 0 = offset
    BY <1>1, <1>3
  <2>2. p = Strings!Cut(s, offset + 0, offset + i)
    BY <1>1, <2>1, FromFrom
  <2>. QED BY <2>1, <2>2
<1>5. p \in Seq(StringChar)
  <2>1. offset + i \in offset .. Len(s)
    BY <1>1, <1>3
  <2>2. Strings!Cut(s, offset, offset + i) \in Seq(StringChar)
    BY <1>1, <2>1, CutIs
  <2>. QED BY <1>4, <2>2
<1> HIDE DEF p, F
<1>6. Pieces!Joined(pieces') = Pieces!Joined(pieces) \o p /\ pieces' \in Seq(Seq(StringChar))
  <2>1. Pieces!Joined(Append(pieces, p)) = Pieces!Joined(pieces) \o p
    BY <1>1, <1>5, JoinedRound
  <2>2. Append(pieces, p) \in Seq(Seq(StringChar))
    BY <1>1, <1>5
  <2>. QED BY <1>0, <2>1, <2>2
<1>7. ~skipped => Pieces!Joined(pieces') = Upto(StringChar, F, offset) \o Strings!Cut(s, offset, offset + i)
  BY <1>1, <1>4, <1>6
<1>8. call' = call /\ offset' = offset /\ skipped' = skipped /\ chunk' = TRUE
  OBVIOUS
<1>9. \E k : /\ IsNextPlace(s, w, offset, k) /\ k # -1
             /\ ~skipped => Pieces!Joined(pieces') = Upto(StringChar, F, offset) \o Strings!Cut(s, offset, offset + k)
  BY <1>2, <1>7
<1>10. \E k : /\ IsNextPlace(s, w, offset, k)' /\ k # -1
              /\ ~skipped' => Pieces!Joined(pieces') = Upto(StringChar, F, offset') \o Strings!Cut(s, offset', offset' + k)
  BY <1>8, <1>9 DEF IsNextPlace, s, w
<1>. QED BY <1>1, <1>6, <1>8, <1>10 DEF Replacing, IsNextPlace, F, s, w, v

\* What is put at the next place, or not when there is no memory for it
LEMMA ReplacePuts ==
  ASSUME NEW P, Replacing(P), chunk, NEW i, IsNextPlace(call.s, call.what, offset, i),
         (pieces' = Append(pieces, call.with) /\ skipped' = skipped) \/ (pieces' = pieces /\ skipped' = TRUE),
         chunk' = FALSE, offset' = offset + i + Len(call.what), UNCHANGED call
  PROVE  \E Q : Replacing(Q)'
<1> DEFINE s == call.s  w == call.what  v == call.with  q == offset + i  Q == P \cup {q}
           F == Images(s, w, v, P)  G == Images(s, w, v, Q)
<1>1. /\ s \in Seq(StringChar) /\ w \in Seq(StringChar) /\ v \in Seq(StringChar)
      /\ offset \in 0 .. Len(s) /\ pieces \in Seq(Seq(StringChar)) /\ Chosen(s, w, P, offset)
      /\ i # -1 /\ IsNextPlace(s, w, offset, i)
      /\ ~skipped => Pieces!Joined(pieces) = Upto(StringChar, F, offset) \o Strings!Cut(s, offset, q)
      /\ call.op = "replace" /\ skipped \in BOOLEAN
  BY DEF Replacing, IsNextPlace
<1>2. /\ (pieces' = Append(pieces, v) /\ skipped' = skipped) \/ (pieces' = pieces /\ skipped' = TRUE)
      /\ offset' = offset + i + Len(w) /\ call' = call /\ chunk' = FALSE
  OBVIOUS
<1> HIDE DEF s, w, v, Q
<1>3. /\ i \in 0 .. Len(s) - offset /\ q \in Pieces!Occurs(s, w)
      /\ \A p \in Pieces!Occurs(s, w) : p < offset \/ q <= p
  BY <1>1, NextPlaceIs
<1>4. /\ q \in 0 .. Len(s) - 1 /\ q + Len(w) <= Len(s) /\ Len(w) \in Nat /\ offset \in Nat /\ offset <= q
      /\ offset' = q + Len(w) /\ offset' \in 0 .. Len(s) /\ Len(s) \in Nat
  <2>1. \A p \in Pieces!Occurs(s, w) : p \in 0 .. Len(s) - 1 /\ p + Len(w) <= Len(s)
    BY <1>1, OccursIs
  <2>2. q \in 0 .. Len(s) - 1 /\ q + Len(w) <= Len(s)
    BY <1>3, <2>1
  <2>3. Len(w) \in Nat /\ Len(s) \in Nat
    BY <1>1
  <2>4. offset \in Nat /\ i \in Nat
    BY <1>1, <1>3, <2>3
  <2>5. q = offset + i
    OBVIOUS
  <2> HIDE DEF q
  <2>6. offset' = offset + i + Len(w)
    BY <1>2
  <2>7. offset' = q + Len(w)
    BY <2>5, <2>6
  <2>8. q + Len(w) \in 0 .. Len(s) /\ offset <= q
    BY <2>2, <2>3, <2>4, <2>5
  <2>. QED BY <2>2, <2>3, <2>4, <2>7, <2>8
<1> HIDE DEF q
<1>5. Chosen(s, w, Q, q + Len(w))
  BY <1>1, <1>3, <1>4, ChosenGrows DEF Q
<1>6. Upto(StringChar, G, q + Len(w)) = (Upto(StringChar, F, offset) \o Strings!Cut(s, offset, q)) \o v
  <2>1. Grown(StringChar, s, w, v, P, offset, q)
    BY <1>1, <1>3, <1>4, ImagesGrow
  <2>. QED BY <2>1 DEF Grown, Q
<1> HIDE DEF F, G
<1>7. Pieces!Joined(Append(pieces, v)) = Pieces!Joined(pieces) \o v /\ Append(pieces, v) \in Seq(Seq(StringChar))
  BY <1>1, JoinedRound
<1>8. ~skipped' => Pieces!Joined(pieces') = Upto(StringChar, G, offset')
  BY <1>1, <1>2, <1>4, <1>6, <1>7
<1>9. pieces' \in Seq(Seq(StringChar)) /\ skipped' \in BOOLEAN
  BY <1>1, <1>2, <1>7
<1> PICK D : D = Q
  OBVIOUS
<1>10. Replacing(D)'
  <2>1. ~skipped' => Pieces!Joined(pieces') = Upto(StringChar, Images(s, w, v, D), offset')
    BY <1>8 DEF G
  <2>2. Chosen(s, w, D, offset')
    BY <1>4, <1>5
  <2> HIDE DEF q
  <2>. QED BY <1>1, <1>2, <1>4, <1>9, <2>1, <2>2 DEF Replacing, s, w, v
<1>. QED BY <1>10

\* The end of the string, and all of it joined
LEMMA ReplaceEnds ==
  ASSUME NEW P, Replacing(P), ~chunk, IsNextPlace(call.s, call.what, offset, -1),
         built' = Pieces!Joined(Append(pieces, Strings!From(call.s, offset))), blocks' = 1,
         UNCHANGED <<call, skipped>>
  PROVE  Pieces!ReplacesAll'
<1> DEFINE s == call.s  w == call.what  v == call.with  F == Images(s, w, v, P)  r == Strings!From(s, offset)
<1>1. /\ s \in Seq(StringChar) /\ w \in Seq(StringChar) /\ v \in Seq(StringChar)
      /\ offset \in 0 .. Len(s) /\ pieces \in Seq(Seq(StringChar)) /\ Chosen(s, w, P, offset)
      /\ ~skipped => Pieces!Joined(pieces) = Upto(StringChar, F, offset)
  BY DEF Replacing
<1>2. IsNextPlace(s, w, offset, -1) /\ built' = Pieces!Joined(Append(pieces, r)) /\ call' = call /\ skipped' = skipped
  OBVIOUS
<1> HIDE DEF s, w, v
<1>3. \A p \in Pieces!Occurs(s, w) : p < offset
  <2> DEFINE i == -1
  <2>1. IsNextPlace(s, w, offset, i) /\ i = -1
    BY <1>2
  <2> HIDE DEF i
  <2>. QED BY <1>1, <2>1, NextPlaceIs
<1>4. Pieces!Leftmost(s, w) = P
  BY <1>1, <1>3, LeftmostIs
<1>5. r \in Seq(StringChar)
  BY <1>1, FromIs
<1>6. Pieces!Joined(F) = Upto(StringChar, F, offset) \o r
  BY <1>1, ImagesEnd
<1> HIDE DEF r
<1>7. ~skipped => built' = Pieces!Joined(F)
  BY <1>1, <1>2, <1>5, <1>6, JoinedRound
<1>8. F = [k \in 1 .. Len(s) |->
             IF k - 1 \in P THEN v
             ELSE IF k - 1 \in {i \in 0 .. Len(s) - 1 : \E p \in P : p < i /\ i < p + Len(w)} THEN <<>> ELSE <<s[k]>>]
  <2>1. Len(s) \in Nat
    BY <1>1
  <2>2. \A k \in 1 .. Len(s) : k - 1 \in 0 .. Len(s) - 1
    BY <2>1
  <2>3. \A k \in 1 .. Len(s) :
          (k - 1 \in {i \in 0 .. Len(s) - 1 : \E p \in P : p < i /\ i < p + Len(w)})
            <=> (\E p \in P : p < k - 1 /\ k - 1 < p + Len(w))
    BY <2>2
  <2>. QED BY <2>3 DEF Images
<1> DEFINE H == [k \in 1 .. Len(s) |->
             IF k - 1 \in P THEN v
             ELSE IF k - 1 \in {i \in 0 .. Len(s) - 1 : \E p \in P : p < i /\ i < p + Len(w)} THEN <<>> ELSE <<s[k]>>]
<1>9. ~skipped' => built' = Pieces!Joined(H)
  BY <1>2, <1>7, <1>8
<1> HIDE DEF F
<1>. QED BY <1>2, <1>4, <1>9 DEF Pieces!ReplacesAll, s, w, v

-----------------------------------------------------------------------------
(* The calls *)

PiecesInv ==
  \/ ended \in {"none", "out_of_memory"}
  \/ ended = "busy" /\ ((\E ls : Splitting(ls)) \/ (\E P : Replacing(P)))
  \/ ended = "ok" /\ Pieces!SplitsApart /\ Pieces!ReplacesAll

\* The invariant is enough for what is claimed of what is split and replaced.
LEMMA PiecesHold == PiecesInv => Pieces!SplitsApart /\ Pieces!ReplacesAll
BY DEF PiecesInv, Pieces!SplitsApart, Pieces!ReplacesAll

LEMMA PiecesAtRest == Pieces!AtRest => PiecesInv
BY DEF Pieces!AtRest, PiecesInv

LEMMA PiecesStart == Pieces!PiecesInit => PiecesInv
<1> SUFFICES ASSUME Pieces!PiecesInit PROVE PiecesInv
  OBVIOUS
<1>1. /\ offset = 0 /\ pieces = <<>> /\ chunk = FALSE /\ blocks = 1 /\ ended = "busy" /\ skipped = FALSE
  BY DEF Pieces!PiecesInit
<1>2. PICK op \in {"split_char", "split_lines", "replace"}, s \in PieceText, what \in Short, with \in Short :
        /\ op = "split_char" => Len(what) = 1 /\ with = <<>>
        /\ op = "split_lines" => what = <<>> /\ with = <<>>
        /\ call = [op |-> op, s |-> s, what |-> what, with |-> with]
  BY DEF Pieces!PiecesInit, Pieces!Ops
<1>3. s \in Seq(StringChar) /\ what \in Seq(StringChar) /\ with \in Seq(StringChar)
  BY StringAssumption DEF Pieces!PiecesAssumption, Pieces!StringsAssumption
<1>4. CASE op = "replace"
  <2>1. Replacing({})
    BY <1>1, <1>2, <1>3, <1>4, ReplaceStarts
  <2>. QED BY <1>1, <2>1 DEF PiecesInv
<1>5. CASE op \in {"split_char", "split_lines"}
  <2>1. Splits(call)
    BY <1>2, <1>3, <1>5 DEF Splits
  <2>2. Splitting(<< <<>> >>)
    BY <1>1, <2>1, SplitStarts
  <2>. QED BY <1>1, <2>2 DEF PiecesInv
<1>. QED BY <1>4, <1>5

\* Where the next piece ends
LEMMA NextIs ==
  /\ Splits(call) => EndsAt(call.op, call.what, Strings!From(call.s, offset), Pieces!NextAt, Pieces!Ending)
  /\ call.op = "replace" => /\ IsNextPlace(call.s, call.what, offset, Pieces!NextAt)
                            /\ Pieces!Ending = Len(call.what)
  /\ Pieces!Rest = Strings!From(call.s, offset)
<1>1. Pieces!Rest = Strings!From(call.s, offset)
  BY SameSearches DEF Pieces!Rest
<1>2. ASSUME Splits(call)
      PROVE  EndsAt(call.op, call.what, Strings!From(call.s, offset), Pieces!NextAt, Pieces!Ending)
  <2>1. Pieces!NextAt = IF call.op = "split_char" THEN Strings!FindChar(Pieces!Rest, call.what[1])
                        ELSE Pieces!LineEnd(Pieces!Rest)
    BY <1>2, SameSearches DEF Pieces!NextAt, Splits
  <2>2. Pieces!Ending = IF call.op = "split_lines" THEN IF Pieces!Rest[Pieces!NextAt + 1] = ReturnChar THEN 2 ELSE 1
                        ELSE Len(call.what)
    BY DEF Pieces!Ending
  <2>. QED BY <1>1, <2>1, <2>2 DEF EndsAt
<1>3. ASSUME call.op = "replace"
      PROVE  /\ IsNextPlace(call.s, call.what, offset, Pieces!NextAt)
             /\ Pieces!Ending = Len(call.what)
  <2>1. Pieces!NextAt = IF call.what = <<>> THEN -1 ELSE Strings!Find(Pieces!Rest, call.what)
    BY <1>3, SameSearches DEF Pieces!NextAt
  <2>2. Pieces!Ending = Len(call.what)
    BY <1>3 DEF Pieces!Ending
  <2>. QED BY <1>1, <2>1, <2>2 DEF IsNextPlace
<1>. QED BY <1>1, <1>2, <1>3

\* The text before the next separator or occurrence is taken.
LEMMA PieceTaken ==
  ASSUME PiecesInv, Pieces!TakePiece
  PROVE  PiecesInv'
<1>1. CASE Pieces!NoMemory
  BY <1>1 DEF Pieces!NoMemory, PiecesInv
<1> DEFINE i == Pieces!NextAt  m == Pieces!Ending  r == Strings!From(call.s, offset)
<1>2. ASSUME ~Pieces!NoMemory PROVE PiecesInv'
  <2>1. /\ ended = "busy" /\ ~chunk /\ i # -1 /\ ended' = "busy"
        /\ pieces' = Append(pieces, Strings!Cut(r, 0, i)) /\ blocks' = blocks + 1
        /\ UNCHANGED <<call, built, skipped>>
        /\ \/ call.op = "replace" /\ chunk' = TRUE /\ UNCHANGED offset
           \/ call.op # "replace" /\ offset' = offset + i + m /\ UNCHANGED chunk
    <3>1. Pieces!Rest = r /\ \A f, k, l : Pieces!Cut(f, k, l) = Strings!Cut(f, k, l)
      BY NextIs, SameSearches
    <3>2. /\ ended = "busy" /\ ~chunk /\ Pieces!NextAt # -1 /\ Pieces!Push(Pieces!Cut(Pieces!Rest, 0, Pieces!NextAt))
          /\ \/ call.op = "replace" /\ chunk' = TRUE /\ UNCHANGED offset
             \/ call.op # "replace" /\ offset' = offset + Pieces!NextAt + Pieces!Ending /\ UNCHANGED chunk
          /\ UNCHANGED <<call, ended, built, skipped>>
      BY <1>2 DEF Pieces!TakePiece
    <3>3. pieces' = Append(pieces, Pieces!Cut(Pieces!Rest, 0, Pieces!NextAt)) /\ blocks' = blocks + 1
      BY <3>2 DEF Pieces!Push
    <3>. QED BY <3>1, <3>2, <3>3
  <2>2. ASSUME NEW ls, Splitting(ls) PROVE PiecesInv'
    <3>1. EndsAt(call.op, call.what, r, i, m) /\ call.op # "replace"
      BY <2>2, NextIs DEF Splitting, Splits
    <3> HIDE DEF i, m
    <3> PICK i1 : i1 = i
      OBVIOUS
    <3> PICK m1 : m1 = m
      OBVIOUS
    <3>2. /\ EndsAt(call.op, call.what, Strings!From(call.s, offset), i1, m1) /\ i1 # -1
          /\ pieces' = Append(pieces, Strings!Cut(Strings!From(call.s, offset), 0, i1))
          /\ blocks' = blocks + 1 /\ offset' = offset + i1 + m1 /\ UNCHANGED <<call, chunk>>
      BY <2>1, <3>1
    <3>3. \E ms : Splitting(ms)'
      BY <2>2, <3>2, SplitTakes
    <3>. QED BY <2>1, <3>3 DEF PiecesInv
  <2>3. ASSUME NEW P, Replacing(P) PROVE PiecesInv'
    <3>1. call.op = "replace" /\ IsNextPlace(call.s, call.what, offset, i)
      BY <2>3, NextIs DEF Replacing
    <3> HIDE DEF i, m
    <3> PICK i1 : i1 = i
      OBVIOUS
    <3>2. /\ IsNextPlace(call.s, call.what, offset, i1) /\ i1 # -1 /\ ~chunk
          /\ pieces' = Append(pieces, Strings!Cut(Strings!From(call.s, offset), 0, i1))
          /\ chunk' = TRUE /\ UNCHANGED <<call, offset, skipped>>
      BY <2>1, <3>1
    <3>3. Replacing(P)'
      BY <2>3, <3>2, ReplaceTakes
    <3>. QED BY <2>1, <3>3 DEF PiecesInv
  <2>. QED BY <2>1, <2>2, <2>3 DEF PiecesInv
<1>. QED BY <1>1, <1>2

\* What replaces the occurrence is taken.
LEMMA WithTaken ==
  ASSUME PiecesInv, Pieces!TakeWith
  PROVE  PiecesInv'
<1> DEFINE i == Pieces!NextAt
<1>1. /\ ended = "busy" /\ chunk /\ chunk' = FALSE /\ offset' = offset + i + Pieces!Ending
      /\ UNCHANGED <<call, ended, built>>
      /\ (pieces' = Append(pieces, call.with) /\ skipped' = skipped) \/ (pieces' = pieces /\ skipped' = TRUE)
  BY DEF Pieces!TakeWith, Pieces!Push
<1>2. PICK P : Replacing(P)
  BY <1>1 DEF PiecesInv, Splitting
<1>3. IsNextPlace(call.s, call.what, offset, i) /\ Pieces!Ending = Len(call.what)
  BY <1>2, NextIs DEF Replacing
<1> HIDE DEF i
<1> PICK i1 : i1 = i
  OBVIOUS
<1>4. /\ IsNextPlace(call.s, call.what, offset, i1) /\ offset' = offset + i1 + Len(call.what)
      /\ UNCHANGED call
  BY <1>1, <1>3
<1>5. \E Q : Replacing(Q)'
  BY <1>1, <1>2, <1>4, ReplacePuts
<1>. QED BY <1>1, <1>5 DEF PiecesInv

\* What follows the last occurrence is taken.
LEMMA TailTaken ==
  ASSUME PiecesInv, Pieces!TakeTail
  PROVE  PiecesInv'
<1> DEFINE r == Strings!From(call.s, offset)
<1>1. ended = "busy" /\ ~chunk /\ Pieces!NextAt = -1 /\ Pieces!Rest = r
  BY NextIs DEF Pieces!TakeTail
<1>2. CASE ended' = "out_of_memory"
  BY <1>2 DEF PiecesInv
<1>3. ASSUME ended' # "out_of_memory"
      PROVE  \/ /\ call.op # "replace" /\ pieces' = Append(pieces, r) /\ blocks' = blocks + 1 /\ ended' = "ok"
                /\ UNCHANGED call
             \/ /\ call.op = "replace" /\ built' = Pieces!Joined(Append(pieces, r)) /\ blocks' = 1 /\ ended' = "ok"
                /\ UNCHANGED <<call, skipped>>
  BY <1>1, <1>3 DEF Pieces!TakeTail, Pieces!NoMemory, Pieces!Push
<1>4. ASSUME NEW ls, Splitting(ls), ended' # "out_of_memory" PROVE PiecesInv'
  <2>1. EndsAt(call.op, call.what, r, Pieces!NextAt, Pieces!Ending) /\ call.op # "replace"
    BY <1>4, NextIs DEF Splitting, Splits
  <2> DEFINE m == Pieces!Ending
  <2> HIDE DEF m
  <2> PICK m1 : m1 = m
    OBVIOUS
  <2>2. EndsAt(call.op, call.what, Strings!From(call.s, offset), -1, m1)
    BY <1>1, <2>1 DEF m
  <2>3. pieces' = Append(pieces, r) /\ blocks' = blocks + 1 /\ UNCHANGED call /\ ended' = "ok"
    BY <1>3, <1>4, <2>1
  <2>4. Pieces!SplitsApart'
    BY <1>4, <2>2, <2>3, SplitEnds
  <2>5. Pieces!ReplacesAll'
    BY <2>1, <2>3 DEF Pieces!ReplacesAll
  <2>. QED BY <2>3, <2>4, <2>5 DEF PiecesInv
<1>5. ASSUME NEW P, Replacing(P), ended' # "out_of_memory" PROVE PiecesInv'
  <2>1. call.op = "replace" /\ IsNextPlace(call.s, call.what, offset, -1)
    BY <1>1, <1>5, NextIs DEF Replacing
  <2>2. built' = Pieces!Joined(Append(pieces, r)) /\ blocks' = 1 /\ ended' = "ok" /\ UNCHANGED <<call, skipped>>
    BY <1>3, <1>5, <2>1
  <2>3. Pieces!ReplacesAll'
    BY <1>1, <1>5, <2>1, <2>2, ReplaceEnds
  <2>4. Pieces!SplitsApart'
    BY <2>1, <2>2 DEF Pieces!SplitsApart
  <2>. QED BY <2>2, <2>3, <2>4 DEF PiecesInv
<1>. QED BY <1>1, <1>2, <1>4, <1>5 DEF PiecesInv

LEMMA PiecesKeep == PiecesInv /\ Pieces!PiecesNext => PiecesInv'
BY PieceTaken, WithTaken, TailTaken DEF Pieces!PiecesNext

LEMMA PiecesStay ==
  ASSUME PiecesInv, UNCHANGED pieceVars
  PROVE  PiecesInv'
<1>1. /\ call' = call /\ offset' = offset /\ pieces' = pieces /\ chunk' = chunk /\ blocks' = blocks
      /\ ended' = ended /\ built' = built /\ skipped' = skipped
  BY DEF pieceVars
<1>2. ASSUME NEW ls, Splitting(ls) PROVE Splitting(ls)'
  BY <1>1, <1>2 DEF Splitting
<1>3. ASSUME NEW P, Replacing(P) PROVE Replacing(P)'
  BY <1>1, <1>3 DEF Replacing
<1>4. Pieces!SplitsApart /\ Pieces!ReplacesAll => (Pieces!SplitsApart /\ Pieces!ReplacesAll)'
  BY <1>1 DEF Pieces!SplitsApart, Pieces!ReplacesAll
<1>. QED BY <1>1, <1>2, <1>3, <1>4 DEF PiecesInv

-----------------------------------------------------------------------------
(* Numbers and numerals *)

HalfNumber == Power(2, NumeralBits - 1)

\* The words and the numerals that the constants allow
LEMMA NumbersAre ==
  /\ HalfNumber \in Nat \ {0} /\ HalfNumber >= 2
  /\ Numerals!Max64 = HalfNumber - 1 /\ Numerals!Min64 = -HalfNumber /\ Numerals!MaxU64 = 2 * HalfNumber - 1
  /\ Number \subseteq -HalfNumber + 1 .. 2 * HalfNumber - 1 /\ Numeral \subseteq Seq(Nat) /\ Room \in Nat \ {0}
  /\ HalfNumber - 1 < Power(10, Room) /\ 2 * HalfNumber - 1 < Power(10, Room + 1)
<1>1. /\ NumeralBits \in Nat /\ NumeralBits > 1 /\ Number \subseteq Numerals!Min64 + 1 .. Numerals!MaxU64
      /\ Numeral \subseteq Seq(Nat) /\ Room \in Nat \ {0}
      /\ Numerals!Max64 < Numerals!Power(10, Room) /\ Numerals!MaxU64 < Numerals!Power(10, Room + 1)
  BY NumberAssumption DEF Numerals!NumeralsAssumption
<1> DEFINE m == NumeralBits - 1
<1>2. m \in Nat /\ m - 1 \in Nat /\ (m - 1) + 1 = m /\ NumeralBits = m + 1 /\ 2 \in Int /\ 2 \in Nat \ {0}
  BY <1>1
<1>3. HalfNumber = Power(2, m)
  BY DEF HalfNumber
<1> HIDE DEF m
<1>4. Power(2, m) \in Nat \ {0} /\ Power(2, m - 1) \in Nat \ {0}
  BY <1>2, PowerPositive
<1>5. Power(2, m) = Power(2, m - 1) * 2 /\ Power(2, m + 1) = Power(2, m) * 2
  BY <1>2, PowerRound
<1>6. HalfNumber \in Nat \ {0} /\ HalfNumber >= 2 /\ Power(2, NumeralBits) = 2 * HalfNumber
  BY <1>2, <1>3, <1>4, <1>5
<1>7. Numerals!Max64 = HalfNumber - 1 /\ Numerals!Min64 = -HalfNumber /\ Numerals!MaxU64 = 2 * HalfNumber - 1
  BY <1>6, SamePower DEF Numerals!Max64, Numerals!Min64, Numerals!MaxU64, HalfNumber
<1>. QED BY <1>1, <1>6, <1>7, SamePower

\* A number of the type does not wrap.
LEMMA WordsKeep ==
  ASSUME NEW x \in Int
  PROVE  /\ x \in -HalfNumber .. HalfNumber - 1 => Numerals!Signed(x) = x
         /\ x \in 0 .. 2 * HalfNumber - 1 => Numerals!Unsigned(x) = x
<1>1. /\ HalfNumber \in Nat \ {0}
      /\ Numerals!Max64 = HalfNumber - 1 /\ Numerals!MaxU64 = 2 * HalfNumber - 1
  BY NumbersAre
<1>2. Numerals!MaxU64 + 1 = 2 * HalfNumber
  BY <1>1
<1> DEFINE u == x % (2 * HalfNumber)
<1>3. u \in Int
  <2> DEFINE w == 2 * HalfNumber
  <2>1. w \in Nat /\ w > 0
    BY <1>1
  <2> HIDE DEF w
  <2>2. x % w \in 0 .. w - 1
    BY <2>1
  <2>. QED BY <2>1, <2>2 DEF w
<1>4. Numerals!Unsigned(x) = u
  BY <1>2 DEF Numerals!Unsigned
<1>5. Numerals!Signed(x) = IF u > HalfNumber - 1 THEN u - 2 * HalfNumber ELSE u
  BY <1>1, <1>2, <1>4 DEF Numerals!Signed
<1>6. Wrap(x, HalfNumber, TRUE) = IF u >= HalfNumber THEN u - 2 * HalfNumber ELSE u
  BY DEF Wrap
<1>7. Wrap(x, HalfNumber, FALSE) = u
  BY DEF Wrap
<1> HIDE DEF u
<1>8. Numerals!Signed(x) = Wrap(x, HalfNumber, TRUE)
  <2>1. u > HalfNumber - 1 <=> u >= HalfNumber
    BY <1>1, <1>3
  <2>2. CASE u >= HalfNumber
    BY <1>5, <1>6, <2>1, <2>2
  <2>3. CASE ~(u >= HalfNumber)
    BY <1>5, <1>6, <2>1, <2>3
  <2>. QED BY <2>2, <2>3
<1>9. x \in -HalfNumber .. HalfNumber - 1 => Wrap(x, HalfNumber, TRUE) = x
  <2>1. x \in Word(HalfNumber, TRUE) => Wrap(x, HalfNumber, TRUE) = x
    BY <1>1, Wraps
  <2>. QED BY <2>1 DEF Word
<1>10. x \in 0 .. 2 * HalfNumber - 1 => Wrap(x, HalfNumber, FALSE) = x
  <2>1. x \in Word(HalfNumber, FALSE) => Wrap(x, HalfNumber, FALSE) = x
    BY <1>1, Wraps
  <2>. QED BY <2>1 DEF Word
<1>. QED BY <1>4, <1>7, <1>8, <1>9, <1>10

\* From i on the characters of s before j are in D, and j is not.
StopsAt(s, i, D, j) ==
  /\ j \in i .. Len(s) + 1 /\ \A k \in i .. j - 1 : s[k] \in D
  /\ j = Len(s) + 1 \/ s[j] \notin D

\* Looking past characters stops at the first other one.
LEMMA PastIs ==
  ASSUME NEW S, NEW s \in Seq(S), NEW i \in 1 .. Len(s) + 1, NEW D
  PROVE  StopsAt(s, i, D, Numerals!Past(s, i, D))
<1> DEFINE n == Len(s) + 1
           More(k) == k <= Len(s) /\ s[k] \in D
           T == {k \in 1 .. n : ~More(k)}
           Loop(at) == at = [k \in 1 .. Len(s) + 1 |-> IF More(k) THEN at[k + 1] ELSE k]
           loop == CHOOSE at : Loop(at)
<1>1. n \in Nat /\ n \in T /\ 1 \in Nat /\ i \in 1 .. n /\ T \in SUBSET (1 .. n)
  OBVIOUS
<1>2. Numerals!Past(s, i, D) = loop[i]
  BY DEF Numerals!Past
<1>3. \A at : Loop(at) <=> IsSearch(1, n, T, 0, at)
  <2> SUFFICES ASSUME NEW at PROVE Loop(at) <=> IsSearch(1, n, T, 0, at)
    OBVIOUS
  <2>1. \A k \in 1 .. n : (IF More(k) THEN at[k + 1] ELSE k)
                            = IF k \in T THEN k ELSE IF k = n THEN 0 ELSE at[k + 1]
    OBVIOUS
  <2>2. [k \in 1 .. n |-> IF More(k) THEN at[k + 1] ELSE k]
          = [k \in 1 .. n |-> IF k \in T THEN k ELSE IF k = n THEN 0 ELSE at[k + 1]]
    BY <2>1
  <2>. QED BY <2>2 DEF IsSearch
<1>4. \E at : IsSearch(1, n, T, 0, at)
  <2> HIDE DEF T, n
  <2>. QED BY <1>1, SearchExists
<1>5. Loop(loop)
  <2> HIDE DEF Loop
  <2>. QED BY <1>3, <1>4
<1>6. IsSearch(1, n, T, 0, loop)
  BY <1>3, <1>5
<1> HIDE DEF loop
<1>7. IsFirst(T, 0, i, loop[i])
  <2> HIDE DEF T, n
  <2>. QED BY <1>1, <1>6, SearchStops
<1>8. loop[i] \in T /\ i <= loop[i] /\ \A k \in T : k < i \/ loop[i] <= k
  <2>1. ~(n < i)
    BY <1>1
  <2>. QED BY <1>1, <1>7, <2>1 DEF IsFirst
<1>9. \A k \in i .. loop[i] - 1 : s[k] \in D
  <2> TAKE k \in i .. loop[i] - 1
  <2>1. k \in 1 .. n /\ ~(k < i) /\ ~(loop[i] <= k)
    BY <1>1, <1>8
  <2>2. k \notin T
    BY <1>8, <2>1
  <2>. QED BY <2>1, <2>2
<1>. QED BY <1>1, <1>2, <1>8, <1>9 DEF StopsAt

-----------------------------------------------------------------------------
(* Digits that are read *)

\* The numbers that the digits of s from i on make, one more digit at a time
Makes(s, i, j, v) ==
  /\ v \in [i - 1 .. j - 1 -> Nat] /\ v[i - 1] = 0
  /\ \A k \in i .. j - 1 : s[k] \in 48 .. 57 /\ v[k] = v[k - 1] * 10 + s[k] - 48

\* The number grows with each digit.
LEMMA MakesMore ==
  ASSUME NEW s, NEW i \in Nat, NEW j \in Nat, 1 <= i, i <= j, NEW v, Makes(s, i, j, v)
  PROVE  \A k \in i - 1 .. j - 1 : v[k] <= v[j - 1]
<1> DEFINE n == j - i
           T == {d \in 0 .. n : v[(j - 1) - d] <= v[j - 1]}
<1>1. /\ n \in Nat /\ i - 1 \in i - 1 .. j - 1 /\ j - 1 \in i - 1 .. j - 1
      /\ v \in [i - 1 .. j - 1 -> Nat]
      /\ \A k \in i .. j - 1 : s[k] \in 48 .. 57 /\ v[k] = v[k - 1] * 10 + s[k] - 48
  BY DEF Makes
<1>2. 0 \in T
  <2>1. (j - 1) - 0 = j - 1 /\ 0 \in 0 .. n /\ v[j - 1] \in Nat
    BY <1>1
  <2>. QED BY <2>1
<1>3. ASSUME NEW d \in 0 .. n - 1, d \in T PROVE d + 1 \in T
  <2> DEFINE k == (j - 1) - d
  <2>1. k \in i .. j - 1 /\ k - 1 \in i - 1 .. j - 1 /\ k \in i - 1 .. j - 1 /\ (j - 1) - (d + 1) = k - 1 /\ d + 1 \in 0 .. n
    BY <1>1
  <2>2. v[k] <= v[j - 1]
    BY <1>3
  <2> HIDE DEF k
  <2>3. v[k] \in Nat /\ v[k - 1] \in Nat /\ v[j - 1] \in Nat /\ s[k] \in 48 .. 57 /\ v[k] = v[k - 1] * 10 + s[k] - 48
    BY <1>1, <2>1
  <2>4. v[k - 1] <= v[k]
    BY <2>3
  <2>5. v[k - 1] <= v[j - 1]
    BY <2>2, <2>3, <2>4
  <2>. QED BY <2>1, <2>5
<1> HIDE DEF T
<1>4. 0 .. n \subseteq T
  BY <1>1, <1>2, <1>3, InductionUpTo
<1>5. ASSUME NEW k \in i - 1 .. j - 1 PROVE v[k] <= v[j - 1]
  <2>1. (j - 1) - k \in 0 .. n /\ (j - 1) - ((j - 1) - k) = k
    OBVIOUS
  <2>2. (j - 1) - k \in T
    BY <1>4, <2>1
  <2>. QED BY <2>1, <2>2 DEF T
<1>. QED BY <1>5

\* The largest number of a type
Top(signed) == IF signed THEN HalfNumber - 1 ELSE 2 * HalfNumber - 1

\* As long as the number is one of the type, none before it wraps.
LEMMA AccumulatedIs ==
  ASSUME NEW s, NEW i \in Nat, NEW j \in Nat, 1 <= i, i <= j, NEW v, Makes(s, i, j, v),
         NEW signed \in BOOLEAN, NEW optimized \in BOOLEAN, v[j - 1] <= Top(signed)
  PROVE  Numerals!Accumulated(s, i, j, signed, optimized) = Numerals!Value(v[j - 1])
<1> DEFINE Sum(w, k) == w[k - 1].value * 10 + s[k] - 48
           New(w, k) == IF signed THEN Numerals!Signed(Sum(w, k)) ELSE Numerals!Unsigned(Sum(w, k))
           Step(w, k) == IF k = i - 1 THEN Numerals!Value(0)
                         ELSE IF w[k - 1].err # "ok" THEN w[k - 1]
                         ELSE IF New(w, k) < w[k - 1].value /\ ~(signed /\ optimized)
                              THEN Numerals!Bad("would_overflow") ELSE Numerals!Value(New(w, k))
           Loop(w) == w = [k \in i - 1 .. j - 1 |-> Step(w, k)]
           loop == CHOOSE w : Loop(w)
           x == [k \in i - 1 .. j - 1 |-> Numerals!Value(v[k])]
<1>1. Numerals!Accumulated(s, i, j, signed, optimized) = loop[j - 1]
  BY DEF Numerals!Accumulated
<1>2. /\ v \in [i - 1 .. j - 1 -> Nat] /\ v[i - 1] = 0
      /\ \A k \in i .. j - 1 : s[k] \in 48 .. 57 /\ v[k] = v[k - 1] * 10 + s[k] - 48
      /\ i - 1 \in i - 1 .. j - 1 /\ j - 1 \in i - 1 .. j - 1
  BY DEF Makes
<1>3. \A k \in i - 1 .. j - 1 : v[k] <= v[j - 1]
  BY MakesMore
<1>4. ASSUME NEW w, NEW k \in i .. j - 1, w[k - 1] = Numerals!Value(v[k - 1])
      PROVE  Step(w, k) = Numerals!Value(v[k])
  <2>1. k # i - 1 /\ k \in i - 1 .. j - 1 /\ k - 1 \in i - 1 .. j - 1
    OBVIOUS
  <2>2. w[k - 1].err = "ok" /\ w[k - 1].value = v[k - 1]
    BY <1>4 DEF Numerals!Value
  <2>3. v[k] \in Nat /\ v[k - 1] \in Nat /\ s[k] \in 48 .. 57 /\ v[k] = v[k - 1] * 10 + s[k] - 48
    BY <1>2, <2>1
  <2>4. Sum(w, k) = v[k]
    BY <2>2, <2>3
  <2>5. v[k] <= Top(signed) /\ v[k - 1] <= v[k]
    <3>1. v[k] <= v[j - 1] /\ v[j - 1] \in Nat
      BY <1>2, <1>3, <2>1
    <3>2. Top(signed) \in Int
      BY NumbersAre DEF Top
    <3>. QED BY <2>3, <3>1, <3>2
  <2>6. New(w, k) = v[k]
    <3>1. signed => v[k] \in -HalfNumber .. HalfNumber - 1
      BY <2>3, <2>5, NumbersAre DEF Top
    <3>2. ~signed => v[k] \in 0 .. 2 * HalfNumber - 1
      BY <2>3, <2>5, NumbersAre DEF Top
    <3>3. v[k] \in Int
      BY <2>3
    <3> HIDE DEF Sum
    <3>4. signed => Numerals!Signed(v[k]) = v[k]
      BY <3>1, <3>3, WordsKeep
    <3>5. ~signed => Numerals!Unsigned(v[k]) = v[k]
      BY <3>2, <3>3, WordsKeep
    <3>. QED BY <2>4, <3>4, <3>5
  <2> HIDE DEF New
  <2>7. ~(New(w, k) < w[k - 1].value)
    BY <2>2, <2>3, <2>5, <2>6
  <2>. QED BY <2>1, <2>2, <2>6, <2>7
<1> HIDE DEF Sum, New
<1>5. Loop(x)
  <2>1. ASSUME NEW k \in i - 1 .. j - 1 PROVE Numerals!Value(v[k]) = Step(x, k)
    <3>1. CASE k = i - 1
      BY <1>2, <3>1
    <3>2. CASE k # i - 1
      <4>1. k \in i .. j - 1 /\ k - 1 \in i - 1 .. j - 1
        BY <3>2
      <4>2. x[k - 1] = Numerals!Value(v[k - 1])
        BY <4>1
      <4> HIDE DEF x, Step
      <4>. QED BY <1>4, <4>1, <4>2
    <3>. QED BY <3>1, <3>2
  <2>2. [k \in i - 1 .. j - 1 |-> Numerals!Value(v[k])] = [k \in i - 1 .. j - 1 |-> Step(x, k)]
    <3> HIDE DEF x, Step
    <3>. QED BY <2>1
  <2>. QED BY <2>2
<1>6. Loop(loop)
  <2> HIDE DEF Loop, x
  <2>. QED BY <1>5
<1> HIDE DEF loop, x
<1>7. \A k \in i - 1 .. j - 1 : loop[k] = Step(loop, k)
  <2>1. loop = [k \in i - 1 .. j - 1 |-> Step(loop, k)]
    BY <1>6
  <2> HIDE DEF Loop, Step
  <2>. QED BY <2>1
<1> HIDE DEF Loop
<1> DEFINE T == {d \in 0 .. j - i : loop[(i - 1) + d] = Numerals!Value(v[(i - 1) + d])}
<1>8. 0 \in T
  <2>1. (i - 1) + 0 = i - 1 /\ 0 \in 0 .. j - i
    OBVIOUS
  <2>2. loop[i - 1] = Numerals!Value(0)
    BY <1>2, <1>7
  <2>. QED BY <1>2, <2>1, <2>2
<1> HIDE DEF Step
<1>9. ASSUME NEW d \in 0 .. (j - i) - 1, d \in T PROVE d + 1 \in T
  <2> DEFINE k == (i - 1) + (d + 1)
  <2>1. k \in i .. j - 1 /\ k \in i - 1 .. j - 1 /\ k - 1 = (i - 1) + d /\ d + 1 \in 0 .. j - i
    OBVIOUS
  <2>2. loop[k - 1] = Numerals!Value(v[k - 1])
    BY <1>9, <2>1
  <2> HIDE DEF k
  <2>3. loop[k] = Numerals!Value(v[k])
    BY <1>4, <1>7, <2>1, <2>2
  <2>. QED BY <2>1, <2>3 DEF k
<1> HIDE DEF T
<1>10. 0 .. j - i \subseteq T
  <2>1. j - i \in Nat
    OBVIOUS
  <2>. QED BY <1>8, <1>9, <2>1, InductionUpTo
<1>11. loop[(i - 1) + (j - i)] = Numerals!Value(v[(i - 1) + (j - i)])
  <2>1. j - i \in 0 .. j - i
    OBVIOUS
  <2>2. j - i \in T
    BY <1>10, <2>1
  <2>. QED BY <2>2 DEF T
<1>12. (i - 1) + (j - i) = j - 1
  OBVIOUS
<1>. QED BY <1>1, <1>11, <1>12

\* Where the digits begin and end
LEMMA FirstIs ==
  ASSUME NEW s \in Seq(Nat), NEW signed \in BOOLEAN
  PROVE  /\ Numerals!First(s, signed) \in 1 .. Len(s) + 1
         /\ StopsAt(s, Numerals!First(s, signed), 48 .. 57, Numerals!End(s, signed))
         /\ Numerals!Negative(s, signed) => signed
<1> DEFINE B == Numerals!Blanks  start == Numerals!Past(s, 1, B)  f == Numerals!First(s, signed)
<1>1. Len(s) \in Nat /\ 1 \in 1 .. Len(s) + 1
  OBVIOUS
<1>2. StopsAt(s, 1, B, start)
  <2> HIDE DEF B
  <2>. QED BY <1>1, PastIs
<1>3. start \in 1 .. Len(s) + 1 /\ \A k \in 1 .. start - 1 : s[k] \in B
  BY <1>2 DEF StopsAt
<1>4. f = IF signed /\ Numerals!At(s, start) \in {45, 43} THEN start + 1 ELSE start
  BY DEF Numerals!First, Numerals!Minus, Numerals!Plus
<1> HIDE DEF start, f
<1>5. f \in 1 .. Len(s) + 1
  <2>1. CASE signed /\ Numerals!At(s, start) \in {45, 43}
    <3>1. start <= Len(s)
      BY <1>1, <1>3, <2>1 DEF Numerals!At
    <3>. QED BY <1>1, <1>3, <1>4, <2>1, <3>1
  <2>. QED BY <1>3, <1>4, <2>1
<1>6. StopsAt(s, f, 48 .. 57, Numerals!End(s, signed))
  <2> DEFINE D == 48 .. 57
  <2>1. Numerals!End(s, signed) = Numerals!Past(s, f, D)
    BY DEF Numerals!End, Numerals!Digits, f
  <2> HIDE DEF D
  <2>2. StopsAt(s, f, D, Numerals!Past(s, f, D))
    BY <1>5, PastIs
  <2>. QED BY <2>1, <2>2 DEF D
<1>7. ASSUME Numerals!Negative(s, signed), ~signed PROVE FALSE
  <2>1. f > 1 /\ s[f - 1] = 45
    BY <1>7 DEF Numerals!Negative, Numerals!Minus, f
  <2>2. f = start
    BY <1>4, <1>7
  <2>3. f - 1 \in 1 .. start - 1
    BY <1>3, <2>1, <2>2
  <2>4. s[f - 1] \in {32, 9, 10, 13}
    BY <1>3, <2>3 DEF B, Numerals!Blanks
  <2>. QED BY <2>1, <2>4
<1>. QED BY <1>5, <1>6, <1>7 DEF f

\* The digits of s begin at i, and end before j.
DigitsAre(s, signed, i, j) == i = Numerals!First(s, signed) /\ j = Numerals!End(s, signed)

\* A numeral gives the number its digits make.
LEMMA ParseIs ==
  ASSUME NEW s \in Seq(Nat), NEW signed \in BOOLEAN, NEW optimized \in BOOLEAN, NEW i, NEW j,
         DigitsAre(s, signed, i, j), i < j,
         j > Len(s) \/ s[j] \in Numerals!Blanks,
         NEW v, Makes(s, i, j, v), v[j - 1] <= Top(signed)
  PROVE  /\ Numerals!Parse(s, signed, optimized)
              = Numerals!Value(IF Numerals!Negative(s, signed) THEN -v[j - 1] ELSE v[j - 1])
         /\ v[j - 1] \in Nat
<1>1. /\ i \in 1 .. Len(s) + 1 /\ StopsAt(s, i, 48 .. 57, j) /\ (Numerals!Negative(s, signed) => signed)
      /\ Len(s) \in Nat
  BY FirstIs DEF DigitsAre
<1>2. /\ j \in i .. Len(s) + 1 /\ \A k \in i .. j - 1 : s[k] \in 48 .. 57
  BY <1>1 DEF StopsAt
<1>3. i \in Nat /\ j \in Nat /\ 1 <= i /\ i <= j /\ i \in i .. j - 1 /\ i <= Len(s) /\ s # <<>>
  <2>1. i \in Nat /\ j \in Nat /\ 1 <= i /\ i <= j /\ i \in i .. j - 1 /\ i <= Len(s)
    BY <1>1, <1>2
  <2>. QED BY <1>1, <2>1
<1>4. v[j - 1] \in Nat
  <2>1. j - 1 \in i - 1 .. j - 1
    BY <1>3
  <2>. QED BY <2>1 DEF Makes
<1>5. Numerals!Accumulated(s, i, j, signed, optimized) = Numerals!Value(v[j - 1])
  BY <1>3, AccumulatedIs
<1>6. Numerals!At(s, i) \in Numerals!Digits
  BY <1>2, <1>3 DEF Numerals!At, Numerals!Digits
<1> DEFINE a1 == Numerals!Accumulated(s, i, j, signed, optimized)
<1>7. a1.err = "ok" /\ a1.value = v[j - 1]
  BY <1>5 DEF Numerals!Value
<1>8. Numerals!Negative(s, signed) => Numerals!Signed(-v[j - 1]) = -v[j - 1]
  <2>1. ASSUME signed PROVE -v[j - 1] \in Int /\ -v[j - 1] \in -HalfNumber .. HalfNumber - 1
    <3>1. v[j - 1] <= HalfNumber - 1
      BY <2>1 DEF Top
    <3>2. \A x \in Nat : x <= HalfNumber - 1 => -x \in Int /\ -x \in -HalfNumber .. HalfNumber - 1
      BY NumbersAre
    <3>. QED BY <1>4, <3>1, <3>2
  <2>. QED BY <1>1, <2>1, WordsKeep
<1>9. ~(j <= Len(s) /\ s[j] \notin Numerals!Blanks)
  BY <1>1, <1>3
<1>10. Numerals!Parse(s, signed, optimized)
        = IF s = <<>> THEN Numerals!Bad("invalid_parameter")
          ELSE IF Numerals!At(s, i) \notin Numerals!Digits THEN Numerals!Bad("unexpected_byte")
          ELSE IF a1.err # "ok" THEN a1
          ELSE IF j <= Len(s) /\ s[j] \notin Numerals!Blanks THEN Numerals!Bad("unexpected_byte")
          ELSE Numerals!Value(IF Numerals!Negative(s, signed) THEN Numerals!Signed(-a1.value) ELSE a1.value)
  BY DEF Numerals!Parse, DigitsAre
<1> HIDE DEF a1
<1>. QED BY <1>3, <1>4, <1>6, <1>7, <1>8, <1>9, <1>10

\* What the digits of a string make is well defined, whatever the type has.
LEMMA ExactIs ==
  ASSUME NEW s \in Seq(Nat), NEW signed \in BOOLEAN, NEW i, NEW j,
         DigitsAre(s, signed, i, j)
  PROVE  \E v : /\ Makes(s, i, j, v)
                /\ Numerals!ExactValue(s, signed) = IF Numerals!Negative(s, signed) THEN -v[j - 1] ELSE v[j - 1]
<1> DEFINE n == Len(s) - (i - 1)
           Loop(w) == w = [k \in i - 1 .. Len(s) |-> IF k = i - 1 THEN 0 ELSE w[k - 1] * 10 + s[k] - 48]
           loop == CHOOSE w : Loop(w)
           F == [k \in 1 .. n |-> [r \in Int |-> r * 10 + s[(i - 1) + k] - 48]]
<1>1. /\ i \in 1 .. Len(s) + 1 /\ StopsAt(s, i, 48 .. 57, j) /\ Len(s) \in Nat
  BY FirstIs DEF DigitsAre
<1>2. /\ j \in i .. Len(s) + 1 /\ \A k \in i .. j - 1 : s[k] \in 48 .. 57
  BY <1>1 DEF StopsAt
<1>3. n \in Nat /\ i \in Nat /\ j \in Nat /\ 1 <= i
  BY <1>1, <1>2
<1>4. \A k \in 1 .. n : s[(i - 1) + k] \in Nat
  <2>1. \A k \in 1 .. n : (i - 1) + k \in 1 .. Len(s)
    BY <1>1
  <2>. QED BY <2>1
<1>5. \E w : Loop(w)
  <2>1. F \in Rounds(n, Int) /\ \A k \in 1 .. n, r \in Int : F[k][r] = r * 10 + s[(i - 1) + k] - 48
    <3>1. \A k \in 1 .. n, r \in Int : r * 10 + s[(i - 1) + k] - 48 \in Int
      BY <1>4
    <3>. QED BY <3>1 DEF Rounds
  <2> HIDE DEF F
  <2>2. PICK h : IsCourse(h, n, Int, 0, F)
    <3>1. 0 \in Int
      OBVIOUS
    <3>. HIDE DEF n
    <3>. QED BY <1>3, <2>1, <3>1, CourseExists
  <2>3. h \in [0 .. n -> Int] /\ h[0] = 0 /\ \A k \in 1 .. n : h[k] = F[k][h[k - 1]]
    BY <2>2 DEF IsCourse
  <2> DEFINE w == [k \in i - 1 .. Len(s) |-> h[k - (i - 1)]]
  <2>4. ASSUME NEW k \in i - 1 .. Len(s) PROVE h[k - (i - 1)] = IF k = i - 1 THEN 0 ELSE w[k - 1] * 10 + s[k] - 48
    <3>1. CASE k = i - 1
      <4>1. k - (i - 1) = 0
        BY <1>3, <3>1
      <4>. QED BY <2>3, <3>1, <4>1
    <3>2. CASE k # i - 1
      <4> DEFINE d == k - (i - 1)
      <4>1. d \in 1 .. n /\ d - 1 \in 0 .. n /\ (i - 1) + d = k /\ k - 1 \in i - 1 .. Len(s) /\ (k - 1) - (i - 1) = d - 1
        BY <1>1, <1>3, <3>2
      <4> HIDE DEF d
      <4>2. h[d] = h[d - 1] * 10 + s[(i - 1) + d] - 48
        BY <2>1, <2>3, <4>1
      <4>3. w[k - 1] = h[d - 1]
        BY <4>1
      <4>. QED BY <3>2, <4>1, <4>2, <4>3 DEF d
    <3>. QED BY <3>1, <3>2
  <2>5. [k \in i - 1 .. Len(s) |-> h[k - (i - 1)]]
          = [k \in i - 1 .. Len(s) |-> IF k = i - 1 THEN 0 ELSE w[k - 1] * 10 + s[k] - 48]
    <3> HIDE DEF w
    <3>. QED BY <2>4
  <2>6. Loop(w)
    BY <2>5
  <2> HIDE DEF Loop, w
  <2>. QED BY <2>6
<1>6. Loop(loop)
  <2> HIDE DEF Loop
  <2>. QED BY <1>5
<1> HIDE DEF loop, F
<1>7. \A k \in i - 1 .. Len(s) : loop[k] = IF k = i - 1 THEN 0 ELSE loop[k - 1] * 10 + s[k] - 48
  <2>1. loop = [k \in i - 1 .. Len(s) |-> IF k = i - 1 THEN 0 ELSE loop[k - 1] * 10 + s[k] - 48]
    BY <1>6
  <2> HIDE DEF Loop
  <2>. QED BY <2>1
<1> HIDE DEF Loop
<1>8. Numerals!ExactValue(s, signed) = IF Numerals!Negative(s, signed) THEN -loop[j - 1] ELSE loop[j - 1]
  BY DEF Numerals!ExactValue, loop, Loop, DigitsAre
<1> DEFINE v == [k \in i - 1 .. j - 1 |-> loop[k]]
           T == {d \in 0 .. j - i : loop[(i - 1) + d] \in Nat}
<1>9. i - 1 \in i - 1 .. Len(s) /\ i - 1 \in i - 1 .. j - 1 /\ j - 1 \in i - 1 .. j - 1 /\ j - i \in Nat
  BY <1>1, <1>2
<1>10. loop[i - 1] = 0
  BY <1>7, <1>9
<1>11. 0 \in T
  <2>1. (i - 1) + 0 = i - 1 /\ 0 \in 0 .. j - i
    BY <1>3, <1>9
  <2>. QED BY <1>10, <2>1
<1>12. ASSUME NEW k \in i .. j - 1
       PROVE  s[k] \in 48 .. 57 /\ loop[k] = loop[k - 1] * 10 + s[k] - 48 /\ (loop[k - 1] \in Nat => loop[k] \in Nat)
  <2>1. k \in i - 1 .. Len(s) /\ k # i - 1
    BY <1>1, <1>2, <1>3
  <2>2. s[k] \in 48 .. 57
    BY <1>2
  <2>3. loop[k] = loop[k - 1] * 10 + s[k] - 48
    BY <1>7, <2>1
  <2>4. \A x \in Nat, y \in 48 .. 57 : x * 10 + y - 48 \in Nat
    OBVIOUS
  <2>. QED BY <2>2, <2>3, <2>4
<1>13. ASSUME NEW d \in 0 .. (j - i) - 1, d \in T PROVE d + 1 \in T
  <2> DEFINE k == (i - 1) + (d + 1)
  <2>1. k \in i .. j - 1 /\ k - 1 = (i - 1) + d /\ d + 1 \in 0 .. j - i
    BY <1>3, <1>9
  <2>2. loop[k - 1] \in Nat
    BY <1>13, <2>1
  <2> HIDE DEF k
  <2>3. loop[k] \in Nat
    BY <1>12, <2>1, <2>2
  <2>. QED BY <2>1, <2>3 DEF k
<1> HIDE DEF T
<1>14. 0 .. j - i \subseteq T
  BY <1>9, <1>11, <1>13, InductionUpTo
<1>15. \A k \in i - 1 .. j - 1 : loop[k] \in Nat
  <2> TAKE k \in i - 1 .. j - 1
  <2>1. k - (i - 1) \in 0 .. j - i /\ (i - 1) + (k - (i - 1)) = k
    BY <1>3
  <2>2. k - (i - 1) \in T
    BY <1>14, <2>1
  <2>. QED BY <2>1, <2>2 DEF T
<1>16. Makes(s, i, j, v)
  <2>1. v \in [i - 1 .. j - 1 -> Nat] /\ v[i - 1] = 0
    BY <1>9, <1>10, <1>15
  <2>2. \A k \in i .. j - 1 : s[k] \in 48 .. 57 /\ v[k] = v[k - 1] * 10 + s[k] - 48
    <3> TAKE k \in i .. j - 1
    <3>1. k \in i - 1 .. j - 1 /\ k - 1 \in i - 1 .. j - 1
      BY <1>3
    <3>2. v[k] = loop[k] /\ v[k - 1] = loop[k - 1]
      BY <3>1
    <3> HIDE DEF v
    <3>. QED BY <1>12, <3>2
  <2> HIDE DEF v
  <2>. QED BY <2>1, <2>2 DEF Makes
<1>17. v[j - 1] = loop[j - 1]
  BY <1>9
<1> HIDE DEF v
<1>. QED BY <1>8, <1>16, <1>17

-----------------------------------------------------------------------------
(* Digits that are written *)

\* The digits of t make x to y, one more digit at a time, and none of them is a zero in front.
Course(t, x, y, v) ==
  /\ v \in [0 .. Len(t) -> Nat] /\ v[0] = x /\ v[Len(t)] = y
  /\ \A k \in 1 .. Len(t) : t[k] \in 48 .. 57 /\ v[k] = v[k - 1] * 10 + t[k] - 48
  /\ Len(t) > 0 => v[1] > 0
Spells(t, x, y) == \E v : Course(t, x, y, v)

\* The last digit of the rest is put in front.
LEMMA SpellsMore ==
  ASSUME NEW t \in Seq(Nat), NEW x \in Nat \ {0}, NEW y, Spells(t, x, y)
  PROVE  /\ <<48 + (x % 10)>> \o t \in Seq(Nat) /\ x \div 10 \in Nat
         /\ Spells(<<48 + (x % 10)>> \o t, x \div 10, y)
<1> DEFINE c == 48 + (x % 10)  q == x \div 10  u == <<c>> \o t  n == Len(t)
<1>1. PICK v : Course(t, x, y, v)
  BY DEF Spells
<1>2. /\ v \in [0 .. n -> Nat] /\ v[0] = x /\ v[n] = y /\ n \in Nat
      /\ \A k \in 1 .. n : t[k] \in 48 .. 57 /\ v[k] = v[k - 1] * 10 + t[k] - 48
  BY <1>1 DEF Course
<1>3. c \in 48 .. 57 /\ q \in Nat /\ q * 10 + c - 48 = x
  <2>1. x % 10 \in 0 .. 9 /\ x = 10 * q + (x % 10) /\ q \in Int
    OBVIOUS
  <2>2. q \in Nat
    BY <2>1
  <2>. QED BY <2>1, <2>2
<1> HIDE DEF c, q
<1>4. /\ u \in Seq(Nat) /\ Len(u) = n + 1 /\ u[1] = c
      /\ \A k \in 2 .. n + 1 : u[k] = t[k - 1]
  <2>1. <<c>> \in Seq(Nat) /\ Len(<<c>>) = 1
    BY <1>3
  <2>2. u \in Seq(Nat) /\ Len(u) = Len(<<c>>) + Len(t)
        /\ \A k \in 1 .. Len(<<c>>) + Len(t) : u[k] = IF k <= Len(<<c>>) THEN <<c>>[k] ELSE t[k - Len(<<c>>)]
    BY <2>1, ConcatProperties
  <2> HIDE DEF u
  <2>3. Len(u) = n + 1 /\ \A k \in 1 .. n + 1 : u[k] = IF k <= 1 THEN <<c>>[k] ELSE t[k - 1]
    BY <1>2, <2>1, <2>2
  <2>4. u[1] = c
    BY <1>2, <2>3
  <2>5. \A k \in 2 .. n + 1 : k \in 1 .. n + 1 /\ ~(k <= 1)
    BY <1>2
  <2>. QED BY <2>2, <2>3, <2>4, <2>5
<1> HIDE DEF u
<1> DEFINE w == [k \in 0 .. n + 1 |-> IF k = 0 THEN q ELSE v[k - 1]]
<1>5. w \in [0 .. n + 1 -> Nat] /\ w[0] = q /\ \A k \in 1 .. n + 1 : w[k] = v[k - 1]
  <2>1. \A k \in 0 .. n + 1 : k # 0 => k - 1 \in 0 .. n
    BY <1>2
  <2>2. \A k \in 0 .. n + 1 : (IF k = 0 THEN q ELSE v[k - 1]) \in Nat
    BY <1>2, <1>3, <2>1
  <2>. QED BY <1>2, <2>2
<1> HIDE DEF w
<1>6. ASSUME NEW k \in 1 .. n + 1 PROVE u[k] \in 48 .. 57 /\ w[k] = w[k - 1] * 10 + u[k] - 48
  <2>1. CASE k = 1
    <3>1. w[k] = x /\ w[k - 1] = q /\ u[k] = c
      BY <1>2, <1>4, <1>5, <2>1
    <3>. QED BY <1>3, <3>1
  <2>2. CASE k # 1
    <3>1. k - 1 \in 1 .. n /\ k \in 2 .. n + 1 /\ k - 1 \in 1 .. n + 1
      BY <1>2, <2>2
    <3>2. u[k] = t[k - 1] /\ w[k] = v[k - 1] /\ w[k - 1] = v[(k - 1) - 1]
      BY <1>4, <1>5, <3>1
    <3>. QED BY <1>2, <3>1, <3>2
  <2>. QED BY <2>1, <2>2
<1>7. w[n + 1] = y /\ w[1] > 0
  <2>1. n + 1 \in 1 .. n + 1 /\ 1 \in 1 .. n + 1 /\ (n + 1) - 1 = n /\ 1 - 1 = 0
    BY <1>2
  <2>2. w[n + 1] = v[n] /\ w[1] = v[0]
    BY <1>5, <2>1
  <2>. QED BY <1>2, <2>2
<1>8. Course(u, q, y, w)
  BY <1>4, <1>5, <1>6, <1>7 DEF Course
<1>9. Spells(u, q, y)
  BY <1>8 DEF Spells
<1>. QED BY <1>3, <1>4, <1>9 DEF u, c, q

\* With Room + 1 digits every number is written to its end, as its digits.
LEMMA DigitsOfIs ==
  ASSUME NEW n \in Nat, n < Power(10, Room + 1)
  PROVE  Numerals!DigitsOf(n) \in Seq(Nat) /\ Spells(Numerals!DigitsOf(n), 0, n)
<1> DEFINE m == Room + 1
           X == [text : Seq(Nat), n : Nat]
           R(r) == IF r.n = 0 THEN r
                   ELSE [text |-> <<48 + (r.n % 10)>> \o r.text, n |-> r.n \div 10]
           start == [text |-> <<>>, n |-> n]
           Loop(d) == d = [k \in 0 .. Room + 1 |-> IF k = 0 THEN [text |-> <<>>, n |-> n]
                                            ELSE IF d[k - 1].n = 0 THEN d[k - 1]
                                            ELSE [text |-> <<48 + (d[k - 1].n % 10)>> \o d[k - 1].text, n |-> d[k - 1].n \div 10]]
           loop == CHOOSE d : Loop(d)
           F == [k \in 1 .. m |-> [r \in X |-> R(r)]]
<1>1. Room \in Nat /\ m \in Nat /\ m > 0
  BY NumbersAre
<1>2. Numerals!DigitsOf(n) = loop[Room + 1].text
  BY DEF Numerals!DigitsOf
<1>3. \A d : Loop(d) <=> d = [k \in 0 .. m |-> IF k = 0 THEN start ELSE R(d[k - 1])]
  OBVIOUS
<1>4. \A r \in X : R(r) \in X
  <2> TAKE r \in X
  <2>1. r.text \in Seq(Nat) /\ r.n \in Nat
    OBVIOUS
  <2>2. ASSUME r.n # 0 PROVE <<48 + (r.n % 10)>> \o r.text \in Seq(Nat) /\ r.n \div 10 \in Nat
    <3> DEFINE x == r.n  c == <<48 + (x % 10)>>  t == r.text
    <3>1. x \in Nat /\ t \in Seq(Nat)
      BY <2>1
    <3> HIDE DEF x, t
    <3>2. x % 10 \in 0 .. 9 /\ x \div 10 \in Nat
      <4>1. x % 10 \in 0 .. 9 /\ x = 10 * (x \div 10) + (x % 10) /\ x \div 10 \in Int
        BY <3>1
      <4>. QED BY <3>1, <4>1
    <3>3. c \in Seq(Nat)
      BY <3>2
    <3> HIDE DEF c
    <3>4. c \o t \in Seq(Nat)
      BY <3>1, <3>3, ConcatProperties
    <3>. QED BY <3>2, <3>4 DEF x, c, t
  <2>. QED BY <2>2
<1>5. start \in X
  OBVIOUS
<1> HIDE DEF R, X, start, m, Loop
<1>6. \E d : Loop(d)
  <2>1. F \in Rounds(m, X) /\ \A k \in 1 .. m, r \in X : F[k][r] = R(r)
    BY <1>4 DEF Rounds
  <2> HIDE DEF F
  <2>2. PICK h : IsCourse(h, m, X, start, F)
    BY <1>1, <1>5, <2>1, CourseExists
  <2>3. h \in [0 .. m -> X] /\ h[0] = start /\ \A k \in 1 .. m : h[k] = F[k][h[k - 1]]
    BY <2>2 DEF IsCourse
  <2>4. \A k \in 0 .. m : h[k] = IF k = 0 THEN start ELSE R(h[k - 1])
    <3> TAKE k \in 0 .. m
    <3>1. k # 0 => k \in 1 .. m /\ k - 1 \in 0 .. m
      BY <1>1
    <3>. QED BY <2>1, <2>3, <3>1
  <2>5. h = [k \in 0 .. m |-> h[k]]
    BY <2>3
  <2>6. h = [k \in 0 .. m |-> IF k = 0 THEN start ELSE R(h[k - 1])]
    BY <2>4, <2>5
  <2>. QED BY <1>3, <2>6
<1>7. Loop(loop)
  BY <1>6
<1> HIDE DEF loop, F
<1>8. \A k \in 0 .. m : loop[k] = IF k = 0 THEN start ELSE R(loop[k - 1])
  <2>1. loop = [k \in 0 .. m |-> IF k = 0 THEN start ELSE R(loop[k - 1])]
    BY <1>3, <1>7
  <2>. QED BY <2>1
<1> DEFINE Good(k) == /\ loop[k].text \in Seq(Nat) /\ loop[k].n \in Nat
                      /\ Spells(loop[k].text, loop[k].n, n) /\ loop[k].n < Power(10, m - k)
           T == {k \in 0 .. m : Good(k)}
<1>9. Good(0)
  <2>1. 0 \in 0 .. m /\ m - 0 = m
    BY <1>1
  <2>2. loop[0] = start
    BY <1>8, <2>1
  <2>3. loop[0].text = <<>> /\ loop[0].n = n
    BY <2>2 DEF start
  <2>4. Spells(<<>>, n, n)
    <3> DEFINE v == [k \in {0} |-> n]
    <3>1. <<>> \in Seq(Nat) /\ Len(<<>>) = 0 /\ 0 .. 0 = {0} /\ \A k \in 1 .. 0 : FALSE
      OBVIOUS
    <3>2. v \in [{0} -> Nat] /\ v[0] = n
      OBVIOUS
    <3> HIDE DEF v
    <3>3. Course(<<>>, n, n, v)
      BY <3>1, <3>2 DEF Course
    <3>. QED BY <3>3 DEF Spells
  <2>5. n < Power(10, m)
    BY DEF m
  <2>. QED BY <2>1, <2>3, <2>4, <2>5
<1>10. ASSUME NEW k \in 0 .. m - 1, Good(k) PROVE Good(k + 1)
  <2> DEFINE r == loop[k]  x == r.n  t == r.text  j == m - (k + 1)
  <2>1. /\ k + 1 \in 0 .. m /\ k + 1 # 0 /\ (k + 1) - 1 = k /\ j \in Nat /\ m - k = j + 1
    BY <1>1
  <2>2. loop[k + 1] = R(r)
    BY <1>8, <2>1
  <2>3. t \in Seq(Nat) /\ x \in Nat /\ Spells(t, x, n) /\ x < Power(10, j + 1)
    BY <1>10, <2>1
  <2> DEFINE p == Power(10, j)
  <2>4. Power(10, j + 1) = p * 10 /\ p \in Nat \ {0}
    <3>1. 10 \in Int /\ 10 \in Nat \ {0}
      OBVIOUS
    <3> HIDE DEF j
    <3>. QED BY <2>1, <3>1, PowerRound, PowerPositive
  <2> HIDE DEF p, j
  <2>5. CASE x = 0
    <3>1. loop[k + 1] = r
      BY <2>2, <2>5 DEF R
    <3>2. 0 < p
      BY <2>4
    <3>. QED BY <2>3, <2>5, <3>1, <3>2 DEF p, j
  <2>6. CASE x # 0
    <3>1. loop[k + 1].text = <<48 + (x % 10)>> \o t /\ loop[k + 1].n = x \div 10
      BY <2>2, <2>6 DEF R
    <3> HIDE DEF x, t
    <3>2. /\ <<48 + (x % 10)>> \o t \in Seq(Nat) /\ x \div 10 \in Nat
          /\ Spells(<<48 + (x % 10)>> \o t, x \div 10, n)
      BY <2>3, <2>6, SpellsMore
    <3>3. x \div 10 < p
      <4>1. x % 10 \in 0 .. 9 /\ x = 10 * (x \div 10) + (x % 10) /\ x \div 10 \in Int
        BY <2>3
      <4>. QED BY <2>3, <2>4, <4>1
    <3>. QED BY <3>1, <3>2, <3>3 DEF p, j
  <2>. QED BY <2>5, <2>6
<1> HIDE DEF Good
<1>11. 0 .. m \subseteq T
  <2>1. 0 \in T
    BY <1>1, <1>9
  <2>2. ASSUME NEW k \in 0 .. m - 1, k \in T PROVE k + 1 \in T
    BY <1>1, <1>10, <2>2
  <2> HIDE DEF T
  <2>. QED BY <1>1, <2>1, <2>2, InductionUpTo
<1>12. Good(m)
  BY <1>1, <1>11
<1>13. m - m = 0 /\ Power(10, 0) = 1
  <2>1. 10 \in Int /\ 0 \in Nat
    OBVIOUS
  <2>. QED BY <1>1, <2>1, PowerRound
<1>14. loop[m].n = 0 /\ loop[m].text \in Seq(Nat) /\ Spells(loop[m].text, loop[m].n, n)
  BY <1>12, <1>13 DEF Good
<1>. QED BY <1>2, <1>14 DEF m

\* Powers of ten grow.
LEMMA PowerMonotone ==
  ASSUME NEW m \in Nat, NEW n \in Nat, m <= n
  PROVE  /\ Power(10, m) \in Nat \ {0} /\ Power(10, n) \in Nat \ {0}
         /\ Power(10, m) <= Power(10, n)
<1>1. 10 \in Int /\ 10 \in Nat \ {0} /\ n - m \in Nat /\ m + (n - m) = n
  OBVIOUS
<1> DEFINE d == n - m
<1>2. d \in Nat /\ m + d = n
  BY <1>1
<1> HIDE DEF d
<1>3. Power(10, m) \in Nat \ {0} /\ Power(10, d) \in Nat \ {0} /\ Power(10, n) \in Nat \ {0}
  BY <1>1, <1>2, PowerPositive
<1>4. Power(10, n) = Power(10, m) * Power(10, d)
  BY <1>1, <1>2, PowerSum
<1> DEFINE p == Power(10, m)  q == Power(10, d)
<1>5. p \in Nat /\ q \in Nat /\ 1 <= q
  BY <1>3
<1> HIDE DEF p, q
<1>6. p * 1 <= p * q /\ p * 1 = p
  <2>1. p <= p /\ 1 \in Nat
    BY <1>5
  <2>. QED BY <1>5, <2>1, Monotone
<1>. QED BY <1>3, <1>4, <1>6 DEF p, q

\* A number has more than m digits when it is at least the power of ten.
LEMMA LengthIs ==
  ASSUME NEW t \in Seq(Nat), NEW n \in Nat, Spells(t, 0, n), NEW m \in Nat
  PROVE  Len(t) > m <=> n >= Power(10, m)
<1> DEFINE l == Len(t)
<1>1. PICK v : Course(t, 0, n, v)
  BY DEF Spells
<1>2. /\ v \in [0 .. l -> Nat] /\ v[0] = 0 /\ v[l] = n /\ l \in Nat
      /\ \A k \in 1 .. l : t[k] \in 48 .. 57 /\ v[k] = v[k - 1] * 10 + t[k] - 48
      /\ l > 0 => v[1] > 0
  BY <1>1 DEF Course
<1>3. ASSUME NEW k \in Nat PROVE /\ Power(10, k) \in Nat \ {0} /\ Power(10, k + 1) = Power(10, k) * 10 /\ Power(10, 0) = 1
  <2>1. 10 \in Int /\ 10 \in Nat \ {0}
    OBVIOUS
  <2>. QED BY <2>1, PowerRound, PowerPositive
<1> DEFINE Low(k) == v[k] < Power(10, k)
           High(k) == k > 0 => v[k] >= Power(10, k - 1)
           T == {k \in 0 .. l : Low(k) /\ High(k)}
<1> HIDE DEF l
<1>4. 0 \in T
  <2>1. Low(0)
    BY <1>2, <1>3
  <2>. QED BY <1>2, <2>1
<1>5. ASSUME NEW k \in 0 .. l - 1, k \in T PROVE k + 1 \in T
  <2>1. k + 1 \in 1 .. l /\ k + 1 \in 0 .. l /\ (k + 1) - 1 = k /\ k \in Nat /\ k \in 0 .. l /\ l > 0
    BY <1>2
  <2> DEFINE p == Power(10, k)  x == v[k]  y == v[k + 1]  c == t[k + 1]
  <2>2. p \in Nat \ {0} /\ Power(10, k + 1) = p * 10 /\ x \in Nat /\ y \in Nat /\ c \in 48 .. 57
        /\ y = x * 10 + c - 48
    BY <1>2, <1>3, <2>1
  <2>3. x < p /\ High(k)
    BY <1>5
  <2> HIDE DEF p, x, y, c
  <2>4. y < p * 10
    BY <2>2, <2>3
  <2>5. y >= p
    <3>1. CASE k = 0
      <4>1. k + 1 = 1 /\ v[1] > 0 /\ 0 \in Nat
        BY <1>2, <2>1, <3>1
      <4>2. Power(10, 0) = 1
        BY <1>3, <4>1
      <4>3. p = 1
        BY <3>1, <4>2 DEF p
      <4>4. y > 0
        BY <4>1 DEF y
      <4>. QED BY <2>2, <4>3, <4>4
    <3>2. CASE k # 0
      <4> DEFINE q == Power(10, k - 1)
      <4>1. k - 1 \in Nat /\ (k - 1) + 1 = k
        BY <2>1, <3>2
      <4>2. p = q * 10 /\ q \in Nat
        <5> DEFINE j == k - 1
        <5>1. j \in Nat /\ j + 1 = k
          BY <4>1
        <5> HIDE DEF j
        <5>2. Power(10, j + 1) = Power(10, j) * 10 /\ Power(10, j) \in Nat
          BY <1>3, <5>1
        <5>. QED BY <5>1, <5>2 DEF p, j
      <4>3. x >= q
        BY <2>1, <2>3, <3>2 DEF x
      <4> HIDE DEF q
      <4>. QED BY <2>2, <4>2, <4>3
    <3>. QED BY <3>1, <3>2
  <2>6. Low(k + 1) /\ High(k + 1)
    BY <2>1, <2>2, <2>4, <2>5 DEF p, y
  <2>. QED BY <2>1, <2>6
<1> HIDE DEF Low, High
<1>6. 0 .. l \subseteq T
  <2> HIDE DEF T
  <2>. QED BY <1>2, <1>4, <1>5, InductionUpTo
<1>7. Low(l) /\ High(l)
  BY <1>2, <1>6
<1>8. n < Power(10, l) /\ (l > 0 => n >= Power(10, l - 1))
  BY <1>2, <1>7 DEF Low, High
<1>9. ASSUME l > m PROVE n >= Power(10, m)
  <2> DEFINE j == l - 1
  <2>1. j \in Nat /\ m <= j /\ l > 0
    BY <1>2, <1>9
  <2>2. n >= Power(10, j)
    BY <1>8, <2>1
  <2> HIDE DEF j
  <2>3. Power(10, m) \in Nat /\ Power(10, j) \in Nat /\ Power(10, m) <= Power(10, j)
    BY <2>1, PowerMonotone
  <2>. QED BY <2>2, <2>3
<1>10. ASSUME ~(l > m) PROVE ~(n >= Power(10, m))
  <2>1. l <= m
    BY <1>2, <1>10
  <2>2. Power(10, l) \in Nat /\ Power(10, m) \in Nat /\ Power(10, l) <= Power(10, m)
    BY <1>2, <2>1, PowerMonotone
  <2>. QED BY <1>8, <2>2
<1>. QED BY <1>9, <1>10 DEF l

\* Digits without and with a sign before them are read as the number they make.
LEMMA TextReads ==
  ASSUME NEW t \in Seq(Nat), Len(t) > 0, NEW n \in Nat, NEW v, Makes(t, 1, Len(t) + 1, v), v[Len(t)] = n,
         NEW signed \in BOOLEAN, NEW optimized \in BOOLEAN, n <= Top(signed)
  PROVE  Numerals!Parse(t, signed, optimized) = Numerals!Value(n)
<1> DEFINE i == Numerals!First(t, signed)  j == Numerals!End(t, signed)  l == Len(t)
<1>1. /\ v \in [0 .. l -> Nat] /\ v[0] = 0 /\ l \in Nat
      /\ \A k \in 1 .. l : t[k] \in 48 .. 57 /\ v[k] = v[k - 1] * 10 + t[k] - 48
  <2>1. 1 - 1 = 0 /\ (l + 1) - 1 = l
    OBVIOUS
  <2>. QED BY <2>1 DEF Makes
<1>2. t[1] \in 48 .. 57
  BY <1>1
<1>3. Numerals!Past(t, 1, Numerals!Blanks) = 1
  <2> DEFINE p == Numerals!Past(t, 1, Numerals!Blanks)
  <2>1. 1 \in 1 .. Len(t) + 1
    OBVIOUS
  <2>2. StopsAt(t, 1, Numerals!Blanks, p)
    BY <2>1, PastIs
  <2> HIDE DEF p
  <2>3. p \in 1 .. Len(t) + 1 /\ \A k \in 1 .. p - 1 : t[k] \in Numerals!Blanks
    BY <2>2 DEF StopsAt
  <2>4. t[1] \notin Numerals!Blanks
    BY <1>2 DEF Numerals!Blanks
  <2>5. p # 1 => 1 \in 1 .. p - 1
    BY <2>3
  <2>6. p = 1
    BY <2>3, <2>4, <2>5
  <2>. QED BY <2>6 DEF p
<1>4. i = 1
  <2>1. Numerals!At(t, 1) \notin {45, 43}
    BY <1>2 DEF Numerals!At
  <2>. QED BY <1>3, <2>1 DEF Numerals!First, Numerals!Minus, Numerals!Plus
<1>5. StopsAt(t, i, 48 .. 57, j)
  BY FirstIs
<1> HIDE DEF i, j
<1>6. j = l + 1
  <2>1. j \in 1 .. l + 1 /\ (j = l + 1 \/ t[j] \notin 48 .. 57)
    BY <1>4, <1>5 DEF StopsAt
  <2>2. j # l + 1 => j \in 1 .. l
    BY <1>1, <2>1
  <2>. QED BY <1>1, <2>1, <2>2
<1>7. ~Numerals!Negative(t, signed)
  <2>1. ~(i > 1)
    BY <1>4
  <2>. QED BY <2>1 DEF Numerals!Negative, i
<1>8. DigitsAre(t, signed, i, j)
  BY DEF DigitsAre, i, j
<1>9. i < j /\ j > Len(t) /\ j - 1 = l
  BY <1>1, <1>4, <1>6
<1>10. Makes(t, i, j, v) /\ v[j - 1] <= Top(signed)
  BY <1>4, <1>6, <1>9 DEF l
<1>11. Numerals!Parse(t, signed, optimized)
              = Numerals!Value(IF Numerals!Negative(t, signed) THEN -v[j - 1] ELSE v[j - 1])
  <2> HIDE DEF l
  <2>. QED BY <1>8, <1>9, <1>10, ParseIs
<1>. QED BY <1>7, <1>9, <1>11

\* A number with its sign before it is read as the negative number.
LEMMA SignedReads ==
  ASSUME NEW t \in Seq(Nat), Len(t) > 0, NEW n \in Nat, NEW v, Makes(t, 1, Len(t) + 1, v), v[Len(t)] = n,
         NEW optimized \in BOOLEAN, n <= HalfNumber - 1
  PROVE  Numerals!Parse(<<45>> \o t, TRUE, optimized) = Numerals!Value(-n)
<1> DEFINE u == <<45>> \o t  i == Numerals!First(u, TRUE)  j == Numerals!End(u, TRUE)  l == Len(t)
<1>1. /\ v \in [0 .. l -> Nat] /\ v[0] = 0 /\ l \in Nat
      /\ \A k \in 1 .. l : t[k] \in 48 .. 57 /\ v[k] = v[k - 1] * 10 + t[k] - 48
  <2>1. 1 - 1 = 0 /\ (l + 1) - 1 = l
    OBVIOUS
  <2>. QED BY <2>1 DEF Makes
<1>2. u \in Seq(Nat) /\ Len(u) = l + 1 /\ u[1] = 45 /\ \A k \in 2 .. l + 1 : u[k] = t[k - 1]
  <2> DEFINE c == <<45>>
  <2>1. c \in Seq(Nat) /\ Len(c) = 1 /\ c[1] = 45
    OBVIOUS
  <2> HIDE DEF c
  <2>2. c \o t \in Seq(Nat) /\ Len(c \o t) = Len(c) + Len(t)
        /\ \A k \in 1 .. Len(c) + Len(t) : (c \o t)[k] = IF k <= Len(c) THEN c[k] ELSE t[k - Len(c)]
    <3>1. c \in Seq(Nat) /\ t \in Seq(Nat)
      BY <2>1
    <3>. QED BY ONLY <3>1, ConcatProperties
  <2>3. Len(c \o t) = l + 1 /\ \A k \in 1 .. l + 1 : (c \o t)[k] = IF k <= 1 THEN c[k] ELSE t[k - 1]
    BY <1>1, <2>1, <2>2
  <2>4. (c \o t)[1] = 45 /\ \A k \in 2 .. l + 1 : k \in 1 .. l + 1 /\ ~(k <= 1)
    BY <1>1, <2>1, <2>3
  <2>. QED BY <2>2, <2>3, <2>4 DEF c
<1> HIDE DEF u
<1>3. Numerals!Past(u, 1, Numerals!Blanks) = 1
  <2> DEFINE p == Numerals!Past(u, 1, Numerals!Blanks)
  <2>1. 1 \in 1 .. Len(u) + 1
    BY <1>1, <1>2
  <2>2. StopsAt(u, 1, Numerals!Blanks, p)
    BY <1>2, <2>1, PastIs
  <2> HIDE DEF p
  <2>3. p \in 1 .. Len(u) + 1 /\ \A k \in 1 .. p - 1 : u[k] \in Numerals!Blanks
    BY <2>2 DEF StopsAt
  <2>4. u[1] \notin Numerals!Blanks
    BY <1>2 DEF Numerals!Blanks
  <2>5. p # 1 => 1 \in 1 .. p - 1
    BY <2>3
  <2>6. p = 1
    BY <2>3, <2>4, <2>5
  <2>. QED BY <2>6 DEF p
<1>4. i = 2
  <2>1. Numerals!At(u, 1) = 45
    BY <1>1, <1>2 DEF Numerals!At
  <2>. QED BY <1>3, <2>1 DEF Numerals!First, Numerals!Minus, Numerals!Plus
<1>5. StopsAt(u, i, 48 .. 57, j)
  BY <1>2, FirstIs
<1> HIDE DEF i, j
<1>6. j = l + 2
  <2>1. j \in 2 .. l + 2 /\ (j = l + 2 \/ u[j] \notin 48 .. 57)
    <3>1. Len(u) + 1 = l + 2
      BY <1>1, <1>2
    <3>. QED BY <1>4, <1>5, <3>1 DEF StopsAt
  <2>2. j # l + 2 => j \in 2 .. l + 1 /\ j - 1 \in 1 .. l
    BY <1>1, <2>1
  <2>3. j # l + 2 => u[j] = t[j - 1]
    BY <1>2, <2>2
  <2>. QED BY <1>1, <2>1, <2>2, <2>3
<1>7. Numerals!Negative(u, TRUE)
  <2>1. i > 1 /\ i - 1 = 1
    BY <1>4
  <2>2. u[i - 1] = 45
    BY <1>2, <2>1
  <2>3. Numerals!Negative(u, TRUE) <=> i > 1 /\ u[i - 1] = 45
    BY DEF Numerals!Negative, Numerals!Minus, i
  <2>. QED BY <2>1, <2>2, <2>3
<1>8. DigitsAre(u, TRUE, i, j)
  BY DEF DigitsAre, i, j
<1> DEFINE w == [k \in 1 .. l + 1 |-> v[k - 1]]
<1>9. i < j /\ j > Len(u) /\ j - 1 = l + 1 /\ i - 1 = 1 /\ l + 1 \in 1 .. l + 1 /\ 1 \in 1 .. l + 1
  <2>1. l > 0
    OBVIOUS
  <2>. QED BY <1>1, <1>2, <1>4, <1>6, <2>1
<1>10. w \in [1 .. l + 1 -> Nat] /\ \A k \in 1 .. l + 1 : w[k] = v[k - 1]
  <2>1. \A k \in 1 .. l + 1 : k - 1 \in 0 .. l
    BY <1>1
  <2>. QED BY <1>1, <2>1
<1> HIDE DEF w
<1>11. w[1] = 0 /\ w[l + 1] = n
  <2>1. 1 - 1 = 0 /\ (l + 1) - 1 = l
    BY <1>1
  <2>2. w[1] = v[1 - 1] /\ w[l + 1] = v[(l + 1) - 1]
    BY <1>9, <1>10
  <2>. QED BY <1>1, <2>1, <2>2
<1>12. ASSUME NEW k \in i .. j - 1 PROVE u[k] \in 48 .. 57 /\ w[k] = w[k - 1] * 10 + u[k] - 48
  <2>1. k \in 2 .. l + 1 /\ k - 1 \in 1 .. l /\ k \in 1 .. l + 1 /\ k - 1 \in 1 .. l + 1
    BY <1>1, <1>4, <1>9
  <2>2. u[k] = t[k - 1] /\ w[k] = v[k - 1] /\ w[k - 1] = v[(k - 1) - 1]
    BY <1>2, <1>10, <2>1
  <2>. QED BY <1>1, <2>1, <2>2
<1>13. Makes(u, i, j, w)
  BY <1>9, <1>10, <1>11, <1>12 DEF Makes
<1>14. w[j - 1] <= Top(TRUE) /\ w[j - 1] = n
  BY <1>9, <1>11 DEF Top
<1>15. Numerals!Parse(u, TRUE, optimized)
              = Numerals!Value(IF Numerals!Negative(u, TRUE) THEN -w[j - 1] ELSE w[j - 1])
  <2>1. PICK sg \in BOOLEAN : sg = TRUE
    OBVIOUS
  <2>2. DigitsAre(u, sg, i, j) /\ w[j - 1] <= Top(sg)
    <3>1. n <= Top(TRUE)
      BY DEF Top
    <3>. QED BY <1>8, <1>14, <2>1, <3>1
  <2>3. i < j /\ (j > Len(u) \/ u[j] \in Numerals!Blanks)
    BY <1>9
  <2>4. Numerals!Parse(u, sg, optimized)
              = Numerals!Value(IF Numerals!Negative(u, sg) THEN -w[j - 1] ELSE w[j - 1])
    BY <1>2, <1>13, <2>2, <2>3, ParseIs
  <2>. QED BY <2>1, <2>4
<1>. QED BY <1>7, <1>14, <1>15 DEF u

\* The digits of t, at least one, make n.
Denotes(t, n) ==
  t \in Seq(Nat) /\ Len(t) > 0 /\ \E v : Makes(t, 1, Len(t) + 1, v) /\ v[Len(t)] = n

\* The digits of a number that is not zero denote it, and their number is known.
LEMMA DigitsDenote ==
  ASSUME NEW n \in Nat \ {0}, n <= 2 * HalfNumber - 1
  PROVE  /\ Denotes(Numerals!DigitsOf(n), n)
         /\ \A m \in Nat : Len(Numerals!DigitsOf(n)) > m <=> n >= Power(10, m)
<1> DEFINE t == Numerals!DigitsOf(n)
<1>1. n \in Nat /\ n < Power(10, Room + 1)
  <2>1. Room + 1 \in Nat
    BY NumbersAre
  <2>2. Power(10, Room + 1) \in Nat \ {0} /\ HalfNumber \in Nat
    <3>1. 10 \in Nat \ {0}
      OBVIOUS
    <3>. QED BY <2>1, <3>1, PowerPositive, NumbersAre
  <2>. QED BY <2>2, NumbersAre
<1>2. t \in Seq(Nat) /\ Spells(t, 0, n)
  BY <1>1, DigitsOfIs
<1> HIDE DEF t
<1>3. \A m \in Nat : Len(t) > m <=> n >= Power(10, m)
  BY <1>1, <1>2, LengthIs
<1>4. PICK v : Course(t, 0, n, v)
  BY <1>2 DEF Spells
<1>5. Len(t) > 0
  <2>1. Len(t) \in Nat
    BY <1>2
  <2>2. v[0] = 0 /\ v[Len(t)] = n
    BY <1>4 DEF Course
  <2>. QED BY <2>1, <2>2
<1>6. Makes(t, 1, Len(t) + 1, v) /\ v[Len(t)] = n
  <2> DEFINE l == Len(t)
  <2>1. l \in Nat
    BY <1>2
  <2>2. /\ v \in [0 .. l -> Nat] /\ v[0] = 0 /\ v[l] = n
        /\ \A k \in 1 .. l : t[k] \in 48 .. 57 /\ v[k] = v[k - 1] * 10 + t[k] - 48
    BY <1>4 DEF Course
  <2> HIDE DEF l
  <2>3. 1 - 1 = 0 /\ (l + 1) - 1 = l
    BY <2>1
  <2>4. Makes(t, 1, l + 1, v)
    BY <2>2, <2>3 DEF Makes
  <2>. QED BY <2>2, <2>4 DEF l
<1>7. Denotes(t, n)
  BY <1>2, <1>5, <1>6 DEF Denotes
<1>. QED BY <1>3, <1>7 DEF t

\* Zero is written as one digit.
LEMMA ZeroDenotes == Denotes(<<48>>, 0) /\ Len(<<48>>) = 1
<1> DEFINE v == [k \in 0 .. 1 |-> 0]  t == <<48>>
<1>1. t \in Seq(Nat) /\ Len(t) = 1 /\ t[1] = 48
  OBVIOUS
<1>2. v \in [0 .. 1 -> Nat] /\ v[0] = 0 /\ v[1] = 0
  OBVIOUS
<1> HIDE DEF t, v
<1>3. 1 - 1 = 0 /\ (1 + 1) - 1 = 1 /\ \A k \in 1 .. 1 : k = 1
  OBVIOUS
<1>4. \A k \in 1 .. 1 : t[k] \in 48 .. 57 /\ v[k] = v[k - 1] * 10 + t[k] - 48
  <2> TAKE k \in 1 .. 1
  <2>1. k = 1 /\ v[k] = 0 /\ v[k - 1] = 0 /\ t[k] = 48
    BY <1>1, <1>2, <1>3
  <2>. QED BY <2>1
<1>5. Makes(t, 1, 1 + 1, v)
  BY <1>2, <1>3, <1>4 DEF Makes
<1>6. Denotes(t, 0)
  BY <1>1, <1>2, <1>5 DEF Denotes
<1>. QED BY <1>1, <1>6 DEF t

\* What string_from_uint writes denotes the number, and has more digits than m when it is
\* at least the power of ten.
LEMMA FromUintIs ==
  ASSUME NEW n \in Nat, n <= 2 * HalfNumber - 1
  PROVE  /\ Denotes(Numerals!FromUint(n), n)
         /\ \A m \in Nat \ {0} : Len(Numerals!FromUint(n)) > m <=> n >= Power(10, m)
<1>1. CASE n = 0
  <2>1. Numerals!FromUint(n) = <<48>>
    BY <1>1 DEF Numerals!FromUint
  <2>2. ASSUME NEW m \in Nat \ {0} PROVE ~(Len(Numerals!FromUint(n)) > m) /\ ~(n >= Power(10, m))
    <3>1. 10 \in Nat \ {0} /\ m \in Nat
      OBVIOUS
    <3>2. Power(10, m) \in Nat \ {0}
      BY <3>1, PowerPositive
    <3>3. Len(Numerals!FromUint(n)) = 1
      BY <2>1, ZeroDenotes
    <3> DEFINE p == Power(10, m)  l == Len(Numerals!FromUint(n))
    <3>4. p \in Nat \ {0} /\ l = 1
      BY <3>2, <3>3
    <3> HIDE DEF p, l
    <3>5. ~(l > m) /\ ~(n >= p)
      BY <1>1, <3>4
    <3>. QED BY <3>5 DEF p, l
  <2>. QED BY <1>1, <2>1, <2>2, ZeroDenotes
<1>2. CASE n # 0
  <2>1. Numerals!FromUint(n) = Numerals!DigitsOf(n)
    BY <1>2 DEF Numerals!FromUint
  <2>2. n \in Nat \ {0}
    BY <1>2
  <2>. QED BY <2>1, <2>2, DigitsDenote
<1>. QED BY <1>1, <1>2

\* What was written in one call, and read back
WroteWell(text, n, read) ==
  /\ Len(text) <= Room => read = Numerals!Value(n)
  /\ Len(text) > Room <=> n <= -Power(10, Room - 1) \/ n >= Power(10, Room)

LEMMA RoomIs ==
  /\ Room \in Nat \ {0} /\ Room \in Nat /\ Room - 1 \in Nat
  /\ Power(10, Room) \in Nat \ {0} /\ Power(10, Room - 1) \in Nat \ {0}
<1>1. Room \in Nat \ {0} /\ Room \in Nat
  BY NumbersAre
<1> DEFINE m == Room - 1
<1>2. m \in Nat /\ 10 \in Nat \ {0}
  BY <1>1
<1> HIDE DEF m
<1>3. Power(10, Room) \in Nat \ {0} /\ Power(10, m) \in Nat \ {0}
  BY <1>1, <1>2, PowerPositive
<1>. QED BY <1>1, <1>2, <1>3 DEF m

\* Numbers without a sign, and those with one, are read back.
LEMMA NaturalsWritten ==
  ASSUME NEW n \in Nat, NEW signed \in BOOLEAN, NEW optimized \in BOOLEAN, n <= Top(signed),
         NEW text, text = Numerals!FromUint(n), NEW read,
         read \in {Numerals!Parse(text, signed, optimized)} \cup Numerals!Outside(text)
  PROVE  WroteWell(text, n, read)
<1>1. n <= 2 * HalfNumber - 1
  BY NumbersAre DEF Top
<1>2. /\ Denotes(text, n) /\ \A m \in Nat \ {0} : Len(text) > m <=> n >= Power(10, m)
  BY <1>1, FromUintIs
<1>3. PICK v : /\ text \in Seq(Nat) /\ Len(text) > 0
               /\ Makes(text, 1, Len(text) + 1, v) /\ v[Len(text)] = n
  BY <1>2 DEF Denotes
<1>4. Numerals!Parse(text, signed, optimized) = Numerals!Value(n)
  BY <1>3, TextReads
<1>5. Len(text) <= Room => read = Numerals!Value(n)
  <2>1. ASSUME Len(text) <= Room PROVE ~(Len(text) > Room)
    BY <1>3, <2>1, RoomIs
  <2>. QED BY <1>4, <2>1 DEF Numerals!Outside
<1>6. ~(n <= -Power(10, Room - 1))
  <2> DEFINE p == Power(10, Room - 1)
  <2>1. p \in Nat \ {0}
    BY RoomIs
  <2> HIDE DEF p
  <2>2. ~(n <= -p)
    BY <2>1
  <2>. QED BY <2>2 DEF p
<1>. QED BY <1>2, <1>5, <1>6, RoomIs DEF WroteWell

LEMMA NegativesWritten ==
  ASSUME NEW n \in Int, n < 0, n >= -HalfNumber + 1, NEW optimized \in BOOLEAN,
         NEW text, text = <<Numerals!Minus>> \o Numerals!DigitsOf(-n), NEW read,
         read \in {Numerals!Parse(text, TRUE, optimized)} \cup Numerals!Outside(text)
  PROVE  WroteWell(text, n, read)
<1> DEFINE x == -n  t == Numerals!DigitsOf(x)
<1>1. /\ x \in Nat \ {0} /\ x \in Nat /\ x <= 2 * HalfNumber - 1 /\ x <= HalfNumber - 1
  BY NumbersAre
<1>2. -x = n
  OBVIOUS
<1>3. text = <<45>> \o t
  BY DEF Numerals!Minus
<1> HIDE DEF x
<1>4. Denotes(t, x) /\ \A m \in Nat : Len(t) > m <=> x >= Power(10, m)
  BY <1>1, DigitsDenote
<1> HIDE DEF t
<1>5. PICK v : t \in Seq(Nat) /\ Len(t) > 0 /\ Makes(t, 1, Len(t) + 1, v) /\ v[Len(t)] = x
  BY <1>4 DEF Denotes
<1>6. Numerals!Parse(text, TRUE, optimized) = Numerals!Value(n)
  <2>1. Numerals!Parse(<<45>> \o t, TRUE, optimized) = Numerals!Value(-x)
    BY <1>1, <1>5, SignedReads
  <2>. QED BY <1>2, <1>3, <2>1
<1>7. Len(text) = Len(t) + 1 /\ Len(text) \in Nat
  <2> DEFINE c == <<45>>
  <2>1. c \in Seq(Nat) /\ Len(c) = 1
    OBVIOUS
  <2> HIDE DEF c
  <2>2. Len(c \o t) = Len(c) + Len(t)
    BY <1>5, <2>1, ConcatProperties
  <2>3. text = c \o t
    BY <1>3 DEF c
  <2>. QED BY <1>5, <2>1, <2>2, <2>3
<1>8. Len(text) <= Room => read = Numerals!Value(n)
  <2>1. ASSUME Len(text) <= Room PROVE ~(Len(text) > Room)
    BY <1>7, <2>1, RoomIs
  <2>. QED BY <1>6, <2>1 DEF Numerals!Outside
<1>9. Len(text) > Room <=> n <= -Power(10, Room - 1)
  <2> DEFINE m == Room - 1  p == Power(10, m)
  <2>1. m \in Nat /\ Room = m + 1 /\ p \in Nat
    BY RoomIs
  <2>2. Len(t) > m <=> x >= p
    BY <1>4, <2>1
  <2>3. Len(text) > Room <=> Len(t) > m
    BY <1>5, <1>7, <2>1
  <2> HIDE DEF m, p
  <2>4. x >= p <=> n <= -p
    BY <2>1 DEF x
  <2>. QED BY <2>2, <2>3, <2>4 DEF m, p
<1>10. ~(n >= Power(10, Room))
  BY RoomIs
<1>. QED BY <1>8, <1>9, <1>10 DEF WroteWell

NumeralsInv == Numerals!ReadsBack /\ Numerals!ReadsNumerals

\* A call that writes is read back as it was.
LEMMA WritesBack == Numerals!Write => NumeralsInv'
<1> SUFFICES ASSUME Numerals!Write PROVE NumeralsInv'
  OBVIOUS
<1>1. PICK n \in Number, signed \in BOOLEAN, optimized \in BOOLEAN, heap \in BOOLEAN :
        /\ IF signed THEN n <= Numerals!Max64 ELSE n >= 0
        /\ LET text == IF signed THEN Numerals!FromInt(n) ELSE Numerals!FromUint(n)
           IN /\ asked' = [op |-> "write", n |-> n, signed |-> signed]
              /\ \E r \in IF heap THEN {Numerals!Parse(text, signed, optimized)} \cup Numerals!Outside(text)
                                ELSE {Numerals!Parse(<<>>, signed, optimized)} :
                   reply' = [text |-> text, heap |-> heap, read |-> r]
  BY DEF Numerals!Write
<1> DEFINE text == IF signed THEN Numerals!FromInt(n) ELSE Numerals!FromUint(n)
<1>2. PICK answered \in IF heap THEN {Numerals!Parse(text, signed, optimized)} \cup Numerals!Outside(text)
                                  ELSE {Numerals!Parse(<<>>, signed, optimized)} :
        reply' = [text |-> text, heap |-> heap, read |-> answered]
  BY <1>1
<1> DEFINE read == IF heap THEN answered ELSE Numerals!Parse(text, signed, optimized)
<1>3. read \in {Numerals!Parse(text, signed, optimized)} \cup Numerals!Outside(text)
  BY <1>2
<1>4. ~heap => answered.err # "ok"
  BY <1>2 DEF Numerals!Parse, Numerals!Bad
<1>5. heap => answered = read
  OBVIOUS
<1> HIDE DEF read
<1>6. n \in -HalfNumber + 1 .. 2 * HalfNumber - 1 /\ n \in Int /\ HalfNumber \in Nat
      /\ (signed => n <= HalfNumber - 1) /\ (~signed => n >= 0)
  <2>1. n \in -HalfNumber + 1 .. 2 * HalfNumber - 1 /\ HalfNumber \in Nat /\ Numerals!Max64 = HalfNumber - 1
    BY NumbersAre
  <2>. QED BY <1>1, <2>1
<1>7. asked'.op = "write" /\ asked'.n = n /\ reply'.text = text /\ reply'.heap = heap /\ reply'.read = answered
  BY <1>1, <1>2
<1> HIDE DEF text
<1>8. WroteWell(text, n, read)
  <2>1. CASE n >= 0
    <3>1. n \in Nat /\ n <= Top(signed)
      BY <1>6, <2>1 DEF Top
    <3>2. text = Numerals!FromUint(n)
      <4>1. ~(n < 0)
        BY <1>6, <2>1
      <4>. QED BY <4>1 DEF text, Numerals!FromInt
    <3>. QED BY <1>3, <3>1, <3>2, NaturalsWritten
  <2>2. CASE n < 0
    <3>1. signed = TRUE /\ n >= -HalfNumber + 1
      BY <1>6, <2>2
    <3>2. text = <<Numerals!Minus>> \o Numerals!DigitsOf(-n)
      BY <2>2, <3>1 DEF text, Numerals!FromInt
    <3>3. read \in {Numerals!Parse(text, TRUE, optimized)} \cup Numerals!Outside(text)
      BY <1>3, <3>1
    <3>. QED BY <1>6, <2>2, <3>1, <3>2, <3>3, NegativesWritten
  <2>. QED BY <1>6, <2>1, <2>2
<1>9. Numerals!ReadsBack'
  <2>1. Numerals!Power(10, Room - 1) = Power(10, Room - 1) /\ Numerals!Power(10, Room) = Power(10, Room)
    BY SamePower
  <2>2. /\ reply'.heap /\ Len(reply'.text) <= Room => reply'.read = Numerals!Value(asked'.n)
        /\ ~reply'.heap => reply'.read.err # "ok"
        /\ Len(reply'.text) > Room <=> asked'.n <= -Power(10, Room - 1) \/ asked'.n >= Power(10, Room)
    BY <1>7, <1>8, <1>4, <1>5 DEF WroteWell
  <2>. QED BY <2>1, <2>2 DEF Numerals!ReadsBack, Numerals!Value
<1>10. Numerals!ReadsNumerals'
  BY <1>7 DEF Numerals!ReadsNumerals
<1>. QED BY <1>9, <1>10 DEF NumeralsInv

\* A string is refused when no digit is where its digits should begin, or when something
\* else than a blank is where they end.
LEMMA RefusedIs ==
  ASSUME NEW s \in Seq(Nat), NEW signed \in BOOLEAN, NEW optimized \in BOOLEAN, NEW i, NEW j,
         DigitsAre(s, signed, i, j),
         ~(s # <<>> /\ j > i /\ (j > Len(s) \/ s[j] \in Numerals!Blanks))
  PROVE  Numerals!Parse(s, signed, optimized).err # "ok"
<1> DEFINE v == Numerals!Accumulated(s, i, j, signed, optimized)
<1>1. /\ i \in 1 .. Len(s) + 1 /\ StopsAt(s, i, 48 .. 57, j) /\ Len(s) \in Nat
  BY FirstIs DEF DigitsAre
<1>2. /\ j \in i .. Len(s) + 1 /\ (j = Len(s) + 1 \/ s[j] \notin 48 .. 57)
  BY <1>1 DEF StopsAt
<1>3. Numerals!Parse(s, signed, optimized)
        = IF s = <<>> THEN Numerals!Bad("invalid_parameter")
          ELSE IF Numerals!At(s, i) \notin Numerals!Digits THEN Numerals!Bad("unexpected_byte")
          ELSE IF v.err # "ok" THEN v
          ELSE IF j <= Len(s) /\ s[j] \notin Numerals!Blanks THEN Numerals!Bad("unexpected_byte")
          ELSE Numerals!Value(IF Numerals!Negative(s, signed) THEN Numerals!Signed(-v.value) ELSE v.value)
  BY DEF Numerals!Parse, DigitsAre
<1> HIDE DEF v
<1>4. \A e \in {"invalid_parameter", "unexpected_byte"} : Numerals!Bad(e).err # "ok"
  BY DEF Numerals!Bad
<1>5. CASE s = <<>>
  BY <1>3, <1>4, <1>5
<1>6. CASE s # <<>> /\ ~(j > i)
  <2>1. j = i
    BY <1>1, <1>2, <1>6
  <2>2. Numerals!At(s, i) \notin Numerals!Digits
    <3>1. CASE i <= Len(s)
      <4>1. i # Len(s) + 1
        BY <1>1, <3>1
      <4>. QED BY <1>2, <2>1, <3>1, <4>1 DEF Numerals!At, Numerals!Digits
    <3>2. CASE ~(i <= Len(s))
      BY <3>2 DEF Numerals!At, Numerals!Digits
    <3>. QED BY <3>1, <3>2
  <2>. QED BY <1>3, <1>4, <1>6, <2>2
<1>7. CASE s # <<>> /\ ~(j > Len(s) \/ s[j] \in Numerals!Blanks)
  <2>1. j <= Len(s) /\ s[j] \notin Numerals!Blanks
    BY <1>1, <1>2, <1>7
  <2>2. CASE Numerals!At(s, i) \notin Numerals!Digits
    BY <1>3, <1>4, <1>7, <2>2
  <2>3. CASE Numerals!At(s, i) \in Numerals!Digits /\ v.err # "ok"
    BY <1>3, <1>7, <2>3
  <2>4. CASE Numerals!At(s, i) \in Numerals!Digits /\ v.err = "ok"
    BY <1>3, <1>4, <1>7, <2>1, <2>4
  <2>. QED BY <2>2, <2>3, <2>4
<1>. QED BY <1>5, <1>6, <1>7

\* A call that reads gives the value, or refuses.
LEMMA NumeralsRead == Numerals!Read => NumeralsInv'
<1> SUFFICES ASSUME Numerals!Read PROVE NumeralsInv'
  OBVIOUS
<1>1. PICK s \in Numeral, signed \in BOOLEAN, optimized \in BOOLEAN :
        asked' = [op |-> "read", s |-> s, signed |-> signed] /\ reply' = Numerals!Parse(s, signed, optimized)
  BY DEF Numerals!Read
<1>2. s \in Seq(Nat) /\ asked'.op = "read" /\ asked'.s = s /\ asked'.signed = signed
  BY <1>1, NumbersAre
<1> DEFINE i == Numerals!First(s, signed)  j == Numerals!End(s, signed)  e == Numerals!ExactValue(s, signed)
           isNumeral == s # <<>> /\ j > i /\ (j > Len(s) \/ s[j] \in Numerals!Blanks)
           has == IF signed THEN e \in Numerals!Min64 + 1 .. Numerals!Max64 ELSE e <= Numerals!MaxU64
<1>3. DigitsAre(s, signed, i, j)
  BY DEF DigitsAre
<1>4. /\ i \in 1 .. Len(s) + 1 /\ StopsAt(s, i, 48 .. 57, j) /\ (Numerals!Negative(s, signed) => signed)
  BY <1>2, FirstIs
<1> HIDE DEF i, j
<1>5. ASSUME isNumeral, has PROVE Numerals!Parse(s, signed, optimized) = Numerals!Value(e)
  <2>1. PICK v : Makes(s, i, j, v) /\ e = IF Numerals!Negative(s, signed) THEN -v[j - 1] ELSE v[j - 1]
    BY <1>2, <1>3, ExactIs
  <2> HIDE DEF e
  <2>2. i < j /\ (j > Len(s) \/ s[j] \in Numerals!Blanks) /\ i \in Nat /\ j \in Nat
    <3>1. Len(s) \in Nat
      BY <1>2
    <3>2. i \in Nat /\ j \in Nat
      BY <1>4, <3>1 DEF StopsAt
    <3>. QED BY <1>5, <3>2
  <2> DEFINE x == v[j - 1]
  <2>3. x \in Nat
    <3>1. j - 1 \in i - 1 .. j - 1
      BY <2>2
    <3>. QED BY <2>1, <3>1 DEF Makes
  <2>4. e = IF Numerals!Negative(s, signed) THEN -x ELSE x
    BY <2>1
  <2> HIDE DEF x
  <2>5. x <= Top(signed)
    <3>1. CASE signed
      <4>1. e \in -HalfNumber + 1 .. HalfNumber - 1 /\ HalfNumber \in Nat
        BY <1>5, <3>1, NumbersAre
      <4>2. Top(signed) = HalfNumber - 1
        BY <3>1 DEF Top
      <4>3. CASE Numerals!Negative(s, signed)
        <5>1. e = -x
          BY <2>4, <4>3
        <5>. QED BY <2>3, <4>1, <4>2, <5>1
      <4>4. CASE ~Numerals!Negative(s, signed)
        BY <2>4, <4>1, <4>2, <4>4
      <4>. QED BY <4>3, <4>4
    <3>2. CASE ~signed
      <4>1. e = x
        BY <1>4, <2>4, <3>2
      <4>2. e <= 2 * HalfNumber - 1
        BY <1>5, <3>2, NumbersAre
      <4>. QED BY <3>2, <4>1, <4>2 DEF Top
    <3>. QED BY <3>1, <3>2
  <2>6. v[j - 1] <= Top(signed)
    BY <2>5 DEF x
  <2>7. Numerals!Parse(s, signed, optimized)
              = Numerals!Value(IF Numerals!Negative(s, signed) THEN -v[j - 1] ELSE v[j - 1])
    BY <1>2, <1>3, <2>1, <2>2, <2>6, ParseIs
  <2>. QED BY <2>4, <2>7 DEF x
<1>6. ASSUME ~isNumeral PROVE Numerals!Parse(s, signed, optimized).err # "ok"
  BY <1>2, <1>3, <1>6, RefusedIs
<1>7. Numerals!ReadsNumerals'
  <2>1. /\ isNumeral /\ has => reply' = Numerals!Value(e)
        /\ ~isNumeral => reply'.err # "ok"
    BY <1>1, <1>5, <1>6
  <2>. QED BY <1>2, <2>1 DEF Numerals!ReadsNumerals, i, j
<1>8. Numerals!ReadsBack'
  BY <1>2 DEF Numerals!ReadsBack
<1>. QED BY <1>7, <1>8 DEF NumeralsInv

LEMMA NumeralsStart == Numerals!NumeralsInit => NumeralsInv
BY DEF Numerals!NumeralsInit, NumeralsInv, Numerals!ReadsBack, Numerals!ReadsNumerals

LEMMA NumeralsStay ==
  ASSUME NumeralsInv, UNCHANGED numeralVars
  PROVE  NumeralsInv'
BY DEF NumeralsInv, numeralVars, Numerals!ReadsBack, Numerals!ReadsNumerals

-----------------------------------------------------------------------------
(* What the parts hold together *)

\* In a step of a behaviour every part makes a step of its own or none.
LEMMA StepOfParts ==
  [LibraryNext]_libraryVars =>
    /\ [Writer!Next]_writerVars /\ [Blocks!BuffersNext]_bufferVars /\ [Strings!Next]_dest
    /\ [Pieces!PiecesNext]_pieceVars /\ [Math!Compute]_mathVars
    /\ [Numerals!Write \/ Numerals!Read]_numeralVars
<1> SUFFICES ASSUME [LibraryNext]_libraryVars
             PROVE  /\ [Writer!Next]_writerVars /\ [Blocks!BuffersNext]_bufferVars /\ [Strings!Next]_dest
                    /\ [Pieces!PiecesNext]_pieceVars /\ [Math!Compute]_mathVars
                    /\ [Numerals!Write \/ Numerals!Read]_numeralVars
  OBVIOUS
<1>1. CASE LibraryNext
  BY <1>1 DEF LibraryNext
<1>2. CASE UNCHANGED libraryVars
  BY <1>2 DEF libraryVars
<1>. QED BY <1>1, <1>2

\* What was written to a writer stays in its place over growth, errors, resizes and calls
\* that end halfway, a string is terminated right after it, and a call on a string that
\* reports no error has written all of its text (xstd_writer.h); a buffer has the size it
\* says, and two are equal when they have the same bytes (xstd_buffer.h).
THEOREM StorageAlwaysHolds == LibrarySpec => []StorageHolds
<1>1. LibraryInit => WriterInv /\ BuffersInv
  BY WriterStarts, BuffersStart DEF LibraryInit
<1>2. WriterInv /\ BuffersInv /\ [LibraryNext]_libraryVars => (WriterInv /\ BuffersInv)'
  BY StepOfParts, WriterKeeps, BuffersKeep
<1>3. WriterInv /\ BuffersInv => StorageHolds
  BY WriterHolds, BuffersHold DEF StorageHolds
<1>. QED BY <1>1, <1>2, <1>3, PTL DEF LibrarySpec

\* What holds of the calls on strings and numbers, whichever part is at work
CallsInv == StringsInv /\ PiecesInv /\ Math!ArithmeticExact /\ NumeralsInv

LEMMA CallsStart == LibraryInit => CallsInv
<1> SUFFICES ASSUME LibraryInit PROVE CallsInv
  OBVIOUS
<1>1. StringsInv
  BY StringsStart DEF LibraryInit
<1>2. PiecesInv
  BY PiecesStart, PiecesAtRest DEF LibraryInit
<1>3. Math!ArithmeticExact
  <2>1. Math!MathInit
    BY DEF LibraryInit
  <2>. QED BY <2>1 DEF Math!MathInit, Math!ArithmeticExact
<1>4. NumeralsInv
  BY NumeralsStart DEF LibraryInit
<1>. QED BY <1>1, <1>2, <1>3, <1>4 DEF CallsInv

LEMMA CallsKeep == CallsInv /\ [LibraryNext]_libraryVars => CallsInv'
<1> SUFFICES ASSUME CallsInv, [LibraryNext]_libraryVars PROVE CallsInv'
  OBVIOUS
<1>1. /\ StringsInv /\ PiecesInv /\ Math!ArithmeticExact /\ NumeralsInv
  BY DEF CallsInv
<1>2. /\ [Strings!Next]_dest /\ [Pieces!PiecesNext]_pieceVars /\ [Math!Compute]_mathVars
      /\ [Numerals!Write \/ Numerals!Read]_numeralVars
  BY StepOfParts
<1>3. StringsInv'
  BY <1>1, <1>2, StringsKeep
<1>4. PiecesInv'
  <2>1. CASE Pieces!PiecesNext
    BY <1>1, <2>1, PiecesKeep
  <2>2. CASE UNCHANGED pieceVars
    BY <1>1, <2>2, PiecesStay
  <2>. QED BY <1>2, <2>1, <2>2
<1>5. Math!ArithmeticExact'
  <2>1. CASE Math!Compute
    BY <2>1, ComputesExactly
  <2>2. CASE UNCHANGED mathVars
    BY <1>1, <2>2 DEF mathVars, Math!ArithmeticExact
  <2>. QED BY <1>2, <2>1, <2>2
<1>6. NumeralsInv'
  <2>1. CASE Numerals!Write
    BY <2>1, WritesBack
  <2>2. CASE Numerals!Read
    BY <2>2, NumeralsRead
  <2>3. CASE UNCHANGED numeralVars
    BY <1>1, <2>3, NumeralsStay
  <2>. QED BY <1>2, <2>1, <2>2, <2>3
<1>. QED BY <1>3, <1>4, <1>5, <1>6 DEF CallsInv

\* Searches and comparisons of strings agree with each other, what is trimmed, split or
\* replaced is put together right from allocations that may be refused, numbers are read
\* back as they were written unless their string was refused, and checked arithmetic is exact
\* or reports that it is not, but for functions without a wider word than their type (u32 and
\* i32 in the 32-bit build, xstd_core.h), and the exceptions that ArithmeticExact
\* names (xstd_string.h, xstd_math.h).
THEOREM CallsAreExact == LibrarySpec => []CallsExact
<1>1. LibraryInit => CallsInv
  BY CallsStart
<1>2. CallsInv /\ [LibraryNext]_libraryVars => CallsInv'
  BY CallsKeep
<1>3. CallsInv => CallsExact
  BY StringsHold, PiecesHold DEF CallsInv, CallsExact, NumeralsInv
<1>. QED BY <1>1, <1>2, <1>3, PTL DEF LibrarySpec
=============================================================================
