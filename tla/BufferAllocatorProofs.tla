------------------------ MODULE BufferAllocatorProofs ------------------------
(***************************************************************************)
(* Proofs about BufferAllocator: the blocks tile the buffer, agree with     *)
(* what callers hold and are joined completely; a request is refused only   *)
(* when the buffer has no room; and the allocator implements Heap.          *)
(***************************************************************************)
EXTENDS MCBufferAllocator, RankingProofs

\* No request is so large that its size with padding and header overflows: one that
\* does is given a block that is too small.
NoOverflow == \A n \in Size : n + BlockSize + 2 * Align <= Word

-----------------------------------------------------------------------------
(* Sizes *)

LEMMA AlignedBounds ==
  ASSUME NEW x \in Nat, x + Align <= Word
  PROVE  Aligned(x) \in Nat /\ x <= Aligned(x) /\ Aligned(x) < x + Align
<1> DEFINE top == (x + Align - 1) % Word
           below == top % Align
<1>1. Align \in Nat \ {0} /\ Word \in Nat \ {0}
  BY BufferAssumption
<1>2. x + Align - 1 \in 0 .. Word - 1
  BY <1>1
<1>3. top = x + Align - 1
  BY <1>1, <1>2
<1>4. below \in 0 .. Align - 1
  <2> HIDE DEF top
  <2>1. top \in Nat
    BY <1>1, <1>3
  <2> QED
    BY <1>1, <2>1
<1>5. Aligned(x) = top - below
  BY DEF Aligned
<1> HIDE DEF top, below
<1>6. below \in Int /\ top \in Int /\ 0 <= below /\ below <= Align - 1
  BY <1>1, <1>3, <1>4
<1> QED
  BY <1>1, <1>3, <1>5, <1>6

LEMMA HeaderSize == Header \in Nat \ {0} /\ Header < BlockSize + Align
<1>1. BlockSize \in Nat \ {0} /\ BlockSize + Align <= Word
  BY BufferAssumption
<1>2. Aligned(BlockSize) \in Nat /\ BlockSize <= Aligned(BlockSize)
      /\ Aligned(BlockSize) < BlockSize + Align
  BY <1>1, AlignedBounds
<1> HIDE DEF Aligned
<1> QED
  BY <1>1, <1>2 DEF Header

\* A block that is large enough for the total has room for what was asked for.
LEMMA TotalSizeBounds ==
  ASSUME NoOverflow, NEW n \in Size
  PROVE  TotalSize(n) \in Nat /\ n + Header <= TotalSize(n)
<1>1. n \in Nat /\ n + BlockSize + 2 * Align <= Word
  BY SizeAssumption DEF NoOverflow
<1>2. Align \in Nat \ {0} /\ Word \in Nat /\ BlockSize \in Nat \ {0}
  BY BufferAssumption
<1>3. n + Align <= Word
  BY <1>1, <1>2
<1>4. Aligned(n) \in Nat /\ n <= Aligned(n) /\ Aligned(n) < n + Align
  BY <1>1, <1>3, AlignedBounds
<1>5. Header \in Nat /\ Header < BlockSize + Align
  BY HeaderSize
<1> HIDE DEF Aligned, Header
<1>6. Aligned(n) + Header \in 0 .. Word - 1
  BY <1>1, <1>2, <1>4, <1>5
<1>7. TotalSize(n) = Aligned(n) + Header
  BY <1>2, <1>6 DEF TotalSize
<1> QED
  BY <1>1, <1>4, <1>5, <1>7

LEMMA FirstSize == First \in Nat \ {0} /\ Capacity \in Nat /\ First + Header <= Capacity
<1>1. Skew \in Nat /\ StateSize \in Nat \ {0} /\ Capacity \in Nat /\ First + Header <= Capacity
  BY BufferAssumption
<1> QED
  BY <1>1 DEF First

-----------------------------------------------------------------------------
(* Lists of blocks *)

\* The list bs covers the buffer, its blocks in the order of their addresses.
\* That blocks follow one another at once makes them disjoint; stated for all
\* pairs, since it does not follow without induction.
Covers(bs) ==
  /\ bs \in Seq(Block)
  /\ Len(bs) > 0
  /\ bs[1].addr = First
  /\ \A i \in 1 .. Len(bs) - 1 : bs[i].addr + bs[i].size = bs[i + 1].addr
  /\ bs[Len(bs)].addr + bs[Len(bs)].size = Capacity
  /\ \A i \in 1 .. Len(bs) : bs[i].size >= Header
  /\ \A i, j \in 1 .. Len(bs) : i < j => bs[i].addr + bs[i].size <= bs[j].addr

Joined(bs) == \A i \in 1 .. Len(bs) - 1 : ~(bs[i].free /\ bs[i + 1].free)

LEMMA BlockTypes ==
  ASSUME NEW bs, Covers(bs), NEW i \in 1 .. Len(bs)
  PROVE  /\ bs[i] \in Block
         /\ bs[i].addr \in Nat /\ bs[i].size \in Nat /\ bs[i].free \in BOOLEAN
         /\ bs[i].size >= Header
<1>1. bs \in Seq(Block) /\ bs[i].size >= Header
  BY DEF Covers
<1>2. bs[i] \in Block
  BY <1>1
<1> QED
  BY <1>1, <1>2 DEF Block

\* Blocks at different places of the list have different addresses and share
\* no byte.
LEMMA BlocksDisjoint ==
  ASSUME NEW bs, Covers(bs), NEW i \in 1 .. Len(bs), NEW j \in 1 .. Len(bs), i # j
  PROVE  /\ bs[i].addr # bs[j].addr
         /\ bs[i].addr + bs[i].size <= bs[j].addr \/ bs[j].addr + bs[j].size <= bs[i].addr
<1>1. Len(bs) \in Nat
  BY DEF Covers
<1>2. \A k, l \in 1 .. Len(bs) : k < l => bs[k].addr + bs[k].size <= bs[l].addr
  BY DEF Covers
<1>3. i < j \/ j < i
  BY <1>1
<1>4. bs[i].addr + bs[i].size <= bs[j].addr \/ bs[j].addr + bs[j].size <= bs[i].addr
  BY <1>2, <1>3
<1>5. /\ bs[i].addr \in Nat /\ bs[i].size \in Nat /\ bs[i].size >= Header
      /\ bs[j].addr \in Nat /\ bs[j].size \in Nat /\ bs[j].size >= Header
  BY BlockTypes
<1>6. Header \in Nat \ {0}
  BY HeaderSize
<1> HIDE DEF Header
<1> QED
  BY <1>4, <1>5, <1>6

\* Every block lies in the buffer.
LEMMA BlocksInside ==
  ASSUME NEW bs, Covers(bs), NEW i \in 1 .. Len(bs)
  PROVE  First <= bs[i].addr /\ bs[i].addr + bs[i].size <= Capacity
<1> DEFINE n == Len(bs)
<1>1. n \in Nat /\ n > 0 /\ 1 \in 1 .. n /\ n \in 1 .. n
  BY DEF Covers
<1>2. /\ bs[1].addr \in Nat /\ bs[1].size \in Nat /\ bs[n].addr \in Nat /\ bs[n].size \in Nat
      /\ bs[i].addr \in Nat /\ bs[i].size \in Nat
  BY <1>1, BlockTypes
<1>3. bs[1].addr = First /\ bs[n].addr + bs[n].size = Capacity
  BY DEF Covers
<1>4. i = 1 \/ bs[1].addr + bs[1].size <= bs[i].addr
  BY <1>1 DEF Covers
<1>5. i = n \/ bs[i].addr + bs[i].size <= bs[n].addr
  BY <1>1 DEF Covers
<1> HIDE DEF First, n
<1>6. First <= bs[i].addr
  BY <1>2, <1>3, <1>4
<1>7. bs[i].addr + bs[i].size <= Capacity
  BY <1>2, <1>3, <1>5
<1> QED
  BY <1>6, <1>7

LEMMA InUseMembers ==
  ASSUME NEW bs, bs \in Seq(Block)
  PROVE  /\ \A b : b \in InUse(bs) <=> \E i \in 1 .. Len(bs) : ~bs[i].free /\ b = bs[i]
         /\ InUse(bs) \subseteq Block
<1>1. DOMAIN bs = 1 .. Len(bs) /\ \A i \in 1 .. Len(bs) : bs[i] \in Block
  OBVIOUS
<1> QED
  BY <1>1 DEF InUse

LEMMA AppendTwo ==
  ASSUME NEW s, s \in Seq(Block), NEW b \in Block, NEW c \in Block
  PROVE  /\ s \o <<b, c>> \in Seq(Block)
         /\ Len(s \o <<b, c>>) = Len(s) + 2
         /\ \A k \in 1 .. Len(s) : (s \o <<b, c>>)[k] = s[k]
         /\ (s \o <<b, c>>)[Len(s) + 1] = b
         /\ (s \o <<b, c>>)[Len(s) + 2] = c
<1>1. <<b, c>> \in Seq(Block) /\ Len(<<b, c>>) = 2 /\ <<b, c>>[1] = b /\ <<b, c>>[2] = c
  OBVIOUS
<1> DEFINE t == <<b, c>>
<1>2. Len(t) = 2 /\ t[1] = b /\ t[2] = c
  BY <1>1
<1>3. t \in Seq(Block)
  BY <1>1
<1> HIDE DEF t
<1>4. s \o t \in Seq(Block)
  BY <1>3
<1>5. Len(s \o t) = Len(s) + Len(t)
  BY <1>3
<1>6. \A k \in 1 .. Len(s) : (s \o t)[k] = s[k]
  BY <1>3
<1>7. \A k \in Len(s) + 1 .. Len(s) + Len(t) : (s \o t)[k] = t[k - Len(s)]
  BY <1>3
<1>8. (s \o t)[Len(s) + 1] = b /\ (s \o t)[Len(s) + 2] = c
  <2>1. Len(s) \in Nat
    OBVIOUS
  <2>2. /\ Len(s) + 1 \in Len(s) + 1 .. Len(s) + Len(t) /\ (Len(s) + 1) - Len(s) = 1
        /\ Len(s) + 2 \in Len(s) + 1 .. Len(s) + Len(t) /\ (Len(s) + 2) - Len(s) = 2
    BY <1>2, <2>1
  <2> QED
    BY <1>2, <1>7, <2>2
<1> QED
  BY <1>2, <1>4, <1>5, <1>6, <1>8 DEF t

\* The list nb has the blocks b and c for block i of bs.
IsSplit(nb, bs, i, b, c) ==
  /\ nb \in Seq(Block)
  /\ Len(nb) = Len(bs) + 1
  /\ \A k \in 1 .. i - 1 : nb[k] = bs[k]
  /\ nb[i] = b /\ nb[i + 1] = c
  /\ \A k \in i + 2 .. Len(bs) + 1 : nb[k] = bs[k - 1]

\* The list that Taken makes when it splits block i.
LEMMA SplitElements ==
  ASSUME NEW bs, bs \in Seq(Block), NEW i \in 1 .. Len(bs), NEW b \in Block, NEW c \in Block
  PROVE  IsSplit(SubSeq(bs, 1, i - 1) \o <<b, c>> \o SubSeq(bs, i + 1, Len(bs)), bs, i, b, c)
<1> DEFINE nb == SubSeq(bs, 1, i - 1) \o <<b, c>> \o SubSeq(bs, i + 1, Len(bs))
           before == SubSeq(bs, 1, i - 1)
           after == SubSeq(bs, i + 1, Len(bs))
<1>1. Len(bs) \in Nat /\ i \in Nat /\ i >= 1 /\ i <= Len(bs)
  OBVIOUS
<1>2. before \in Seq(Block) /\ Len(before) = i - 1 /\ \A k \in 1 .. i - 1 : before[k] = bs[k]
  BY <1>1
<1>3. /\ after \in Seq(Block) /\ Len(after) = Len(bs) - i
      /\ \A k \in 1 .. Len(bs) - i : after[k] = bs[i + k]
  BY <1>1
<1>4. <<b, c>> \in Seq(Block) /\ Len(<<b, c>>) = 2 /\ <<b, c>>[1] = b /\ <<b, c>>[2] = c
  OBVIOUS
<1> DEFINE pair == <<b, c>>
<1>5. nb = before \o pair \o after
  OBVIOUS
<1> HIDE DEF nb, before, after, pair
<1>6. /\ before \o pair \in Seq(Block)
      /\ Len(before \o pair) = i + 1
      /\ \A k \in 1 .. i - 1 : (before \o pair)[k] = bs[k]
      /\ (before \o pair)[i] = b /\ (before \o pair)[i + 1] = c
  <2>1. /\ before \o <<b, c>> \in Seq(Block)
        /\ Len(before \o <<b, c>>) = Len(before) + 2
        /\ \A k \in 1 .. Len(before) : (before \o <<b, c>>)[k] = before[k]
        /\ (before \o <<b, c>>)[Len(before) + 1] = b
        /\ (before \o <<b, c>>)[Len(before) + 2] = c
    <3>1. before \in Seq(Block)
      BY <1>2
    <3> QED
      BY <3>1, AppendTwo
  <2>2. Len(before) + 1 = i /\ Len(before) + 2 = i + 1
    BY <1>1, <1>2
  <2> QED
    BY <1>2, <2>1, <2>2 DEF pair
<1> DEFINE front == before \o pair
<1> HIDE DEF front
<1>7. /\ front \in Seq(Block) /\ Len(front) = i + 1
      /\ \A k \in 1 .. i - 1 : front[k] = bs[k]
      /\ front[i] = b /\ front[i + 1] = c
      /\ nb = front \o after
  BY <1>5, <1>6 DEF front
<1>8. /\ front \in Seq(Block) /\ after \in Seq(Block) /\ nb = front \o after
      /\ Len(front) = i + 1 /\ Len(after) = Len(bs) - i
  BY <1>3, <1>7
<1>12. nb \in Seq(Block) /\ Len(nb) = Len(bs) + 1
  <2>1. front \in Seq(Block) /\ after \in Seq(Block) /\ nb = front \o after
    BY <1>8
  <2>4. nb \in Seq(Block)
    BY <2>1
  <2>5. Len(nb) = Len(front) + Len(after)
    BY <2>1
  <2>2. Len(front) = i + 1 /\ Len(after) = Len(bs) - i
    BY <1>8
  <2>3. Len(nb) = Len(bs) + 1
    BY <1>1, <2>5, <2>2
  <2> QED
    BY <2>4, <2>3
<1>9. \A k \in 1 .. i + 1 : nb[k] = front[k]
  BY <1>1, <1>8
<1>10. \A k \in i + 2 .. Len(bs) + 1 : nb[k] = after[k - (i + 1)]
  BY <1>1, <1>8
<1>11. \A k \in i + 2 .. Len(bs) + 1 : nb[k] = bs[k - 1]
  <2> TAKE k \in i + 2 .. Len(bs) + 1
  <2>1. k - (i + 1) \in 1 .. Len(bs) - i /\ i + (k - (i + 1)) = k - 1
    BY <1>1
  <2> QED
    BY <1>3, <1>10, <2>1
<1> QED
  <2>1. \A k \in 1 .. i - 1 : nb[k] = bs[k]
    BY <1>1, <1>7, <1>9
  <2>2. nb[i] = b /\ nb[i + 1] = c
    BY <1>1, <1>7, <1>9
  <2>3. \A k \in i + 2 .. Len(bs) + 1 : nb[k] = bs[k - 1]
    BY <1>11
  <2>4. IsSplit(nb, bs, i, b, c)
    BY <1>12, <2>1, <2>2, <2>3 DEF IsSplit
  <2> QED
    BY <2>4 DEF nb

LEMMA EndsInOrder ==
  ASSUME NEW a \in Nat, NEW s \in Nat, NEW c \in Nat, NEW t \in Nat, NEW d \in Nat, NEW e \in Nat,
         a + s <= c + t, c + t <= d, d <= e
  PROVE  a + s <= e
OBVIOUS

\* A block in use that is split in two, the first of them in use.
LEMMA SplitProperties ==
  ASSUME NEW bs, Covers(bs), NEW i \in 1 .. Len(bs), bs[i].free,
         NEW total \in Nat, total >= Header, bs[i].size - total >= Header,
         NEW b \in Block, b.addr = bs[i].addr, b.size = total, ~b.free,
         NEW c \in Block, c.addr = bs[i].addr + total, c.size = bs[i].size - total, c.free,
         NEW nb, IsSplit(nb, bs, i, b, c)
  PROVE  /\ Covers(nb)
         /\ InUse(nb) = InUse(bs) \cup {b}
         /\ Joined(bs) => Joined(nb)
<1> DEFINE n == Len(bs)
<1>1. n \in Nat /\ i \in Nat /\ i >= 1 /\ i <= n
  BY DEF Covers
<1>2. bs \in Seq(Block) /\ bs[i].addr \in Nat /\ bs[i].size \in Nat
  BY BlockTypes DEF Covers
<1>3. Header \in Nat \ {0}
  BY HeaderSize
<1>12. nb \in Seq(Block) /\ Len(nb) = n + 1
  BY DEF IsSplit
<1>5. /\ \A k \in 1 .. i - 1 : nb[k] = bs[k]
      /\ nb[i] = b /\ nb[i + 1] = c
      /\ \A k \in i + 2 .. n + 1 : nb[k] = bs[k - 1]
  BY DEF IsSplit
<1>6. /\ b.addr = bs[i].addr /\ b.size = total /\ ~b.free
      /\ c.addr = bs[i].addr + total /\ c.size = bs[i].size - total /\ c.free
      /\ b.addr + b.size = c.addr /\ c.addr + c.size = bs[i].addr + bs[i].size
      /\ b.size >= Header /\ c.size >= Header
  BY <1>2
<1>13. /\ b.addr \in Nat /\ b.size \in Nat /\ c.addr \in Nat /\ c.size \in Nat
       /\ bs[i].addr <= b.addr /\ b.addr + b.size <= bs[i].addr + bs[i].size
       /\ bs[i].addr <= c.addr /\ c.addr + c.size <= bs[i].addr + bs[i].size
  <2>1. total \in Nat /\ bs[i].size - total >= Header /\ Header \in Nat
    BY <1>3
  <2> HIDE DEF Header
  <2>2. total <= bs[i].size /\ bs[i].size - total \in Nat
    BY <1>2, <2>1
  <2>3. bs[i].addr + total \in Nat /\ bs[i].addr <= bs[i].addr + total
    BY <1>2, <2>1
  <2>4. bs[i].addr + total <= bs[i].addr + bs[i].size
    BY <1>2, <2>1, <2>2
  <2>5. b.addr \in Nat /\ b.size \in Nat
    BY <1>2, <1>6, <2>1
  <2>6. c.addr \in Nat /\ c.size \in Nat
    BY <1>6, <2>2, <2>3
  <2> QED
    BY <1>2, <1>6, <2>3, <2>4, <2>5, <2>6
<1> HIDE DEF n, First, Header
<1>7. /\ bs[1].addr = First /\ bs[n].addr + bs[n].size = Capacity
      /\ \A k \in 1 .. n - 1 : bs[k].addr + bs[k].size = bs[k + 1].addr
      /\ \A k \in 1 .. n : bs[k].size >= Header
      /\ \A k, l \in 1 .. n : k < l => bs[k].addr + bs[k].size <= bs[l].addr
  BY DEF Covers, n
<1>8. \A k \in 1 .. n : bs[k].addr \in Nat /\ bs[k].size \in Nat
  BY BlockTypes DEF n
<1>9. Covers(nb)
  <2>1. nb[1].addr = First
    <3>1. CASE i = 1
      BY <1>5, <1>6, <1>7, <3>1
    <3>2. CASE i # 1
      BY <1>1, <1>5, <1>7, <3>2
    <3> QED
      BY <3>1, <3>2
  <2>2. nb[n + 1].addr + nb[n + 1].size = Capacity
    <3>1. CASE i = n
      BY <1>5, <1>6, <1>7, <3>1
    <3>2. CASE i # n
      BY <1>1, <1>5, <1>7, <3>2
    <3> QED
      BY <3>1, <3>2
  <2>3. \A k \in 1 .. n : nb[k].addr + nb[k].size = nb[k + 1].addr
    <3> TAKE k \in 1 .. n
    <3>1. CASE k < i - 1
      <4>1. nb[k] = bs[k] /\ nb[k + 1] = bs[k + 1] /\ k \in 1 .. n - 1
        BY <1>1, <1>5, <3>1
      <4> QED
        BY <1>7, <4>1
    <3>2. CASE k = i - 1
      <4>1. nb[k] = bs[k] /\ nb[k + 1] = b /\ k \in 1 .. n - 1
        BY <1>1, <1>5, <3>2
      <4>2. bs[k].addr + bs[k].size = bs[i].addr
        BY <1>1, <1>7, <3>2, <4>1
      <4> QED
        BY <1>6, <4>1, <4>2
    <3>3. CASE k = i
      BY <1>5, <1>6, <3>3
    <3>4. CASE k = i + 1
      <4>1. nb[k] = c /\ nb[k + 1] = bs[i + 1] /\ i \in 1 .. n - 1
        BY <1>1, <1>5, <3>4
      <4> QED
        BY <1>6, <1>7, <4>1
    <3>5. CASE k > i + 1
      <4>1. nb[k] = bs[k - 1] /\ nb[k + 1] = bs[(k - 1) + 1] /\ k - 1 \in 1 .. n - 1
        BY <1>1, <1>5, <3>5
      <4> QED
        BY <1>7, <4>1
    <3> QED
      BY <1>1, <3>1, <3>2, <3>3, <3>4, <3>5
  <2>4. \A k \in 1 .. n + 1 : nb[k].size >= Header
    <3> TAKE k \in 1 .. n + 1
    <3>1. CASE k < i
      <4>1. k \in 1 .. n /\ nb[k] = bs[k]
        BY <1>1, <1>5, <3>1
      <4> QED
        BY <1>7, <4>1
    <3>2. CASE k = i \/ k = i + 1
      BY <1>5, <1>6, <3>2
    <3>3. CASE k > i + 1
      <4>1. k - 1 \in 1 .. n /\ nb[k] = bs[k - 1]
        BY <1>1, <1>5, <3>3
      <4> QED
        BY <1>7, <4>1
    <3> QED
      BY <1>1, <3>1, <3>2, <3>3
  <2>5. \A k, l \in 1 .. n + 1 : k < l => nb[k].addr + nb[k].size <= nb[l].addr
    <3> DEFINE old(k) == IF k <= i THEN k ELSE k - 1
    <3>1. \A k \in 1 .. n + 1 :
            /\ old(k) \in 1 .. n
            /\ nb[k].addr \in Nat /\ nb[k].size \in Nat
            /\ bs[old(k)].addr <= nb[k].addr
            /\ nb[k].addr + nb[k].size <= bs[old(k)].addr + bs[old(k)].size
      <4> TAKE k \in 1 .. n + 1
      <4>1. CASE k = i
        <5>1. old(k) = i /\ nb[k] = b /\ i \in 1 .. n
          BY <1>1, <1>5, <4>1
        <5> QED
          BY <1>13, <5>1
      <4>2. CASE k = i + 1
        <5>1. old(k) = i /\ nb[k] = c /\ i \in 1 .. n
          BY <1>1, <1>5, <4>2
        <5> QED
          BY <1>13, <5>1
      <4>3. CASE k # i /\ k # i + 1
        <5>1. old(k) \in 1 .. n /\ nb[k] = bs[old(k)]
          BY <1>1, <1>5, <4>3
        <5> QED
          BY <1>8, <5>1
      <4> QED
        BY <4>1, <4>2, <4>3
    <3> SUFFICES ASSUME NEW k \in 1 .. n + 1, NEW l \in 1 .. n + 1, k < l
                 PROVE  nb[k].addr + nb[k].size <= nb[l].addr
      OBVIOUS
    <3>2. CASE k = i /\ l = i + 1
      BY <1>2, <1>5, <1>6, <3>2
    <3>3. CASE ~(k = i /\ l = i + 1)
      <4>1. old(k) < old(l) /\ old(k) \in 1 .. n /\ old(l) \in 1 .. n
        BY <1>1, <3>1, <3>3
      <4>2. PICK p \in 1 .. n, q \in 1 .. n : p = old(k) /\ q = old(l) /\ p < q
        BY <4>1
      <4>3. bs[p].addr + bs[p].size <= bs[q].addr
        BY <1>7, <4>2
      <4>4. bs[q].addr <= nb[l].addr /\ nb[k].addr + nb[k].size <= bs[p].addr + bs[p].size
        BY <3>1, <4>2
      <4>5. /\ bs[p].addr \in Nat /\ bs[p].size \in Nat /\ bs[q].addr \in Nat
            /\ nb[k].addr \in Nat /\ nb[k].size \in Nat /\ nb[l].addr \in Nat
        BY <1>8, <3>1
      <4> HIDE DEF old
      <4> QED
        BY <4>3, <4>4, <4>5, EndsInOrder
    <3> QED
      BY <3>2, <3>3
  <2>6. Len(nb) > 0 /\ Len(nb) - 1 = n
    BY <1>1, <1>12
  <2> QED
    BY <1>12, <2>1, <2>2, <2>3, <2>4, <2>5, <2>6 DEF Covers
<1>10. InUse(nb) = InUse(bs) \cup {b}
  <2>1. ASSUME NEW k \in 1 .. n + 1, ~nb[k].free
        PROVE  nb[k] \in InUse(bs) \cup {b}
    <3>1. CASE k < i
      <4>1. k \in 1 .. n /\ nb[k] = bs[k]
        BY <1>1, <1>5, <3>1
      <4> QED
        BY <1>2, <2>1, <4>1, InUseMembers DEF n
    <3>2. CASE k = i
      BY <1>5, <3>2
    <3>3. CASE k = i + 1
      BY <1>5, <1>6, <2>1, <3>3
    <3>4. CASE k > i + 1
      <4>1. k - 1 \in 1 .. n /\ nb[k] = bs[k - 1]
        BY <1>1, <1>5, <3>4
      <4> QED
        BY <1>2, <2>1, <4>1, InUseMembers DEF n
    <3> QED
      BY <1>1, <3>1, <3>2, <3>3, <3>4
  <2>2. b \in InUse(nb)
    <3>1. i \in 1 .. Len(nb)
      BY <1>1, <1>12
    <3> QED
      BY <1>5, <1>6, <1>12, <3>1, InUseMembers
  <2>3. ASSUME NEW k \in 1 .. n, ~bs[k].free
        PROVE  bs[k] \in InUse(nb)
    <3>1. k # i
      BY <2>3
    <3>2. \E l \in 1 .. n + 1 : nb[l] = bs[k]
      <4>1. CASE k < i
        <5>1. k \in 1 .. n + 1 /\ nb[k] = bs[k]
          BY <1>1, <1>5, <4>1
        <5> QED
          BY <5>1
      <4>2. CASE k > i
        <5>1. k + 1 \in 1 .. n + 1 /\ nb[k + 1] = bs[(k + 1) - 1] /\ (k + 1) - 1 = k
          BY <1>1, <1>5, <4>2
        <5> QED
          BY <5>1
      <4> QED
        BY <1>1, <3>1, <4>1, <4>2
    <3> QED
      BY <1>12, <2>3, <3>2, InUseMembers
  <2>4. \A x : x \in InUse(nb) => x \in InUse(bs) \cup {b}
    <3> SUFFICES ASSUME NEW x \in InUse(nb) PROVE x \in InUse(bs) \cup {b}
      OBVIOUS
    <3>1. PICK k \in 1 .. n + 1 : ~nb[k].free /\ x = nb[k]
      BY <1>12, InUseMembers
    <3> QED
      BY <2>1, <3>1
  <2>5. \A x : x \in InUse(bs) => x \in InUse(nb)
    <3> SUFFICES ASSUME NEW x \in InUse(bs) PROVE x \in InUse(nb)
      OBVIOUS
    <3>1. PICK k \in 1 .. n : ~bs[k].free /\ x = bs[k]
      BY <1>2, InUseMembers DEF n
    <3> QED
      BY <2>3, <3>1
  <2> QED
    BY <2>2, <2>4, <2>5
<1>11. ASSUME Joined(bs) PROVE Joined(nb)
  <2> SUFFICES ASSUME NEW k \in 1 .. n, nb[k].free, nb[k + 1].free PROVE FALSE
    BY <1>1, <1>12 DEF Joined
  <2>0. \A m \in 1 .. n - 1 : ~(bs[m].free /\ bs[m + 1].free)
    BY <1>11 DEF Joined, n
  <2>1. k # i /\ k # i - 1
    BY <1>1, <1>5, <1>6
  <2>2. CASE k < i - 1
    <3>1. k \in 1 .. n - 1 /\ nb[k] = bs[k] /\ nb[k + 1] = bs[k + 1]
      BY <1>1, <1>5, <2>2
    <3> QED
      BY <2>0, <3>1
  <2>3. CASE k = i + 1
    <3>1. i \in 1 .. n - 1 /\ nb[k + 1] = bs[i + 1]
      BY <1>1, <1>5, <2>3
    <3> QED
      BY <2>0, <3>1
  <2>4. CASE k > i + 1
    <3>1. k - 1 \in 1 .. n - 1 /\ nb[k] = bs[k - 1] /\ nb[k + 1] = bs[(k - 1) + 1]
      BY <1>1, <1>5, <2>4
    <3> QED
      BY <2>0, <3>1
  <2> QED
    BY <1>1, <2>1, <2>2, <2>3, <2>4
<1> QED
  BY <1>9, <1>10, <1>11

\* Marking blocks as free or in use leaves them where they are.
LEMMA MarkedCovers ==
  ASSUME NEW bs, Covers(bs), NEW nb \in Seq(Block), Len(nb) = Len(bs),
         \A k \in 1 .. Len(bs) : nb[k].addr = bs[k].addr /\ nb[k].size = bs[k].size
  PROVE  Covers(nb)
<1> DEFINE n == Len(bs)
<1>1. n \in Nat /\ n > 0 /\ Len(nb) = n
  BY DEF Covers
<1>2. \A k \in 1 .. n : nb[k].addr = bs[k].addr /\ nb[k].size = bs[k].size
  OBVIOUS
<1>3. bs[1].addr = First /\ bs[n].addr + bs[n].size = Capacity
  BY DEF Covers
<1>4. \A k \in 1 .. n - 1 : bs[k].addr + bs[k].size = bs[k + 1].addr
  BY DEF Covers
<1>5. \A k \in 1 .. n : bs[k].size >= Header
  BY DEF Covers
<1>6. \A k, l \in 1 .. n : k < l => bs[k].addr + bs[k].size <= bs[l].addr
  BY DEF Covers
<1> HIDE DEF n
<1>7. nb[1].addr = First /\ nb[n].addr + nb[n].size = Capacity
  BY <1>1, <1>2, <1>3
<1>8. \A k \in 1 .. n - 1 : nb[k].addr + nb[k].size = nb[k + 1].addr
  <2> TAKE k \in 1 .. n - 1
  <2>1. k \in 1 .. n /\ k + 1 \in 1 .. n
    BY <1>1
  <2> QED
    BY <1>2, <1>4, <2>1
<1>9. \A k \in 1 .. n : nb[k].size >= Header
  BY <1>2, <1>5
<1>10. \A k, l \in 1 .. n : k < l => nb[k].addr + nb[k].size <= nb[l].addr
  BY <1>2, <1>6
<1> QED
  BY <1>1, <1>7, <1>8, <1>9, <1>10 DEF Covers

LEMMA MarkProperties ==
  ASSUME NEW bs, Covers(bs), NEW i \in 1 .. Len(bs), bs[i].free
  PROVE  LET nb == [bs EXCEPT ![i].free = FALSE]
         IN  /\ Covers(nb)
             /\ InUse(nb) = InUse(bs) \cup {[bs[i] EXCEPT !.free = FALSE]}
             /\ Joined(bs) => Joined(nb)
<1> DEFINE b == [bs[i] EXCEPT !.free = FALSE]
           nb == [bs EXCEPT ![i].free = FALSE]
           n == Len(bs)
<1>1. bs \in Seq(Block) /\ n \in Nat
  BY DEF Covers
<1>2. /\ bs[i] \in Block /\ b \in Block
      /\ b.addr = bs[i].addr /\ b.size = bs[i].size /\ b.free = FALSE
  BY BlockTypes DEF Block
<1>3. /\ nb \in Seq(Block) /\ Len(nb) = n
      /\ nb[i] = b
      /\ \A k \in 1 .. n : k # i => nb[k] = bs[k]
  <2>1. nb = [bs EXCEPT ![i] = b]
    BY <1>1
  <2> HIDE DEF b, nb
  <2> QED
    BY <1>1, <1>2, <2>1
<1> HIDE DEF b, nb, n
<1>4. Covers(nb)
  BY <1>2, <1>3, MarkedCovers DEF n
<1>5. \A x : x \in InUse(nb) => x \in InUse(bs) \cup {b}
  <2> SUFFICES ASSUME NEW x \in InUse(nb) PROVE x \in InUse(bs) \cup {b}
    OBVIOUS
  <2>1. PICK k \in 1 .. n : ~nb[k].free /\ x = nb[k]
    BY <1>3, InUseMembers
  <2> QED
    BY <1>1, <1>3, <2>1, InUseMembers DEF n
<1>6. b \in InUse(nb)
  BY <1>2, <1>3, InUseMembers DEF n
<1>7. \A x : x \in InUse(bs) => x \in InUse(nb)
  <2> SUFFICES ASSUME NEW x \in InUse(bs) PROVE x \in InUse(nb)
    OBVIOUS
  <2>1. PICK k \in 1 .. n : ~bs[k].free /\ x = bs[k]
    BY <1>1, InUseMembers DEF n
  <2>2. nb[k] = bs[k]
    BY <1>3, <2>1
  <2> QED
    BY <1>3, <2>1, <2>2, InUseMembers
<1>8. ASSUME Joined(bs) PROVE Joined(nb)
  <2> SUFFICES ASSUME NEW k \in 1 .. n - 1, nb[k].free, nb[k + 1].free PROVE FALSE
    BY <1>3 DEF Joined
  <2>1. k \in 1 .. n /\ k + 1 \in 1 .. n
    BY <1>1
  <2>2. k # i /\ k + 1 # i
    BY <1>2, <1>3
  <2>3. nb[k] = bs[k] /\ nb[k + 1] = bs[k + 1]
    BY <1>3, <2>1, <2>2
  <2> QED
    BY <1>8, <2>3 DEF Joined, n
<1>9. InUse(nb) = InUse(bs) \cup {b}
  BY <1>5, <1>6, <1>7
<1> QED
  BY <1>4, <1>8, <1>9 DEF nb, b

\* An allocation puts one block in use, where the free one was and large enough.
LEMMA TakenProperties ==
  ASSUME NEW bs, Covers(bs), NEW i \in 1 .. Len(bs), bs[i].free,
         NEW total \in Nat, total >= Header, bs[i].size >= total
  PROVE  /\ Covers(Taken(bs, i, total))
         /\ Joined(bs) => Joined(Taken(bs, i, total))
         /\ \E b \in Block :
              /\ b.addr = bs[i].addr /\ total <= b.size /\ b.size <= bs[i].size
              /\ ~b.free
              /\ InUse(Taken(bs, i, total)) = InUse(bs) \cup {b}
<1>1. bs \in Seq(Block) /\ Header \in Nat \ {0}
  BY HeaderSize DEF Covers
<1>2. bs[i] \in Block /\ bs[i].addr \in Nat /\ bs[i].size \in Nat
  BY BlockTypes
<1>3. CASE bs[i].size - total > Header + 16
  <2> DEFINE b == [addr |-> bs[i].addr, size |-> total, free |-> FALSE]
             c == [addr |-> bs[i].addr + total, size |-> bs[i].size - total, free |-> TRUE]
             nb == SubSeq(bs, 1, i - 1) \o <<b, c>> \o SubSeq(bs, i + 1, Len(bs))
  <2>1. b \in Block /\ c \in Block
    <3> HIDE DEF Header
    <3> QED
      BY <1>1, <1>2, <1>3 DEF Block
  <2>2. bs[i].size - total >= Header
    <3> HIDE DEF Header
    <3> QED
      BY <1>1, <1>2, <1>3
  <2>3. Taken(bs, i, total) = nb
    BY <1>3 DEF Taken
  <2>4. IsSplit(nb, bs, i, b, c)
    BY <1>1, <2>1, SplitElements
  <2>5. /\ b.addr = bs[i].addr /\ b.size = total /\ ~b.free
        /\ c.addr = bs[i].addr + total /\ c.size = bs[i].size - total /\ c.free
    OBVIOUS
  <2> HIDE DEF b, c, nb, Header
  <2>6. Covers(nb) /\ InUse(nb) = InUse(bs) \cup {b} /\ (Joined(bs) => Joined(nb))
    BY <2>1, <2>2, <2>4, <2>5, SplitProperties
  <2>7. total <= b.size /\ b.size <= bs[i].size
    BY <1>2, <2>5
  <2> QED
    BY <2>1, <2>3, <2>5, <2>6, <2>7
<1>4. CASE ~(bs[i].size - total > Header + 16)
  <2> DEFINE b == [bs[i] EXCEPT !.free = FALSE]
             nb == [bs EXCEPT ![i].free = FALSE]
  <2>1. b \in Block /\ b.addr = bs[i].addr /\ b.size = bs[i].size /\ ~b.free
    BY <1>2 DEF Block
  <2>2. Taken(bs, i, total) = nb
    BY <1>4 DEF Taken
  <2>3. Covers(nb) /\ InUse(nb) = InUse(bs) \cup {b} /\ (Joined(bs) => Joined(nb))
    BY MarkProperties
  <2> HIDE DEF b, nb, Header
  <2>4. total <= b.size /\ b.size <= bs[i].size
    BY <1>2, <2>1
  <2> QED
    BY <2>1, <2>2, <2>3, <2>4
<1> QED
  BY <1>3, <1>4

LEMMA FreedProperties ==
  ASSUME NEW bs, Covers(bs), NEW p
  PROVE  /\ Covers(Freed(bs, p))
         /\ InUse(Freed(bs, p)) = {b \in InUse(bs) : b.addr # p - Header}
<1> DEFINE n == Len(bs)
           nb == Freed(bs, p)
<1>1. bs \in Seq(Block) /\ n \in Nat /\ DOMAIN bs = 1 .. n
  BY DEF Covers
<1>2. \A k \in 1 .. n :
        /\ nb[k] \in Block /\ nb[k].addr = bs[k].addr /\ nb[k].size = bs[k].size
        /\ nb[k].addr = p - Header => nb[k].free
        /\ nb[k].addr # p - Header => nb[k] = bs[k]
  <2> TAKE k \in 1 .. n
  <2>1. bs[k] \in Block
    BY <1>1
  <2>2. nb[k] = IF bs[k].addr = p - Header THEN [bs[k] EXCEPT !.free = TRUE] ELSE bs[k]
    BY <1>1 DEF Freed
  <2> HIDE DEF nb, Header
  <2> QED
    BY <2>1, <2>2 DEF Block
<1>3. nb \in Seq(Block) /\ Len(nb) = n
  <2>1. DOMAIN nb = 1 .. n /\ nb = [k \in 1 .. n |-> nb[k]]
    BY <1>1 DEF Freed
  <2> HIDE DEF nb, n
  <2>2. nb \in [1 .. n -> Block]
    BY <1>2, <2>1
  <2> QED
    BY <1>1, <2>2
<1> HIDE DEF nb, n, Header
<1>4. Covers(nb)
  <2>1. Len(nb) = Len(bs) /\ \A k \in 1 .. Len(bs) : nb[k].addr = bs[k].addr /\ nb[k].size = bs[k].size
    BY <1>2, <1>3 DEF n
  <2> QED
    BY <1>3, <2>1, MarkedCovers
<1>5. ASSUME NEW x \in InUse(nb) PROVE x \in InUse(bs) /\ x.addr # p - Header
  <2>1. PICK k \in 1 .. n : ~nb[k].free /\ x = nb[k]
    BY <1>3, InUseMembers
  <2>2. nb[k].addr # p - Header /\ nb[k] = bs[k]
    BY <1>2, <2>1
  <2> QED
    BY <1>1, <2>1, <2>2, InUseMembers DEF n
<1>6. ASSUME NEW x \in InUse(bs), x.addr # p - Header PROVE x \in InUse(nb)
  <2>1. PICK k \in 1 .. n : ~bs[k].free /\ x = bs[k]
    BY <1>1, InUseMembers DEF n
  <2>2. nb[k] = bs[k]
    BY <1>2, <1>6, <2>1
  <2> QED
    BY <1>3, <2>1, <2>2, InUseMembers
<1>7. InUse(nb) = {b \in InUse(bs) : b.addr # p - Header}
  BY <1>5, <1>6
<1> QED
  BY <1>4, <1>7 DEF nb

\* What Coalesced does: of each run of blocks that become one, f has the index of
\* the first and g that of the last.
IsCoalesced(nb, bs, f, g) ==
  /\ nb \in Seq(Block) /\ Len(nb) > 0
  /\ f \in [1 .. Len(nb) -> 1 .. Len(bs)] /\ g \in [1 .. Len(nb) -> 1 .. Len(bs)]
  /\ f[1] = 1 /\ g[Len(nb)] = Len(bs)
  /\ \A k \in 1 .. Len(nb) - 1 : f[k + 1] = g[k] + 1
  /\ \A k, l \in 1 .. Len(nb) : k < l => g[k] < f[l]
  /\ \A k \in 1 .. Len(nb) : f[k] <= g[k]
  /\ \A k \in 1 .. Len(nb) : ~Absorbed(bs, f[k])
  /\ \A k \in 1 .. Len(nb), j \in 1 .. Len(bs) : f[k] < j /\ j <= g[k] => Absorbed(bs, j)
  /\ \A i \in 1 .. Len(bs) : Absorbed(bs, i) \/ \E k \in 1 .. Len(nb) : f[k] = i
  /\ \A k \in 1 .. Len(nb) :
       /\ nb[k].addr = bs[f[k]].addr /\ nb[k].free = bs[f[k]].free
       /\ nb[k].addr + nb[k].size = bs[g[k]].addr + bs[g[k]].size

LEMMA CoalescedRuns ==
  ASSUME NEW bs, Covers(bs)
  PROVE  \E f, g : IsCoalesced(Coalesced(bs), bs, f, g)
<1> DEFINE n == Len(bs)
           heads == {i \in DOMAIN bs : ~Absorbed(bs, i)}
           R == {p \in heads \X heads : p[1] < p[2]}
           m == Cardinality(heads)
           f == Ranked(heads, R)
           g == [k \in 1 .. m |-> IF k < m THEN f[k + 1] - 1 ELSE n]
           nb == Coalesced(bs)
<1>1. bs \in Seq(Block) /\ n \in Nat /\ n > 0 /\ DOMAIN bs = 1 .. n
  BY DEF Covers
<1>2. heads \subseteq 1 .. n /\ IsFiniteSet(heads)
  <2>1. IsFiniteSet(1 .. n)
    BY <1>1, IndicesFinite
  <2>2. heads \subseteq 1 .. n
    BY <1>1
  <2> QED
    BY <2>1, <2>2, FS_Subset
<1>3. StrictOrder(heads, R)
  <2>1. \A i, j \in heads : <<i, j>> \in R <=> i < j
    OBVIOUS
  <2>2. \A i \in heads : i \in Nat
    BY <1>1, <1>2
  <2> HIDE DEF heads, R
  <2> QED
    BY <2>1, <2>2 DEF StrictOrder
<1>4. /\ m \in Nat
      /\ f \in [1 .. m -> heads]
      /\ \A i \in heads : \E k \in 1 .. m : f[k] = i
      /\ \A k, l \in 1 .. m : k < l => <<f[k], f[l]>> \in R
  BY <1>2, <1>3, RankedProperties
<1>5. \A k, l \in 1 .. m : k < l => f[k] < f[l]
  <2> TAKE k \in 1 .. m, l \in 1 .. m
  <2> HAVE k < l
  <2>1. <<f[k], f[l]>> \in R
    BY <1>4
  <2> HIDE DEF heads, f
  <2> QED
    BY <2>1
<1>6. /\ \A i \in 1 .. n : Absorbed(bs, i) \/ \E k \in 1 .. m : f[k] = i
      /\ \A k \in 1 .. m : f[k] \in 1 .. n /\ ~Absorbed(bs, f[k])
  <2>1. \A i \in 1 .. n : Absorbed(bs, i) \/ i \in heads
    BY <1>1
  <2>2. \A k \in 1 .. m : f[k] \in heads
    BY <1>4
  <2>3. \A i \in heads : i \in 1 .. n /\ ~Absorbed(bs, i)
    BY <1>1
  <2> HIDE DEF heads, f, n
  <2> QED
    BY <1>4, <2>1, <2>2, <2>3
<1>7. ~Absorbed(bs, 1)
  BY DEF Absorbed
<1>8. nb = [k \in 1 .. m |->
              [bs[f[k]] EXCEPT !.size = bs[g[k]].addr + bs[g[k]].size - bs[f[k]].addr]]
  <2>1. DOMAIN f = 1 .. m /\ Len(f) = m
    <3> HIDE DEF f, m, heads
    <3> QED
      BY <1>4
  <2> HIDE DEF m
  <2> QED
    BY <2>1 DEF Coalesced
<1> HIDE DEF f, heads, R, m, nb, n
<1>9. m >= 1 /\ f[1] = 1
  <2>1. PICK k \in 1 .. m : f[k] = 1
    BY <1>1, <1>6, <1>7
  <2>2. m >= 1 /\ 1 \in 1 .. m
    BY <1>4, <2>1
  <2>3. f[1] \in 1 .. n
    BY <1>6, <2>2
  <2>4. ~(1 < k)
    BY <1>5, <2>1, <2>2, <2>3
  <2> QED
    BY <1>4, <2>1, <2>2, <2>4
<1>10. \A k \in 1 .. m : g[k] \in 1 .. n /\ f[k] <= g[k]
  <2> TAKE k \in 1 .. m
  <2>1. CASE k < m
    <3>1. k + 1 \in 1 .. m /\ k < k + 1
      BY <1>4, <2>1
    <3>2. f[k] < f[k + 1] /\ f[k] \in 1 .. n /\ f[k + 1] \in 1 .. n
      BY <1>5, <1>6, <3>1
    <3>3. g[k] = f[k + 1] - 1
      BY <2>1
    <3> HIDE DEF g
    <3> QED
      BY <1>1, <3>2, <3>3
  <2>2. CASE ~(k < m)
    <3>1. g[k] = n /\ f[k] \in 1 .. n
      BY <1>6, <2>2
    <3> HIDE DEF g
    <3> QED
      BY <1>1, <3>1
  <2> QED
    BY <2>1, <2>2
<1>11. \A k, l \in 1 .. m : k < l => g[k] < f[l]
  <2> SUFFICES ASSUME NEW k \in 1 .. m, NEW l \in 1 .. m, k < l PROVE g[k] < f[l]
    OBVIOUS
  <2>1. k < m /\ k + 1 \in 1 .. m /\ k + 1 <= l
    BY <1>4
  <2>2. g[k] = f[k + 1] - 1 /\ f[k + 1] \in 1 .. n /\ f[l] \in 1 .. n
    BY <1>6, <2>1
  <2>3. k + 1 = l \/ f[k + 1] < f[l]
    BY <1>5, <2>1
  <2> HIDE DEF g
  <2> QED
    BY <1>1, <2>2, <2>3
<1>12. \A k \in 1 .. m, j \in 1 .. n : f[k] < j /\ j <= g[k] => Absorbed(bs, j)
  <2> SUFFICES ASSUME NEW k \in 1 .. m, NEW j \in 1 .. n, f[k] < j, j <= g[k], ~Absorbed(bs, j)
               PROVE  FALSE
    OBVIOUS
  <2>1. PICK l \in 1 .. m : f[l] = j
    BY <1>6
  <2>2. f[k] \in 1 .. n /\ f[l] \in 1 .. n /\ g[k] \in 1 .. n
    BY <1>6, <1>10
  <2> HIDE DEF g
  <2>3. ~(l < k) /\ l # k
    BY <1>1, <1>5, <2>1, <2>2
  <2>4. k < l
    BY <1>4, <2>3
  <2>5. g[k] < f[l]
    BY <1>11, <2>4
  <2> QED
    BY <1>1, <2>1, <2>2, <2>5
<1>13. g[m] = n /\ \A k \in 1 .. m - 1 : f[k + 1] = g[k] + 1
  <2>1. m \in 1 .. m /\ ~(m < m)
    BY <1>4, <1>9
  <2>2. ASSUME NEW k \in 1 .. m - 1 PROVE f[k + 1] = g[k] + 1
    <3>1. k \in 1 .. m /\ k + 1 \in 1 .. m /\ k < m
      BY <1>4
    <3>2. g[k] = f[k + 1] - 1 /\ f[k + 1] \in 1 .. n
      BY <1>6, <3>1
    <3> HIDE DEF g
    <3> QED
      BY <1>1, <3>2
  <2> QED
    BY <2>1, <2>2
<1>14. g \in [1 .. m -> 1 .. n] /\ f \in [1 .. m -> 1 .. n]
  BY <1>4, <1>6, <1>10
<1> HIDE DEF g
<1>15. \A k \in 1 .. m :
         /\ nb[k] \in Block
         /\ nb[k].addr = bs[f[k]].addr /\ nb[k].free = bs[f[k]].free
         /\ nb[k].addr + nb[k].size = bs[g[k]].addr + bs[g[k]].size
  <2> TAKE k \in 1 .. m
  <2> DEFINE b == bs[f[k]]
             c == bs[g[k]]
  <2>1. f[k] \in 1 .. n /\ g[k] \in 1 .. n /\ f[k] <= g[k]
    BY <1>6, <1>10
  <2>2. b \in Block /\ b.addr \in Nat /\ b.size \in Nat /\ c.addr \in Nat /\ c.size \in Nat
    BY <2>1, BlockTypes DEF n
  <2>3. f[k] = g[k] \/ b.addr + b.size <= c.addr
    BY <1>1, <2>1 DEF Covers, n
  <2>4. nb[k] = [b EXCEPT !.size = c.addr + c.size - b.addr]
    BY <1>8
  <2>5. f[k] = g[k] => b = c
    OBVIOUS
  <2> HIDE DEF b, c
  <2>6. c.addr + c.size - b.addr \in Nat
    BY <2>2, <2>3, <2>5
  <2>7. /\ nb[k] \in Block /\ nb[k].addr = b.addr /\ nb[k].free = b.free
        /\ nb[k].size = c.addr + c.size - b.addr
    BY <2>2, <2>4, <2>6 DEF Block
  <2>8. nb[k].addr + nb[k].size = c.addr + c.size
    BY <2>2, <2>7
  <2> QED
    BY <2>7, <2>8 DEF b, c
<1>16. nb \in Seq(Block) /\ Len(nb) = m
  <2>1. nb \in [1 .. m -> Block]
    BY <1>8, <1>15
  <2> QED
    BY <1>4, <2>1
<1>17. IsCoalesced(nb, bs, f, g)
  BY <1>4, <1>6, <1>9, <1>10, <1>11, <1>12, <1>13, <1>14, <1>15, <1>16 DEF IsCoalesced, n
<1> QED
  BY <1>17 DEF nb

\* Freeing memory joins up all of it that touches, and moves nothing in use.
LEMMA CoalescedProperties ==
  ASSUME NEW bs, Covers(bs)
  PROVE  /\ Covers(Coalesced(bs))
         /\ Joined(Coalesced(bs))
         /\ InUse(Coalesced(bs)) = InUse(bs)
<1> DEFINE nb == Coalesced(bs)
           n == Len(bs)
           m == Len(nb)
<1>1. PICK f, g : IsCoalesced(nb, bs, f, g)
  BY CoalescedRuns
<1> HIDE DEF nb, m, n
<1>2. /\ nb \in Seq(Block) /\ m \in Nat /\ m > 0
      /\ f[1] = 1 /\ g[m] = n
      /\ \A k \in 1 .. m - 1 : f[k + 1] = g[k] + 1
      /\ \A k, l \in 1 .. m : k < l => g[k] < f[l]
      /\ \A k \in 1 .. m : f[k] \in 1 .. n /\ g[k] \in 1 .. n /\ f[k] <= g[k]
  BY <1>1 DEF IsCoalesced, m, n
<1>3. /\ \A k \in 1 .. m : ~Absorbed(bs, f[k])
      /\ \A k \in 1 .. m, j \in 1 .. n : f[k] < j /\ j <= g[k] => Absorbed(bs, j)
      /\ \A i \in 1 .. n : Absorbed(bs, i) \/ \E k \in 1 .. m : f[k] = i
  BY <1>1 DEF IsCoalesced, m, n
<1>4. \A k \in 1 .. m :
        /\ nb[k].addr = bs[f[k]].addr /\ nb[k].free = bs[f[k]].free
        /\ nb[k].addr + nb[k].size = bs[g[k]].addr + bs[g[k]].size
  BY <1>1 DEF IsCoalesced, m
<1>5. /\ bs \in Seq(Block) /\ n \in Nat
      /\ bs[1].addr = First /\ bs[n].addr + bs[n].size = Capacity
      /\ \A k \in 1 .. n - 1 : bs[k].addr + bs[k].size = bs[k + 1].addr
      /\ \A k, l \in 1 .. n : k < l => bs[k].addr + bs[k].size <= bs[l].addr
  BY DEF Covers, n
<1>6. \A k \in 1 .. n : /\ bs[k] \in Block /\ bs[k].addr \in Nat /\ bs[k].size \in Nat
                        /\ bs[k].size >= Header
  BY BlockTypes DEF n
<1>7. \A k \in 1 .. m : nb[k] \in Block /\ nb[k].addr \in Nat /\ nb[k].size \in Nat
  <2>1. \A k \in 1 .. m : nb[k] \in Block
    BY <1>2 DEF m
  <2> QED
    BY <2>1 DEF Block
<1>8. Header \in Nat \ {0}
  BY HeaderSize
<1> HIDE DEF First, Header
<1>9. \A k \in 1 .. m - 1 : nb[k].addr + nb[k].size = nb[k + 1].addr
  <2> TAKE k \in 1 .. m - 1
  <2>1. k \in 1 .. m /\ k + 1 \in 1 .. m
    BY <1>2
  <2>2. f[k + 1] = g[k] + 1 /\ g[k] \in 1 .. n /\ f[k + 1] \in 1 .. n
    BY <1>2, <2>1
  <2>3. g[k] \in 1 .. n - 1
    BY <1>5, <2>2
  <2>4. bs[g[k]].addr + bs[g[k]].size = bs[f[k + 1]].addr
    BY <1>5, <2>2, <2>3
  <2> QED
    BY <1>4, <2>1, <2>4
<1>10. \A k \in 1 .. m : nb[k].size >= Header
  <2> TAKE k \in 1 .. m
  <2> DEFINE b == bs[f[k]]
             c == bs[g[k]]
             new == nb[k]
  <2>1. f[k] \in 1 .. n /\ g[k] \in 1 .. n /\ f[k] <= g[k]
    BY <1>2
  <2>2. f[k] = g[k] => b = c
    OBVIOUS
  <2>3. f[k] = g[k] \/ b.addr + b.size <= c.addr
    BY <1>5, <2>1
  <2>4. /\ b.addr \in Nat /\ b.size \in Nat /\ c.addr \in Nat /\ c.size \in Nat
        /\ b.size >= Header /\ c.size >= Header
    BY <1>6, <2>1
  <2>5. new.addr = b.addr /\ new.addr + new.size = c.addr + c.size /\ new.size \in Nat
    BY <1>4, <1>7
  <2> HIDE DEF b, c, new
  <2>6. new.size >= Header
    BY <1>8, <2>2, <2>3, <2>4, <2>5
  <2> QED
    BY <2>6 DEF new
<1>11. \A k, l \in 1 .. m : k < l => nb[k].addr + nb[k].size <= nb[l].addr
  <2> SUFFICES ASSUME NEW k \in 1 .. m, NEW l \in 1 .. m, k < l
               PROVE  nb[k].addr + nb[k].size <= nb[l].addr
    OBVIOUS
  <2>1. g[k] < f[l] /\ g[k] \in 1 .. n /\ f[l] \in 1 .. n
    BY <1>2
  <2>2. bs[g[k]].addr + bs[g[k]].size <= bs[f[l]].addr
    BY <1>5, <2>1
  <2> QED
    BY <1>4, <2>2
<1>12. Covers(nb)
  <2>1. 1 \in 1 .. m /\ m \in 1 .. m
    BY <1>2
  <2>2. nb[1].addr = First /\ nb[m].addr + nb[m].size = Capacity
    BY <1>2, <1>4, <1>5, <2>1
  <2> QED
    BY <1>2, <1>9, <1>10, <1>11, <2>2 DEF Covers, m
<1>13. Joined(nb)
  <2> SUFFICES ASSUME NEW k \in 1 .. m - 1, nb[k].free, nb[k + 1].free PROVE FALSE
    BY DEF Joined, m
  <2>1. k \in 1 .. m /\ k + 1 \in 1 .. m
    BY <1>2
  <2>2. /\ f[k + 1] = g[k] + 1 /\ f[k] \in 1 .. n /\ g[k] \in 1 .. n /\ f[k + 1] \in 1 .. n
        /\ f[k] <= g[k] /\ ~Absorbed(bs, f[k + 1])
    BY <1>2, <1>3, <2>1
  <2>3. bs[f[k]].free /\ bs[f[k + 1]].free
    BY <1>4, <2>1
  <2>4. bs[g[k]].free
    <3>1. CASE f[k] = g[k]
      BY <2>3, <3>1
    <3>2. CASE f[k] # g[k]
      <4>1. f[k] < g[k]
        BY <1>5, <2>2, <3>2
      <4>2. Absorbed(bs, g[k])
        BY <1>3, <2>1, <2>2, <4>1
      <4> QED
        BY <4>2 DEF Absorbed
    <3> QED
      BY <3>1, <3>2
  <2>5. f[k + 1] > 1 /\ f[k + 1] - 1 = g[k] /\ g[k] \in 1 .. n - 1
    BY <1>5, <2>2
  <2>6. bs[g[k]].addr + bs[g[k]].size = bs[f[k + 1]].addr
    BY <1>5, <2>2, <2>5
  <2>7. Absorbed(bs, f[k + 1])
    BY <2>3, <2>4, <2>5, <2>6 DEF Absorbed
  <2> QED
    BY <2>2, <2>7
<1>14. ASSUME NEW k \in 1 .. m, ~nb[k].free
       PROVE  nb[k] = bs[f[k]]
  <2>1. f[k] \in 1 .. n /\ g[k] \in 1 .. n /\ f[k] <= g[k] /\ ~bs[f[k]].free
    BY <1>2, <1>4, <1>14
  <2>2. f[k] = g[k]
    <3> SUFFICES ASSUME f[k] # g[k] PROVE FALSE
      OBVIOUS
    <3>1. f[k] + 1 \in 1 .. n /\ f[k] < f[k] + 1 /\ f[k] + 1 <= g[k] /\ (f[k] + 1) - 1 = f[k]
      <4>1. f[k] \in Nat /\ g[k] \in Nat /\ n \in Nat /\ g[k] <= n
        BY <1>5, <2>1
      <4>2. f[k] < g[k]
        BY <2>1, <4>1
      <4> QED
        BY <4>1, <4>2
    <3>2. Absorbed(bs, f[k] + 1)
      BY <1>3, <3>1
    <3>3. bs[f[k]].free
      BY <3>1, <3>2 DEF Absorbed
    <3> QED
      BY <2>1, <3>3
  <2> DEFINE b == bs[f[k]]
             new == nb[k]
  <2>3. b \in Block /\ new \in Block
    BY <1>6, <1>7, <2>1
  <2>4. new.addr = b.addr /\ new.free = b.free /\ new.addr + new.size = b.addr + b.size
    BY <1>4, <2>2
  <2> HIDE DEF b, new
  <2>5. new.addr \in Nat /\ new.size \in Nat /\ b.size \in Nat
    BY <2>3 DEF Block
  <2>6. new.size = b.size
    BY <2>4, <2>5
  <2>7. new = b
    BY <2>3, <2>4, <2>6 DEF Block
  <2> QED
    BY <2>7 DEF new, b
<1>15. ASSUME NEW x \in InUse(nb) PROVE x \in InUse(bs)
  <2>1. PICK k \in 1 .. m : ~nb[k].free /\ x = nb[k]
    BY <1>2, InUseMembers DEF m
  <2>2. x = bs[f[k]] /\ f[k] \in 1 .. n /\ ~bs[f[k]].free
    BY <1>2, <1>14, <2>1
  <2> QED
    BY <1>5, <2>2, InUseMembers DEF n
<1>16. ASSUME NEW x \in InUse(bs) PROVE x \in InUse(nb)
  <2>1. PICK i \in 1 .. n : ~bs[i].free /\ x = bs[i]
    BY <1>5, InUseMembers DEF n
  <2>2. ~Absorbed(bs, i)
    BY <2>1 DEF Absorbed
  <2>3. PICK k \in 1 .. m : f[k] = i
    BY <1>3, <2>2
  <2>4. ~nb[k].free
    BY <1>4, <2>1, <2>3
  <2>5. nb[k] = x
    BY <1>14, <2>1, <2>3, <2>4
  <2> QED
    BY <1>2, <2>4, <2>5, InUseMembers DEF m
<1>17. InUse(nb) = InUse(bs)
  BY <1>15, <1>16
<1> QED
  BY <1>12, <1>13, <1>17 DEF nb

LEMMA SameBlock ==
  ASSUME NEW a \in Block, NEW b \in Block, a.addr = b.addr, a.size = b.size, a.free = b.free
  PROVE  a = b
BY DEF Block

\* What the loop has made of the first k blocks of bs, when Coalesced makes nb of them
\* all with the runs from f to g: the runs that end before k, and what there is so far
\* of the one that k is part of.
LoopAt(ms, k, nb, bs, f, g) ==
  \E j \in 1 .. Len(nb) :
    /\ f[j] <= k /\ k <= g[j]
    /\ ms \in Seq(Block) /\ Len(ms) = j
    /\ \A i \in 1 .. j - 1 : ms[i] = nb[i]
    /\ ms[j].addr = nb[j].addr /\ ms[j].free = nb[j].free
    /\ ms[j].addr + ms[j].size = bs[k].addr + bs[k].size

LEMMA LoopStarts ==
  ASSUME NEW bs, Covers(bs), NEW nb, NEW f, NEW g, IsCoalesced(nb, bs, f, g)
  PROVE  LoopAt(Join(<<>>, bs[1]), 1, nb, bs, f, g)
<1>1. 1 \in 1 .. Len(bs) /\ bs \in Seq(Block) /\ bs[1] \in Block
  BY DEF Covers
<1>2. 1 \in 1 .. Len(nb) /\ f[1] = 1 /\ f[1] <= g[1]
  BY DEF IsCoalesced
<1>3. nb[1].addr = bs[1].addr /\ nb[1].free = bs[1].free
  BY <1>2 DEF IsCoalesced
<1> DEFINE ms == <<bs[1]>>
<1>4. Join(<<>>, bs[1]) = ms
  BY DEF Join
<1>5. ms \in Seq(Block) /\ Len(ms) = 1 /\ ms[1] = bs[1]
  BY <1>1
<1> HIDE DEF ms
<1>6. 1 <= g[1]
  BY <1>2
<1>7. \A i \in 1 .. 1 - 1 : ms[i] = nb[i]
  OBVIOUS
<1>8. /\ f[1] <= 1 /\ 1 <= g[1] /\ ms \in Seq(Block) /\ Len(ms) = 1
      /\ ms[1].addr = nb[1].addr /\ ms[1].free = nb[1].free
      /\ ms[1].addr + ms[1].size = bs[1].addr + bs[1].size
  BY <1>2, <1>3, <1>5, <1>6
<1>9. LoopAt(ms, 1, nb, bs, f, g)
  BY <1>2, <1>7, <1>8 DEF LoopAt
<1> QED
  BY <1>4, <1>9

LEMMA LoopGoesOn ==
  ASSUME NEW bs, Covers(bs), NEW nb, NEW f, NEW g, IsCoalesced(nb, bs, f, g),
         NEW k \in 1 .. Len(bs) - 1, NEW ms, LoopAt(ms, k, nb, bs, f, g)
  PROVE  LoopAt(Join(ms, bs[k + 1]), k + 1, nb, bs, f, g)
<1> DEFINE n == Len(bs)
           m == Len(nb)
           b == bs[k + 1]
<1>1. /\ bs \in Seq(Block) /\ n \in Nat /\ k \in 1 .. n /\ k + 1 \in 1 .. n
      /\ bs[k].addr + bs[k].size = b.addr
  BY DEF Covers
<1>2. /\ nb \in Seq(Block) /\ m \in Nat
      /\ \A i \in 1 .. m : f[i] \in 1 .. n /\ g[i] \in 1 .. n /\ f[i] <= g[i]
  BY DEF IsCoalesced
<1>3. PICK j \in 1 .. m :
        /\ f[j] <= k /\ k <= g[j]
        /\ ms \in Seq(Block) /\ Len(ms) = j
        /\ \A i \in 1 .. j - 1 : ms[i] = nb[i]
        /\ ms[j].addr = nb[j].addr /\ ms[j].free = nb[j].free
        /\ ms[j].addr + ms[j].size = bs[k].addr + bs[k].size
  BY DEF LoopAt
<1>4. j \in Nat /\ j > 0 /\ j \in 1 .. Len(ms) /\ j <= m
  BY <1>2, <1>3
<1>5. /\ ms[j] \in Block /\ b \in Block /\ nb[j] \in Block /\ bs[k] \in Block
      /\ ms[j].addr \in Nat /\ ms[j].size \in Nat /\ b.addr \in Nat /\ b.size \in Nat
      /\ nb[j].addr \in Nat /\ nb[j].size \in Nat /\ bs[k].addr \in Nat /\ bs[k].size \in Nat
  <2>1. ms[j] \in Block /\ b \in Block /\ nb[j] \in Block /\ bs[k] \in Block
    BY <1>1, <1>2, <1>3, <1>4
  <2> HIDE DEF b
  <2> QED
    BY <2>1 DEF Block
<1>6. ms[j].addr + ms[j].size = b.addr
  BY <1>1, <1>3
<1>7. f[j] \in 1 .. n /\ g[j] \in 1 .. n /\ f[j] <= g[j] /\ ms[j].free = bs[f[j]].free
  BY <1>2, <1>3 DEF IsCoalesced
<1>8. \A i \in 1 .. n : f[j] < i /\ i <= g[j] => Absorbed(bs, i)
  BY DEF IsCoalesced
<1>9. CASE k < g[j]
  <2>1. f[j] < k + 1 /\ k + 1 <= g[j] /\ Absorbed(bs, k + 1)
    BY <1>1, <1>3, <1>7, <1>8, <1>9
  <2>2. b.free
    BY <2>1 DEF Absorbed
  <2>3. ms[j].free
    <3>1. /\ f[j] + 1 \in 1 .. n /\ f[j] < f[j] + 1 /\ f[j] + 1 <= g[j]
          /\ (f[j] + 1) - 1 = f[j]
      BY <1>1, <1>3, <1>7, <1>9
    <3>2. Absorbed(bs, f[j] + 1)
      BY <1>8, <3>1
    <3>3. bs[f[j]].free
      BY <3>1, <3>2 DEF Absorbed
    <3> QED
      BY <1>7, <3>3
  <2> DEFINE new == [ms EXCEPT ![j].size = @ + b.size]
  <2>4. Join(ms, b) = new
    <3> HIDE DEF b
    <3> QED
      BY <1>3, <1>4, <1>6, <2>2, <2>3 DEF Join
  <2>5. /\ new \in Seq(Block) /\ Len(new) = j
        /\ \A i \in 1 .. j - 1 : new[i] = ms[i]
        /\ new[j].addr = ms[j].addr /\ new[j].free = ms[j].free
        /\ new[j].size = ms[j].size + b.size
    <3> DEFINE w == [ms[j] EXCEPT !.size = @ + b.size]
    <3>1. w \in Block /\ w.addr = ms[j].addr /\ w.free = ms[j].free /\ w.size = ms[j].size + b.size
      <4> HIDE DEF b
      <4> QED
        BY <1>5 DEF Block
    <3>2. new = [ms EXCEPT ![j] = w]
      BY <1>3
    <3> HIDE DEF new, w, b
    <3>3. new \in Seq(Block) /\ Len(new) = j /\ new[j] = w
      BY <1>3, <1>4, <3>1, <3>2
    <3>4. \A i \in 1 .. j - 1 : new[i] = ms[i]
      BY <1>3, <1>4, <3>2
    <3> QED
      BY <3>1, <3>3, <3>4
  <2> HIDE DEF new, b, m
  <2>6. new[j].addr + new[j].size = b.addr + b.size
    BY <1>5, <1>6, <2>5
  <2>7. f[j] <= k + 1
    BY <1>1, <1>3, <1>7
  <2>8. LoopAt(new, k + 1, nb, bs, f, g)
    BY <1>3, <2>1, <2>5, <2>6, <2>7 DEF LoopAt, b, m
  <2> QED
    BY <2>4, <2>8 DEF b
<1>10. CASE ~(k < g[j])
  <2>1. k = g[j]
    BY <1>1, <1>3, <1>7, <1>10
  <2>2. j \in 1 .. m - 1 /\ j + 1 \in 1 .. m
    <3>1. g[m] = n
      BY DEF IsCoalesced
    <3>2. j # m
      BY <1>1, <2>1, <3>1
    <3> QED
      BY <1>2, <1>4, <3>2
  <2>3. f[j + 1] = k + 1 /\ ~Absorbed(bs, k + 1)
    BY <2>1, <2>2 DEF IsCoalesced
  <2>4. ~(ms[j].free /\ b.free)
    <3> SUFFICES ASSUME ms[j].free, b.free PROVE FALSE
      OBVIOUS
    <3>1. bs[k].free
      <4>1. CASE f[j] = k
        BY <1>7, <4>1
      <4>2. CASE f[j] # k
        <5>1. f[j] < k
          BY <1>1, <1>3, <1>7, <4>2
        <5>2. Absorbed(bs, k)
          BY <1>1, <1>8, <2>1, <5>1
        <5> QED
          BY <5>2 DEF Absorbed
      <4> QED
        BY <4>1, <4>2
    <3>2. k + 1 > 1 /\ (k + 1) - 1 = k
      BY <1>1
    <3>3. Absorbed(bs, k + 1)
      BY <1>1, <3>1, <3>2 DEF Absorbed
    <3> QED
      BY <2>3, <3>3
  <2> DEFINE new == Append(ms, b)
  <2>5. Join(ms, b) = new
    <3> HIDE DEF b
    <3> QED
      BY <1>3, <2>4 DEF Join
  <2>6. /\ new \in Seq(Block) /\ Len(new) = j + 1 /\ new[j + 1] = b
        /\ \A i \in 1 .. j : new[i] = ms[i]
    <3> HIDE DEF b
    <3> QED
      BY <1>3, <1>4, <1>5
  <2>7. ms[j] = nb[j]
    <3>1. nb[j].addr + nb[j].size = bs[g[j]].addr + bs[g[j]].size
      BY DEF IsCoalesced
    <3>2. ms[j].size = nb[j].size
      BY <1>3, <1>5, <2>1, <3>1
    <3> QED
      BY <1>3, <1>5, <3>2, SameBlock
  <2>8. b.addr = nb[j + 1].addr /\ b.free = nb[j + 1].free
    BY <2>2, <2>3 DEF IsCoalesced
  <2> HIDE DEF new, b, m
  <2>9. \A i \in 1 .. (j + 1) - 1 : new[i] = nb[i]
    <3>1. \A i \in 1 .. (j + 1) - 1 : i \in 1 .. j /\ (i = j \/ i \in 1 .. j - 1)
      BY <1>4
    <3> QED
      BY <1>3, <2>6, <2>7, <3>1
  <2>10. f[j + 1] <= k + 1 /\ k + 1 <= g[j + 1]
    BY <1>1, <1>2, <2>2, <2>3
  <2>11. LoopAt(new, k + 1, nb, bs, f, g)
    BY <2>2, <2>6, <2>8, <2>9, <2>10 DEF LoopAt, b, m
  <2> QED
    BY <2>5, <2>11 DEF b
<1> QED
  BY <1>9, <1>10

\* One round of the loop makes a list of blocks of one.
LEMMA JoinTypes ==
  ASSUME NEW ms \in Seq(Block), NEW b \in Block
  PROVE  Join(ms, b) \in Seq(Block)
<1> DEFINE n == Len(ms)
           old == ms[n]
           w == [old EXCEPT !.size = @ + b.size]
<1>1. n \in Nat
  OBVIOUS
<1>2. CASE n > 0 /\ ms[n].free /\ b.free /\ ms[n].addr + ms[n].size = b.addr
  <2>1. ms[n] \in Block /\ n \in 1 .. n
    BY <1>1, <1>2
  <2>2. w \in Block
    <3>1. old \in Block
      BY <2>1
    <3> HIDE DEF old
    <3> QED
      BY <3>1 DEF Block
  <2>3. Join(ms, b) = [ms EXCEPT ![n] = w]
    BY <1>2 DEF Join
  <2> HIDE DEF w
  <2> QED
    BY <2>1, <2>2, <2>3
<1>3. CASE ~(n > 0 /\ ms[n].free /\ b.free /\ ms[n].addr + ms[n].size = b.addr)
  <2>1. Join(ms, b) = Append(ms, b)
    BY <1>3 DEF Join
  <2> QED
    BY <2>1
<1> QED
  BY <1>2, <1>3

\* The loop of __buffalloc_free makes of a list of blocks what Coalesced does.
LEMMA LoopCoalesces ==
  ASSUME NEW bs, Covers(bs)
  PROVE  JoinedOneByOne(bs) = Coalesced(bs)
<1> DEFINE n == Len(bs)
           nb == Coalesced(bs)
           Round(h) == [k \in 0 .. n |-> IF k = 0 THEN <<>> ELSE Join(h[k - 1], bs[k])]
           made == CHOOSE h : h = Round(h)
<1>1. n \in Nat /\ n > 0 /\ bs \in Seq(Block) /\ \A k \in 1 .. n : bs[k] \in Block
  BY DEF Covers
<1>2. PICK f, g : IsCoalesced(nb, bs, f, g)
  BY CoalescedRuns
<1>3. JoinedOneByOne(bs) = made[n]
  BY DEF JoinedOneByOne
<1>4. \E h : h = Round(h)
  <2> DEFINE F == [k \in 1 .. n |-> [ms \in Seq(Block) |-> Join(ms, bs[k])]]
  <2>1. F \in [1 .. n -> [Seq(Block) -> Seq(Block)]]
    BY <1>1, JoinTypes
  <2>2. \A k \in 1 .. n, ms \in Seq(Block) : F[k][ms] = Join(ms, bs[k])
    OBVIOUS
  <2>3. <<>> \in Seq(Block)
    OBVIOUS
  <2> DEFINE X == Seq(Block)
             x == <<>>
  <2>8. n \in Nat /\ x \in X /\ F \in Rounds(n, X)
    BY <1>1, <2>1, <2>3 DEF Rounds
  <2> HIDE DEF F, n, X, x
  <2>9. PICK h : IsCourse(h, n, X, x, F)
    BY <2>8, CourseExists
  <2>4. h \in [0 .. n -> Seq(Block)] /\ h[0] = <<>> /\ \A k \in 1 .. n : h[k] = F[k][h[k - 1]]
    BY <2>9 DEF X, x, IsCourse
  <2>5. \A k \in 1 .. n : h[k] = Join(h[k - 1], bs[k])
    <3> TAKE k \in 1 .. n
    <3>1. k - 1 \in 0 .. n
      BY <1>1
    <3> QED
      BY <2>2, <2>4, <3>1
  <2>6. \A k \in 0 .. n : h[k] = IF k = 0 THEN <<>> ELSE Join(h[k - 1], bs[k])
    BY <1>1, <2>4, <2>5
  <2>7. h = Round(h)
    BY <2>4, <2>6
  <2> QED
    BY <2>7
<1>5. made = Round(made)
  <2> HIDE DEF Round
  <2> QED
    BY <1>4
<1> HIDE DEF made, nb
<1>6. made[0] = <<>> /\ \A k \in 1 .. n : made[k] = Join(made[k - 1], bs[k])
  BY <1>1, <1>5
<1> HIDE DEF Round, n
<1> DEFINE S == {k \in 0 .. n : k > 0 => LoopAt(made[k], k, nb, bs, f, g)}
<1>7. 0 \in S
  BY <1>1
<1>8. ASSUME NEW k \in 0 .. n - 1, k \in S PROVE k + 1 \in S
  <2>1. k + 1 \in 1 .. n /\ k + 1 \in 0 .. n /\ (k + 1) - 1 = k
    BY <1>1
  <2>2. made[k + 1] = Join(made[k], bs[k + 1])
    BY <1>6, <2>1
  <2>3. CASE k = 0
    BY <1>2, <1>6, <2>1, <2>2, <2>3, LoopStarts
  <2>4. CASE k # 0
    <3>1. k \in 1 .. Len(bs) - 1 /\ LoopAt(made[k], k, nb, bs, f, g)
      BY <1>8, <2>4 DEF n
    <3>2. LoopAt(Join(made[k], bs[k + 1]), k + 1, nb, bs, f, g)
      BY <1>2, <3>1, LoopGoesOn
    <3> QED
      BY <2>1, <2>2, <3>2
  <2> QED
    BY <2>3, <2>4
<1> HIDE DEF S
<1>9. n \in S
  <2>1. 0 .. n \subseteq S
    BY <1>1, <1>7, <1>8, InductionUpTo
  <2> QED
    BY <1>1, <2>1
<1>10. PICK j \in 1 .. Len(nb) :
         /\ f[j] <= n /\ n <= g[j]
         /\ made[n] \in Seq(Block) /\ Len(made[n]) = j
         /\ \A i \in 1 .. j - 1 : made[n][i] = nb[i]
         /\ made[n][j].addr = nb[j].addr /\ made[n][j].free = nb[j].free
         /\ made[n][j].addr + made[n][j].size = bs[n].addr + bs[n].size
  BY <1>1, <1>9 DEF S, LoopAt
<1> DEFINE ms == made[n]
<1>11. /\ nb \in Seq(Block) /\ Len(nb) \in Nat
       /\ \A i \in 1 .. Len(nb) : f[i] \in 1 .. n /\ g[i] \in 1 .. n
  <2>1. /\ nb \in Seq(Block)
        /\ f \in [1 .. Len(nb) -> 1 .. n] /\ g \in [1 .. Len(nb) -> 1 .. n]
    BY <1>2 DEF IsCoalesced, n
  <2> QED
    BY <2>1
<1>12. j = Len(nb)
  <2>1. ASSUME j < Len(nb) PROVE FALSE
    <3>1. Len(nb) \in 1 .. Len(nb) /\ g[j] < f[Len(nb)]
      BY <1>2, <1>10, <1>11, <2>1 DEF IsCoalesced
    <3> QED
      BY <1>1, <1>10, <1>11, <3>1
  <2> QED
    BY <1>10, <1>11, <2>1
<1>13. g[j] = n /\ nb[j].addr + nb[j].size = bs[n].addr + bs[n].size
  <2>1. g[j] = n
    BY <1>1, <1>10, <1>11
  <2> QED
    BY <1>2, <1>10, <2>1 DEF IsCoalesced
<1> HIDE DEF ms
<1>14. ms \in Seq(Block) /\ Len(ms) = j /\ j \in Nat /\ j > 0 /\ \A i \in 1 .. j - 1 : ms[i] = nb[i]
  BY <1>10, <1>11 DEF ms
<1>15. ms[j] = nb[j]
  <2>1. ms[j] \in Block /\ nb[j] \in Block
    BY <1>10, <1>11, <1>14
  <2>2. /\ ms[j].addr = nb[j].addr /\ ms[j].free = nb[j].free
        /\ ms[j].addr + ms[j].size = nb[j].addr + nb[j].size
    BY <1>10, <1>13 DEF ms
  <2>3. ms[j].addr \in Nat /\ ms[j].size \in Nat /\ nb[j].size \in Nat
    BY <2>1 DEF Block
  <2>4. ms[j].size = nb[j].size
    BY <2>2, <2>3
  <2> QED
    BY <2>1, <2>2, <2>4, SameBlock
<1>16. \A i \in 1 .. Len(nb) : ms[i] = nb[i]
  <2>1. \A i \in 1 .. j : i = j \/ i \in 1 .. j - 1
    BY <1>14
  <2> QED
    BY <1>12, <1>14, <1>15, <2>1
<1>17. ms = nb
  BY <1>11, <1>12, <1>14, <1>16
<1> QED
  BY <1>3, <1>17 DEF ms, nb

-----------------------------------------------------------------------------
(* The blocks in use and what callers hold *)

\* Callers hold, in h, exactly the blocks of S.
HeldMatches(S, h) ==
  /\ {b.addr + Header : b \in S} = DOMAIN h
  /\ \A b \in S : h[b.addr + Header] <= b.size - Header

HeldTypes(h) == DOMAIN h \subseteq Nat \ {0} /\ \A p \in DOMAIN h : h[p] \in Size \ {0}

LEMMA HoldingMatches ==
  ASSUME NEW S, S \subseteq Block, NEW h, HeldMatches(S, h), NEW b \in Block,
         \A c \in S : c.addr # b.addr, NEW n \in Nat, n + Header <= b.size
  PROVE  HeldMatches(S \cup {b}, Holding(h, b.addr + Header, n))
<1> DEFINE p == b.addr + Header
           new == Holding(h, p, n)
<1>1. Header \in Nat /\ b.addr \in Nat /\ b.size \in Nat
  BY HeaderSize DEF Block
<1>2. \A c \in S : c.addr \in Nat /\ c.size \in Nat
  BY DEF Block
<1>3. n <= b.size - Header
  <2> HIDE DEF Header
  <2> QED
    BY <1>1
<1> HIDE DEF Header
<1>4. \A c \in S : c.addr + Header # p
  BY <1>1, <1>2
<1> HIDE DEF p
<1>5. DOMAIN new = DOMAIN h \cup {p} /\ new[p] = n /\ \A q \in DOMAIN h : q # p => new[q] = h[q]
  BY DEF Holding
<1> HIDE DEF new
<1>6. {c.addr + Header : c \in S} = DOMAIN h /\ \A c \in S : h[c.addr + Header] <= c.size - Header
  BY DEF HeldMatches
<1>7. {c.addr + Header : c \in S \cup {b}} = {c.addr + Header : c \in S} \cup {p}
  BY DEF p
<1>8. ASSUME NEW c \in S \cup {b} PROVE new[c.addr + Header] <= c.size - Header
  <2>1. CASE c = b
    BY <1>3, <1>5, <2>1 DEF p
  <2>2. CASE c \in S
    <3>1. c.addr + Header \in DOMAIN h /\ c.addr + Header # p
      BY <1>4, <1>6, <2>2
    <3>2. new[c.addr + Header] = h[c.addr + Header]
      BY <1>5, <3>1
    <3> QED
      BY <1>6, <2>2, <3>2
  <2> QED
    BY <2>1, <2>2
<1>9. HeldMatches(S \cup {b}, new)
  BY <1>5, <1>6, <1>7, <1>8 DEF HeldMatches
<1> QED
  BY <1>9 DEF new, p

LEMMA WithoutMatches ==
  ASSUME NEW S, S \subseteq Block, NEW h, HeldMatches(S, h), NEW p \in Nat
  PROVE  HeldMatches({b \in S : b.addr # p - Header}, Without(h, p))
<1> DEFINE T == {b \in S : b.addr # p - Header}
           new == Without(h, p)
<1>1. Header \in Nat
  BY HeaderSize
<1>2. \A c \in S : c.addr \in Nat
  BY DEF Block
<1> HIDE DEF Header
<1>3. \A c \in S : c.addr = p - Header <=> c.addr + Header = p
  BY <1>1, <1>2
<1>4. DOMAIN new = DOMAIN h \ {p} /\ \A q \in DOMAIN h : q # p => new[q] = h[q]
  BY DEF Without
<1>5. {c.addr + Header : c \in S} = DOMAIN h /\ \A c \in S : h[c.addr + Header] <= c.size - Header
  BY DEF HeldMatches
<1>6. \A c : c \in T <=> c \in S /\ c.addr + Header # p
  BY <1>3
<1> HIDE DEF T, new
<1>7. {c.addr + Header : c \in T} = DOMAIN new
  <2>1. \A q : q \in {c.addr + Header : c \in T} <=> q \in DOMAIN h /\ q # p
    BY <1>5, <1>6
  <2> QED
    BY <1>4, <2>1
<1>8. \A c \in T : new[c.addr + Header] <= c.size - Header
  BY <1>4, <1>5, <1>6
<1> QED
  BY <1>7, <1>8 DEF HeldMatches, T, new

\* A caller's region keeps its place when its size changes within the block.
LEMMA ResizedMatches ==
  ASSUME NEW S, S \subseteq Block, NEW h, HeldMatches(S, h), NEW b \in S,
         \A c \in S : c # b => c.addr # b.addr, NEW n \in Nat, n + Header <= b.size
  PROVE  HeldMatches(S, Holding(h, b.addr + Header, n))
<1> DEFINE T == S \ {b}
           p == b.addr + Header
           new == Holding(h, p, n)
<1>1. Header \in Nat /\ b \in Block /\ b.addr \in Nat /\ b.size \in Nat
  BY HeaderSize DEF Block
<1>2. \A c \in S : c.addr \in Nat /\ c.size \in Nat
  BY DEF Block
<1>3. n <= b.size - Header
  <2> HIDE DEF Header
  <2> QED
    BY <1>1
<1> HIDE DEF Header
<1>4. \A c \in S : c # b => c.addr + Header # p
  BY <1>1, <1>2
<1> HIDE DEF p
<1>5. DOMAIN new = DOMAIN h \cup {p} /\ new[p] = n /\ \A q \in DOMAIN h : q # p => new[q] = h[q]
  BY DEF Holding
<1> HIDE DEF new
<1>6. {c.addr + Header : c \in S} = DOMAIN h /\ \A c \in S : h[c.addr + Header] <= c.size - Header
  BY DEF HeldMatches
<1>7. p \in DOMAIN h
  BY <1>6 DEF p
<1>8. ASSUME NEW c \in S PROVE new[c.addr + Header] <= c.size - Header
  <2>1. CASE c = b
    BY <1>3, <1>5, <2>1 DEF p
  <2>2. CASE c # b
    <3>1. c.addr + Header \in DOMAIN h /\ c.addr + Header # p
      BY <1>4, <1>6, <2>2
    <3>2. new[c.addr + Header] = h[c.addr + Header]
      BY <1>5, <3>1
    <3> QED
      BY <1>6, <3>2
  <2> QED
    BY <2>1, <2>2
<1>9. DOMAIN new = DOMAIN h
  BY <1>5, <1>7
<1>10. HeldMatches(S, new)
  BY <1>6, <1>8, <1>9 DEF HeldMatches
<1> QED
  BY <1>10 DEF new, p

LEMMA HeldTypesKept ==
  ASSUME NEW h, HeldTypes(h), NEW p \in Nat \ {0}, NEW n \in Size \ {0}
  PROVE  HeldTypes(Holding(h, p, n)) /\ HeldTypes(Without(h, p))
BY DEF HeldTypes, Holding, Without

\* Blocks in use share no byte and lie in the buffer.
LEMMA InUseDisjoint ==
  ASSUME NEW bs, Covers(bs)
  PROVE  /\ InUse(bs) \subseteq Block
         /\ \A b, c \in InUse(bs) :
              b # c => /\ b.addr # c.addr
                       /\ b.addr + b.size <= c.addr \/ c.addr + c.size <= b.addr
         /\ \A b \in InUse(bs) : First <= b.addr /\ b.addr + b.size <= Capacity /\ b.size >= Header
<1>1. bs \in Seq(Block)
  BY DEF Covers
<1>2. ASSUME NEW b \in InUse(bs), NEW c \in InUse(bs), b # c
      PROVE  b.addr # c.addr /\ (b.addr + b.size <= c.addr \/ c.addr + c.size <= b.addr)
  <2>1. PICK i \in 1 .. Len(bs) : b = bs[i]
    BY <1>1, InUseMembers
  <2>2. PICK j \in 1 .. Len(bs) : c = bs[j]
    BY <1>1, InUseMembers
  <2>3. i # j
    BY <1>2, <2>1, <2>2
  <2> QED
    BY <2>1, <2>2, <2>3, BlocksDisjoint
<1>3. ASSUME NEW b \in InUse(bs)
      PROVE  First <= b.addr /\ b.addr + b.size <= Capacity /\ b.size >= Header
  <2>1. PICK i \in 1 .. Len(bs) : b = bs[i]
    BY <1>1, InUseMembers
  <2> QED
    BY <2>1, BlocksInside, BlockTypes
<1> QED
  BY <1>1, <1>2, <1>3, InUseMembers

-----------------------------------------------------------------------------
(* The invariant *)

HInv ==
  /\ Covers(blocks)
  /\ Joined(blocks)
  /\ ret \in Nat
  /\ HeldTypes(held)
  /\ HeldMatches(InUse(blocks), held)

LEMMA InitHInv == Init => HInv
<1> SUFFICES ASSUME Init PROVE HInv
  OBVIOUS
<1> DEFINE b == [addr |-> First, size |-> Capacity - First, free |-> TRUE]
<1>1. First \in Nat /\ Capacity \in Nat /\ First + Header <= Capacity /\ Header \in Nat
  BY FirstSize, HeaderSize
<1>2. blocks = <<b>> /\ ret = Null /\ held = <<>>
  BY DEF Init
<1>3. /\ b \in Block /\ b.addr = First /\ b.size = Capacity - First /\ b.free
      /\ b.addr + b.size = Capacity /\ b.size >= Header
  <2> HIDE DEF First, Header
  <2> QED
    BY <1>1 DEF Block
<1> HIDE DEF b, First, Header
<1>4. blocks \in Seq(Block) /\ Len(blocks) = 1 /\ blocks[1] = b
  BY <1>2, <1>3
<1>5. Covers(blocks)
  <2>1. \A i \in 1 .. Len(blocks) : i = 1
    BY <1>4
  <2>2. \A i \in 1 .. Len(blocks) - 1 : FALSE
    BY <1>4
  <2>3. \A i, j \in 1 .. Len(blocks) : ~(i < j)
    BY <2>1
  <2> QED
    BY <1>3, <1>4, <2>1, <2>2, <2>3 DEF Covers
<1>6. Joined(blocks)
  BY <1>4 DEF Joined
<1>7. InUse(blocks) = {}
  <2>1. \A x : x \notin InUse(blocks)
    BY <1>3, <1>4, InUseMembers
  <2> QED
    BY <2>1
<1>8. DOMAIN held = {}
  BY <1>2
<1>9. HeldTypes(held) /\ HeldMatches(InUse(blocks), held)
  BY <1>7, <1>8 DEF HeldTypes, HeldMatches
<1> QED
  BY <1>2, <1>5, <1>6, <1>9 DEF HInv, Null

\* The block an allocation takes: it was free, and nothing in use overlaps it.
LEMMA AllocEffect ==
  ASSUME NoOverflow, HInv, NEW n \in Size, n > 0,
         NEW i \in DOMAIN blocks, FirstFit(blocks, i, TotalSize(n))
  PROVE  LET nb == Taken(blocks, i, TotalSize(n))
         IN  /\ Covers(nb) /\ Joined(nb)
             /\ \E b \in Block :
                  /\ b.addr = blocks[i].addr /\ n + Header <= b.size
                  /\ First <= b.addr /\ b.addr + b.size <= Capacity
                  /\ \A c \in InUse(blocks) :
                       /\ c.addr # b.addr
                       /\ b.addr + b.size <= c.addr \/ c.addr + c.size <= b.addr
                  /\ InUse(nb) = InUse(blocks) \cup {b}
<1> DEFINE total == TotalSize(n)
           nb == Taken(blocks, i, total)
<1>1. Covers(blocks) /\ Joined(blocks) /\ blocks \in Seq(Block)
  BY DEF HInv, Covers
<1>2. i \in 1 .. Len(blocks)
  BY <1>1
<1>3. blocks[i].free /\ blocks[i].size >= total
  BY DEF FirstFit, Fits
<1>4. total \in Nat /\ n + Header <= total /\ Header \in Nat /\ n \in Nat
  BY TotalSizeBounds, HeaderSize, SizeAssumption
<1> HIDE DEF total, Header, First
<1>5. total >= Header
  BY <1>4
<1>6. Covers(nb) /\ Joined(nb)
  BY <1>1, <1>2, <1>3, <1>4, <1>5, TakenProperties
<1>7. PICK b \in Block : /\ b.addr = blocks[i].addr /\ total <= b.size /\ b.size <= blocks[i].size
                         /\ InUse(nb) = InUse(blocks) \cup {b}
  BY <1>1, <1>2, <1>3, <1>4, <1>5, TakenProperties
<1>8. /\ b.addr \in Nat /\ b.size \in Nat /\ blocks[i].addr \in Nat /\ blocks[i].size \in Nat
  BY <1>1, <1>2, BlockTypes DEF Block
<1>9. n + Header <= b.size
  BY <1>4, <1>7, <1>8
<1>10. First <= b.addr /\ b.addr + b.size <= Capacity
  <2>1. First <= blocks[i].addr /\ blocks[i].addr + blocks[i].size <= Capacity
    BY <1>1, <1>2, BlocksInside
  <2>2. Capacity \in Nat /\ First \in Nat
    BY FirstSize
  <2> QED
    BY <1>7, <1>8, <2>1, <2>2
<1>11. ASSUME NEW c \in InUse(blocks)
       PROVE  c.addr # b.addr /\ (b.addr + b.size <= c.addr \/ c.addr + c.size <= b.addr)
  <2>1. PICK j \in 1 .. Len(blocks) : ~blocks[j].free /\ c = blocks[j]
    BY <1>1, InUseMembers
  <2>2. j # i
    BY <1>3, <2>1
  <2>3. /\ blocks[i].addr # blocks[j].addr
        /\ \/ blocks[i].addr + blocks[i].size <= blocks[j].addr
           \/ blocks[j].addr + blocks[j].size <= blocks[i].addr
    BY <1>1, <1>2, <2>2, BlocksDisjoint
  <2>4. blocks[j].addr \in Nat /\ blocks[j].size \in Nat
    BY <1>1, BlockTypes
  <2>5. blocks[i].addr + blocks[i].size <= c.addr => b.addr + b.size <= c.addr
    BY <1>7, <1>8, <2>1, <2>4
  <2> QED
    BY <1>7, <2>1, <2>3, <2>5
<1> QED
  BY <1>6, <1>7, <1>9, <1>10, <1>11 DEF total

\* What a pointer that a caller holds stands for.
LEMMA HeldBlock ==
  ASSUME HInv, NEW p \in DOMAIN held
  PROVE  /\ p \in Nat \ {0}
         /\ BlockOf(p) \in InUse(blocks) /\ BlockOf(p).addr = p - Header
         /\ BlockOf(p).addr + Header = p
<1>1. Covers(blocks) /\ blocks \in Seq(Block) /\ DOMAIN blocks = 1 .. Len(blocks)
  BY DEF HInv, Covers
<1>2. p \in Nat \ {0} /\ p \in {b.addr + Header : b \in InUse(blocks)}
  BY DEF HInv, HeldTypes, HeldMatches
<1>3. PICK b \in InUse(blocks) : p = b.addr + Header
  BY <1>2
<1>4. PICK i \in 1 .. Len(blocks) : ~blocks[i].free /\ b = blocks[i]
  BY <1>1, InUseMembers
<1>5. Header \in Nat /\ b.addr \in Nat
  BY <1>1, <1>4, HeaderSize, BlockTypes
<1> HIDE DEF Header
<1>6. blocks[i].addr = p - Header
  BY <1>3, <1>4, <1>5
<1> DEFINE j == CHOOSE k \in DOMAIN blocks : blocks[k].addr = p - Header
<1>7. j \in DOMAIN blocks /\ blocks[j].addr = p - Header
  BY <1>1, <1>6
<1>8. j = i
  <2> HIDE DEF j
  <2> QED
    BY <1>1, <1>6, <1>7, BlocksDisjoint
<1>9. BlockOf(p) = b
  BY <1>4, <1>8 DEF BlockOf
<1> QED
  BY <1>2, <1>3, <1>4, <1>6, <1>9

LEMMA FreeEffect ==
  ASSUME NEW bs, Covers(bs), NEW p
  PROVE  /\ Covers(Coalesced(Freed(bs, p))) /\ Joined(Coalesced(Freed(bs, p)))
         /\ InUse(Coalesced(Freed(bs, p))) = {b \in InUse(bs) : b.addr # p - Header}
BY FreedProperties, CoalescedProperties

LEMMA AllocHInv ==
  ASSUME NoOverflow, HInv, NEW n \in Size, Alloc(n)
  PROVE  HInv'
<1>1. CASE Fail
  BY <1>1 DEF Fail, HInv, Null
<1>2. CASE /\ n > 0
           /\ \E i \in DOMAIN blocks :
                /\ FirstFit(blocks, i, TotalSize(n))
                /\ blocks' = Taken(blocks, i, TotalSize(n))
                /\ ret' = blocks[i].addr + Header
           /\ held' = Holding(held, ret', n)
  <2>1. PICK i \in DOMAIN blocks : /\ FirstFit(blocks, i, TotalSize(n))
                                   /\ blocks' = Taken(blocks, i, TotalSize(n))
                                   /\ ret' = blocks[i].addr + Header
    BY <1>2
  <2>2. Covers(blocks') /\ Joined(blocks')
    BY <1>2, <2>1, AllocEffect
  <2>3. PICK b \in Block : /\ b.addr = blocks[i].addr /\ n + Header <= b.size
                           /\ \A c \in InUse(blocks) : c.addr # b.addr
                           /\ InUse(blocks') = InUse(blocks) \cup {b}
    BY <1>2, <2>1, AllocEffect
  <2>4. Header \in Nat \ {0} /\ n \in Nat /\ n \in Size \ {0} /\ b.addr \in Nat
    BY <1>2, HeaderSize, SizeAssumption DEF Block
  <2> HIDE DEF Header
  <2>5. ret' = b.addr + Header /\ ret' \in Nat \ {0}
    BY <2>1, <2>3, <2>4
  <2>6. HeldTypes(held')
    BY <1>2, <2>4, <2>5, HeldTypesKept DEF HInv
  <2>7. HeldMatches(InUse(blocks'), held')
    <3>1. InUse(blocks) \subseteq Block /\ HeldMatches(InUse(blocks), held)
      BY InUseDisjoint DEF HInv
    <3>2. HeldMatches(InUse(blocks) \cup {b}, Holding(held, b.addr + Header, n))
      BY <2>3, <2>4, <3>1, HoldingMatches
    <3> QED
      BY <1>2, <2>3, <2>5, <3>2
  <2> QED
    BY <2>2, <2>5, <2>6, <2>7 DEF HInv
<1> QED
  BY <1>1, <1>2 DEF Alloc

LEMMA FreeHInv ==
  ASSUME HInv, NEW p \in DOMAIN held, Free(p)
  PROVE  HInv'
<1>1. p \in Nat \ {0}
  BY HeldBlock
<1>2. /\ Covers(blocks') /\ Joined(blocks')
      /\ InUse(blocks') = {b \in InUse(blocks) : b.addr # p - Header}
  BY FreeEffect DEF HInv, Free
<1>3. HeldMatches(InUse(blocks'), held')
  <2>1. InUse(blocks) \subseteq Block /\ HeldMatches(InUse(blocks), held)
    BY InUseDisjoint DEF HInv
  <2> QED
    BY <1>1, <1>2, <2>1, WithoutMatches DEF Free
<1>4. HeldTypes(held')
  BY DEF HInv, HeldTypes, Free, Without
<1>5. ret' \in Nat
  BY DEF Free, Null
<1> QED
  BY <1>2, <1>3, <1>4, <1>5 DEF HInv

LEMMA ReallocHInv ==
  ASSUME NoOverflow, HInv, NEW p \in DOMAIN held, NEW n \in Size, Realloc(p, n)
  PROVE  HInv'
<1> DEFINE old == BlockOf(p)
<1>1. /\ p \in Nat \ {0} /\ old \in InUse(blocks) /\ old.addr = p - Header
      /\ old.addr + Header = p
  BY HeldBlock
<1>2. InUse(blocks) \subseteq Block /\ HeldMatches(InUse(blocks), held) /\ HeldTypes(held)
  BY InUseDisjoint DEF HInv
<1>3. n \in Nat /\ Header \in Nat \ {0} /\ old.size \in Nat /\ old.addr \in Nat
  BY <1>1, <1>2, HeaderSize, SizeAssumption DEF Block
<1>4. old.size >= Header
  BY <1>1, InUseDisjoint DEF HInv
<1> HIDE DEF old, Header
<1>5. CASE n = 0 /\ Free(p)
  BY <1>5, FreeHInv
<1>6. CASE n > 0 /\ n + Header <= old.size
           /\ ret' = p /\ held' = Holding(held, p, n) /\ UNCHANGED blocks
  <2>1. n \in Size \ {0}
    BY <1>6
  <2>2. HeldTypes(held')
    BY <1>1, <1>2, <1>6, <2>1, HeldTypesKept
  <2>3. \A c \in InUse(blocks) : c # old => c.addr # old.addr
    BY <1>1, InUseDisjoint DEF HInv
  <2>4. HeldMatches(InUse(blocks), Holding(held, old.addr + Header, n))
    BY <1>1, <1>2, <1>3, <1>6, <2>3, ResizedMatches
  <2> QED
    BY <1>1, <1>6, <2>2, <2>4 DEF HInv
<1>7. CASE Fail
  BY <1>7 DEF Fail, HInv, Null
<1>8. CASE /\ n + Header > old.size
           /\ \E i \in DOMAIN blocks :
                /\ FirstFit(blocks, i, TotalSize(n))
                /\ blocks' = Coalesced(Freed(Taken(blocks, i, TotalSize(n)), p))
                /\ ret' = blocks[i].addr + Header
           /\ held' = Holding(Without(held, p), ret', n)
  <2>0. n > 0 /\ n \in Size \ {0}
    BY <1>3, <1>4, <1>8
  <2>1. PICK i \in DOMAIN blocks :
               /\ FirstFit(blocks, i, TotalSize(n))
               /\ blocks' = Coalesced(Freed(Taken(blocks, i, TotalSize(n)), p))
               /\ ret' = blocks[i].addr + Header
    BY <1>8
  <2> DEFINE nb == Taken(blocks, i, TotalSize(n))
  <2>2. Covers(nb)
    BY <2>0, <2>1, AllocEffect
  <2>3. PICK b \in Block : /\ b.addr = blocks[i].addr /\ n + Header <= b.size
                           /\ \A c \in InUse(blocks) : c.addr # b.addr
                           /\ InUse(nb) = InUse(blocks) \cup {b}
    BY <2>0, <2>1, AllocEffect
  <2> HIDE DEF nb
  <2>4. /\ Covers(blocks') /\ Joined(blocks')
        /\ InUse(blocks') = {c \in InUse(nb) : c.addr # p - Header}
    BY <2>1, <2>2, FreeEffect DEF nb
  <2> DEFINE rest == {c \in InUse(blocks) : c.addr # p - Header}
  <2>5. b.addr # p - Header /\ b.addr \in Nat
    BY <1>1, <2>3 DEF Block
  <2>6. InUse(blocks') = rest \cup {b}
    BY <2>3, <2>4, <2>5
  <2>7. HeldMatches(rest, Without(held, p))
    BY <1>1, <1>2, WithoutMatches
  <2>8. rest \subseteq Block /\ \A c \in rest : c.addr # b.addr
    BY <1>2, <2>3
  <2> HIDE DEF rest
  <2>9. HeldMatches(rest \cup {b}, Holding(Without(held, p), b.addr + Header, n))
    BY <1>3, <2>3, <2>7, <2>8, HoldingMatches
  <2>10. ret' = b.addr + Header /\ ret' \in Nat \ {0}
    BY <1>3, <2>1, <2>3, <2>5
  <2>11. HeldTypes(held')
    <3>1. HeldTypes(Without(held, p))
      BY <1>1, <1>2, <2>0, HeldTypesKept
    <3> QED
      BY <1>8, <2>0, <2>10, <3>1, HeldTypesKept
  <2> QED
    BY <1>8, <2>4, <2>6, <2>9, <2>10, <2>11 DEF HInv
<1> QED
  BY <1>5, <1>6, <1>7, <1>8 DEF Realloc, old

LEMMA NextHInv ==
  ASSUME NoOverflow, HInv, [Next]_vars
  PROVE  HInv'
<1>1. CASE \E n \in Size : Alloc(n)
  BY <1>1, AllocHInv
<1>2. CASE \E p \in DOMAIN held : Free(p)
  BY <1>2, FreeHInv
<1>3. CASE \E p \in DOMAIN held, n \in Size : Realloc(p, n)
  BY <1>3, ReallocHInv
<1>4. CASE UNCHANGED vars
  BY <1>4 DEF vars, HInv
<1> QED
  BY <1>1, <1>2, <1>3, <1>4 DEF Next

-----------------------------------------------------------------------------
(* Room in the buffer *)

\* Every address of the buffer lies in a block.
LEMMA BlockAt ==
  ASSUME NEW bs, Covers(bs), NEW a \in Nat, First <= a, a < Capacity
  PROVE  \E i \in 1 .. Len(bs) : bs[i].addr <= a /\ a < bs[i].addr + bs[i].size
<1> DEFINE n == Len(bs)
           I == {i \in 1 .. n : bs[i].addr <= a}
           R == {q \in I \X I : q[1] < q[2]}
           m == Cardinality(I)
           i == Ranked(I, R)[m]
<1>1. n \in Nat /\ n > 0 /\ bs[1].addr = First /\ bs[n].addr + bs[n].size = Capacity
  BY DEF Covers
<1>2. I \subseteq Nat /\ 1 \in I
  BY <1>1
<1>3. IsFiniteSet(I)
  <2>1. IsFiniteSet(1 .. n)
    BY <1>1, IndicesFinite
  <2> QED
    BY <2>1, FS_Subset
<1>4. StrictOrder(I, R)
  BY <1>2 DEF StrictOrder
<1> HIDE DEF R, I
<1>5. /\ m \in Nat /\ Ranked(I, R) \in [1 .. m -> I]
      /\ \A j \in I : \E k \in 1 .. m : Ranked(I, R)[k] = j
      /\ \A k, l \in 1 .. m : k < l => <<Ranked(I, R)[k], Ranked(I, R)[l]>> \in R
  BY <1>3, <1>4, RankedProperties
<1> HIDE DEF m
<1>6. m \in 1 .. m
  BY <1>2, <1>5
<1>7. i \in I
  BY <1>5, <1>6
<1>8. \A j \in I : j <= i
  <2> SUFFICES ASSUME NEW j \in I PROVE j <= i
    OBVIOUS
  <2>1. PICK k \in 1 .. m : Ranked(I, R)[k] = j
    BY <1>5
  <2>2. CASE k = m
    BY <1>2, <1>7, <2>1, <2>2
  <2>3. CASE k < m
    <3>1. <<j, i>> \in R
      BY <1>5, <1>6, <2>1, <2>3
    <3>2. \A x, y : <<x, y>> \in R => x < y
      BY DEF R
    <3>3. j < i /\ j \in Nat /\ i \in Nat
      BY <1>2, <1>7, <3>1, <3>2
    <3> HIDE DEF i
    <3> QED
      BY <3>3
  <2> QED
    BY <1>5, <2>1, <2>2, <2>3
<1> HIDE DEF i
<1>9. i \in 1 .. n /\ bs[i].addr <= a
  BY <1>7 DEF I
<1>10. a < bs[i].addr + bs[i].size
  <2>1. CASE i = n
    BY <1>1, <2>1
  <2>2. CASE i < n
    <3>1. i \in 1 .. n - 1 /\ i + 1 \in 1 .. n /\ ~(i + 1 <= i)
      BY <1>1, <1>9, <2>2
    <3>2. ~(bs[i + 1].addr <= a)
      BY <1>8, <3>1 DEF I
    <3>3. bs[i].addr + bs[i].size = bs[i + 1].addr /\ bs[i + 1].addr \in Nat
      BY <3>1, BlockTypes DEF Covers
    <3> QED
      BY <3>2, <3>3
  <2> QED
    BY <1>1, <1>9, <2>1, <2>2
<1> QED
  BY <1>9, <1>10 DEF n

\* A list whose free blocks are joined, none of which fits, leaves no gap that
\* would: a gap begins in a free block, and that block is the whole gap.
LEMMA NoFitNoRoom ==
  ASSUME NoOverflow, HInv, NEW n \in Size, n > 0, NoFit(n)
  PROVE  ~Room(n)
<1> SUFFICES ASSUME Room(n) PROVE FALSE
  OBVIOUS
<1> DEFINE total == TotalSize(n)
<1>1. Covers(blocks) /\ Joined(blocks) /\ blocks \in Seq(Block)
  BY DEF HInv, Covers
<1>2. total \in Nat /\ total > 0
  <2>1. TotalSize(n) \in Nat /\ n + Header <= TotalSize(n) /\ Header \in Nat /\ n \in Nat
    BY TotalSizeBounds, HeaderSize, SizeAssumption
  <2> HIDE DEF Header, TotalSize
  <2> QED
    BY <2>1
<1>3. First \in Nat /\ Capacity \in Nat
  BY FirstSize
<1> HIDE DEF total, First
<1>4. PICK a \in First .. Capacity :
             /\ a + total <= Capacity
             /\ \A b \in InUse(blocks) : a + total <= b.addr \/ b.addr + b.size <= a
  BY DEF Room, total
<1>5. a \in Nat /\ First <= a /\ a < Capacity
  BY <1>2, <1>3, <1>4
<1>6. PICK i \in 1 .. Len(blocks) : blocks[i].addr <= a /\ a < blocks[i].addr + blocks[i].size
  BY <1>1, <1>5, BlockAt
<1>7. blocks[i].addr \in Nat /\ blocks[i].size \in Nat /\ blocks[i].free \in BOOLEAN
  BY <1>1, BlockTypes
<1>8. blocks[i].free
  <2> SUFFICES ASSUME ~blocks[i].free PROVE FALSE
    OBVIOUS
  <2>1. blocks[i] \in InUse(blocks)
    BY <1>1, InUseMembers
  <2>2. a + total <= blocks[i].addr \/ blocks[i].addr + blocks[i].size <= a
    BY <1>4, <2>1
  <2> QED
    BY <1>2, <1>5, <1>6, <1>7, <2>2
<1>9. blocks[i].size < total
  <2>1. i \in DOMAIN blocks
    BY <1>1
  <2>2. ~(blocks[i].size >= total)
    BY <1>8, <2>1 DEF NoFit, Fits, total
  <2> QED
    BY <1>2, <1>7, <2>2
<1>10. blocks[i].addr + blocks[i].size < Capacity
  BY <1>2, <1>3, <1>4, <1>5, <1>6, <1>7, <1>9
<1>11. i # Len(blocks)
  BY <1>1, <1>3, <1>7, <1>10 DEF Covers
<1> DEFINE next == blocks[i + 1]
<1>12. i \in 1 .. Len(blocks) - 1 /\ i + 1 \in 1 .. Len(blocks)
  BY <1>1, <1>11
<1>13. next.addr = blocks[i].addr + blocks[i].size
  BY <1>1, <1>12 DEF Covers
<1>14. ~next.free
  BY <1>1, <1>8, <1>12 DEF Joined
<1>15. next \in InUse(blocks)
  BY <1>1, <1>12, <1>14, InUseMembers
<1>16. next.addr \in Nat /\ next.size \in Nat
  BY <1>1, <1>12, BlockTypes
<1> HIDE DEF next
<1>17. a + total <= next.addr \/ next.addr + next.size <= a
  BY <1>4, <1>15
<1> QED
  BY <1>2, <1>5, <1>6, <1>7, <1>9, <1>13, <1>16, <1>17

\* A block that is taken is not at the null address.
LEMMA TakenNotNull ==
  ASSUME HInv, NEW i \in DOMAIN blocks
  PROVE  blocks[i].addr + Header # Null
<1>1. Covers(blocks) /\ i \in 1 .. Len(blocks)
  BY DEF HInv, Covers
<1>2. blocks[i].addr \in Nat /\ Header \in Nat \ {0}
  BY <1>1, BlockTypes, HeaderSize
<1> HIDE DEF Header
<1> QED
  BY <1>2 DEF Null

LEMMA RefusalNoFit ==
  ASSUME HInv, NEW n \in Size, n > 0, ret' = Null,
         Alloc(n) \/ \E p \in DOMAIN held : Realloc(p, n)
  PROVE  NoFit(n)
<1>1. \A i \in DOMAIN blocks : ret' # blocks[i].addr + Header
  BY TakenNotNull
<1>2. CASE Alloc(n)
  <2>1. n # 0
    BY SizeAssumption
  <2> QED
    BY <1>1, <1>2, <2>1 DEF Alloc
<1>3. ASSUME NEW p \in DOMAIN held, Realloc(p, n) PROVE NoFit(n)
  <2>1. n # 0
    BY SizeAssumption
  <2>2. ret' # p
    BY HeldBlock DEF Null
  <2> QED
    BY <1>1, <1>3, <2>1, <2>2 DEF Realloc
<1> QED
  BY <1>2, <1>3

-----------------------------------------------------------------------------
(* The theorems *)

\* The inductive invariant: list and callers agree, and free memory is joined.
THEOREM HeapInvariant == ASSUME NoOverflow PROVE Spec => []HInv
BY InitHInv, NextHInv, PTL DEF Spec

\* Every block, whatever has been split and joined, can hold its own header, and
\* only pointers and sizes that callers may have are held.
THEOREM TypeCorrect == ASSUME NoOverflow PROVE Spec => []TypeOK
<1>1. HInv => TypeOK
  <2> SUFFICES ASSUME HInv PROVE TypeOK
    OBVIOUS
  <2>1. blocks \in Seq(Block) /\ \A i \in DOMAIN blocks : blocks[i].size >= Header
    BY DEF HInv, Covers
  <2> QED
    BY <2>1 DEF TypeOK, HInv, HeldTypes, Null
<1> QED
  BY <1>1, HeapInvariant, PTL

\* However it is allocated from and freed, the list of blocks covers the buffer
\* without gap or overlap.
THEOREM BlocksTile == ASSUME NoOverflow PROVE Spec => []Tiling
<1>1. HInv => Tiling
  <2> SUFFICES ASSUME HInv PROVE Tiling
    OBVIOUS
  <2>1. blocks # <<>>
    BY DEF HInv, Covers
  <2> QED
    BY <2>1 DEF Tiling, HInv, Covers
<1> QED
  BY <1>1, HeapInvariant, PTL

\* A pointer that a caller holds stands for one block in use, as large as was
\* asked for, and no block is in use that nobody holds.
THEOREM HeldAreInUse == ASSUME NoOverflow PROVE Spec => []HeldIsInUse
<1>1. HInv => HeldIsInUse
  BY DEF HInv, HeldMatches, HeldIsInUse
<1> QED
  BY <1>1, HeapInvariant, PTL

\* After every call the free memory between two blocks in use is one block.
THEOREM NeighboursJoined == ASSUME NoOverflow PROVE Spec => []NoFreeNeighbours
<1>1. HInv => NoFreeNeighbours
  BY DEF HInv, Joined, NoFreeNeighbours
<1> QED
  BY <1>1, HeapInvariant, PTL

\* Joining all the free neighbours of a list at once, as the model does, is what the
\* loop of __buffalloc_free does block by block.
THEOREM LoopJoinsRuns == ASSUME NoOverflow PROVE Spec => []CoalescedByLoop
<1>1. HInv => CoalescedByLoop
  BY FreedProperties, LoopCoalesces DEF HInv, CoalescedByLoop
<1> QED
  BY <1>1, HeapInvariant, PTL

\* An allocation or a reallocation fails only when no gap between the blocks in
\* use could take it.
THEOREM RefusalsAreNeeded == ASSUME NoOverflow PROVE Spec => RefusedOnlyWhenFull
<1> DEFINE A == \A n \in Size :
                  n > 0 /\ (Alloc(n) \/ \E p \in DOMAIN held : Realloc(p, n)) /\ ret' = Null
                    => ~Room(n)
<1>1. HInv => A
  BY RefusalNoFit, NoFitNoRoom
<1>2. HInv /\ [Next]_vars => [A]_vars
  BY <1>1
<1> HIDE DEF A
<1>3. Spec => [][A]_vars
  BY <1>2, HeapInvariant, PTL DEF Spec
<1> QED
  BY <1>3 DEF A, RefusedOnlyWhenFull

-----------------------------------------------------------------------------
(* The allocator implements Heap *)

\* The region that the user of a block sees.
Seen(b) == [ptr |-> b.addr + Header, size |-> b.size - Header]

LEMMA LiveSeen == Live = {Seen(b) : b \in InUse(blocks)}
BY DEF Live, Seen

\* Distinct blocks in use are seen as disjoint regions.
LEMMA SeenDisjoint ==
  ASSUME NEW b \in Block, NEW c \in Block, b.size >= Header, c.size >= Header,
         b.addr + b.size <= c.addr \/ c.addr + c.size <= b.addr
  PROVE  H!Disjoint(Seen(b), Seen(c)) /\ H!Disjoint(Seen(c), Seen(b))
<1>1. Header \in Nat
  BY HeaderSize
<1>2. b.addr \in Nat /\ b.size \in Nat /\ c.addr \in Nat /\ c.size \in Nat
  BY DEF Block
<1> HIDE DEF Header
<1>3. /\ Seen(b).ptr = b.addr + Header /\ Seen(b).size = b.size - Header
      /\ Seen(c).ptr = c.addr + Header /\ Seen(c).size = c.size - Header
  BY DEF Seen
<1>4. /\ Seen(b).ptr + Seen(b).size = b.addr + b.size
      /\ Seen(c).ptr + Seen(c).size = c.addr + c.size
  BY <1>1, <1>2, <1>3
<1>5. b.addr + b.size <= c.addr => Seen(b).ptr + Seen(b).size <= Seen(c).ptr
  BY <1>1, <1>2, <1>3, <1>4
<1>6. c.addr + c.size <= b.addr => Seen(c).ptr + Seen(c).size <= Seen(b).ptr
  BY <1>1, <1>2, <1>3, <1>4
<1> QED
  BY <1>5, <1>6 DEF H!Disjoint

\* Taking the block at one address away takes its region away, and no other.
LEMMA SeenWithout ==
  ASSUME HInv, NEW b \in InUse(blocks)
  PROVE  {Seen(c) : c \in {d \in InUse(blocks) : d.addr # b.addr}} = Live \ {Seen(b)}
<1>1. /\ InUse(blocks) \subseteq Block
      /\ \A c \in InUse(blocks) : c # b => c.addr # b.addr
  BY InUseDisjoint DEF HInv
<1>2. ASSUME NEW c \in InUse(blocks), c.addr # b.addr PROVE Seen(c) # Seen(b)
  <2>1. Header \in Nat /\ c.addr \in Nat /\ b.addr \in Nat
    BY <1>1, HeaderSize DEF Block
  <2> HIDE DEF Header
  <2>2. c.addr + Header # b.addr + Header
    BY <1>2, <2>1
  <2>3. Seen(c).ptr = c.addr + Header /\ Seen(b).ptr = b.addr + Header
    BY DEF Seen
  <2> QED
    BY <2>2, <2>3
<1>3. \A c \in InUse(blocks) : c.addr # b.addr <=> Seen(c) # Seen(b)
  BY <1>1, <1>2
<1> QED
  BY <1>3, LiveSeen

\* What an allocation obtains, whatever else happens to the other regions.
LEMMA ObtainSeen ==
  ASSUME HInv, NEW n \in Size, n > 0, NEW b \in Block, NEW rest,
         n + Header <= b.size, First <= b.addr, b.addr + b.size <= Capacity,
         \A c \in InUse(blocks) : b.addr + b.size <= c.addr \/ c.addr + c.size <= b.addr,
         Live' = rest \cup {Seen(b)},
         ret' = b.addr + Header
  PROVE  H!Obtain(Seen(b), n, rest) /\ Seen(b) \in Live' /\ Seen(b).size >= n
<1>1. /\ InUse(blocks) \subseteq Block /\ \A c \in InUse(blocks) : c.size >= Header
  BY InUseDisjoint DEF HInv
<1>2. /\ Header \in Nat /\ First \in Nat /\ Capacity \in Nat /\ n \in Nat
      /\ b.addr \in Nat /\ b.size \in Nat
  BY HeaderSize, FirstSize, SizeAssumption DEF Block
<1> HIDE DEF Header, First
<1>3. b.size >= Header
  BY <1>2
<1>4. \A s \in Live : H!Disjoint(Seen(b), s)
  BY <1>1, <1>3, LiveSeen, SeenDisjoint
<1>5. Seen(b).ptr = b.addr + Header /\ Seen(b).size = b.size - Header
  BY DEF Seen
<1>6. /\ Seen(b).size >= n
      /\ First <= Seen(b).ptr /\ Seen(b).ptr + Seen(b).size <= Capacity
  BY <1>2, <1>5
<1>7. H!Inside(Seen(b))
  BY <1>6 DEF H!Inside
<1> QED
  BY <1>4, <1>5, <1>6, <1>7 DEF H!Obtain

LEMMA AllocHeap ==
  ASSUME NoOverflow, HInv, NEW n \in Size, Alloc(n)
  PROVE  H!Alloc(n)
<1>1. CASE Fail
  BY <1>1 DEF Fail, H!Fail, H!Alloc, Live
<1>2. CASE /\ n > 0
           /\ \E i \in DOMAIN blocks :
                /\ FirstFit(blocks, i, TotalSize(n))
                /\ blocks' = Taken(blocks, i, TotalSize(n))
                /\ ret' = blocks[i].addr + Header
  <2>1. PICK i \in DOMAIN blocks : /\ FirstFit(blocks, i, TotalSize(n))
                                   /\ blocks' = Taken(blocks, i, TotalSize(n))
                                   /\ ret' = blocks[i].addr + Header
    BY <1>2
  <2>2. PICK b \in Block :
               /\ b.addr = blocks[i].addr /\ n + Header <= b.size
               /\ First <= b.addr /\ b.addr + b.size <= Capacity
               /\ \A c \in InUse(blocks) : b.addr + b.size <= c.addr \/ c.addr + c.size <= b.addr
               /\ InUse(blocks') = InUse(blocks) \cup {b}
    BY <1>2, <2>1, AllocEffect
  <2>3. Live' = Live \cup {Seen(b)}
    <3>1. Live' = {Seen(c) : c \in InUse(blocks')}
      BY DEF Live, Seen
    <3> QED
      BY <2>2, <3>1, LiveSeen
  <2>4. H!Obtain(Seen(b), n, Live) /\ Seen(b) \in Live'
    BY <1>2, <2>1, <2>2, <2>3, ObtainSeen
  <2> QED
    BY <2>4 DEF H!Alloc
<1> QED
  BY <1>1, <1>2 DEF Alloc

LEMMA FreeHeap ==
  ASSUME HInv, NEW p \in DOMAIN held, Free(p)
  PROVE  H!Free(Seen(BlockOf(p)))
<1>1. BlockOf(p) \in InUse(blocks) /\ BlockOf(p).addr = p - Header
  BY HeldBlock
<1>2. InUse(blocks') = {b \in InUse(blocks) : b.addr # p - Header}
  BY FreeEffect DEF HInv, Free
<1>3. Live' = {Seen(c) : c \in InUse(blocks')}
  BY DEF Live, Seen
<1>4. Live' = Live \ {Seen(BlockOf(p))}
  BY <1>1, <1>2, <1>3, SeenWithout
<1> QED
  BY <1>4 DEF H!Free, Free

LEMMA ReallocHeap ==
  ASSUME NoOverflow, HInv, NEW p \in DOMAIN held, NEW n \in Size, Realloc(p, n)
  PROVE  H!Realloc(Seen(BlockOf(p)), n)
<1> DEFINE old == BlockOf(p)
<1>1. old \in InUse(blocks) /\ old.addr = p - Header /\ old.addr + Header = p
  BY HeldBlock
<1>2. InUse(blocks) \subseteq Block /\ old.size >= Header
  BY <1>1, InUseDisjoint DEF HInv
<1>3. n \in Nat /\ Header \in Nat /\ old.size \in Nat /\ old.addr \in Nat
  BY <1>1, <1>2, HeaderSize, SizeAssumption DEF Block
<1>4. Seen(old).ptr = p /\ Seen(old).size = old.size - Header
  BY <1>1 DEF Seen
<1> HIDE DEF Header
<1>5. CASE n = 0 /\ Free(p)
  BY <1>5, FreeHeap DEF H!Realloc
<1> HIDE DEF old
<1>6. CASE n > 0 /\ n + Header <= old.size
           /\ ret' = p /\ held' = Holding(held, p, n) /\ UNCHANGED blocks
  <2>1. n \in 1 .. Seen(old).size
    BY <1>3, <1>4, <1>6
  <2>2. Live' = Live
    BY <1>6 DEF Live
  <2> QED
    BY <1>4, <1>6, <2>1, <2>2 DEF H!Realloc, old
<1>7. CASE n + Header > old.size /\ Fail
  <2>1. n > 0
    BY <1>2, <1>3, <1>7
  <2> QED
    BY <1>7, <2>1 DEF Fail, H!Fail, H!Realloc, Live
<1>8. CASE /\ n + Header > old.size
           /\ \E i \in DOMAIN blocks :
                /\ FirstFit(blocks, i, TotalSize(n))
                /\ blocks' = Coalesced(Freed(Taken(blocks, i, TotalSize(n)), p))
                /\ ret' = blocks[i].addr + Header
  <2>1. n > 0
    BY <1>2, <1>3, <1>8
  <2>2. PICK i \in DOMAIN blocks :
               /\ FirstFit(blocks, i, TotalSize(n))
               /\ blocks' = Coalesced(Freed(Taken(blocks, i, TotalSize(n)), p))
               /\ ret' = blocks[i].addr + Header
    BY <1>8
  <2> DEFINE nb == Taken(blocks, i, TotalSize(n))
             rest == {c \in InUse(blocks) : c.addr # old.addr}
  <2>3. Covers(nb)
    BY <2>1, <2>2, AllocEffect
  <2>4. PICK b \in Block :
               /\ b.addr = blocks[i].addr /\ n + Header <= b.size
               /\ First <= b.addr /\ b.addr + b.size <= Capacity
               /\ \A c \in InUse(blocks) :
                    /\ c.addr # b.addr
                    /\ b.addr + b.size <= c.addr \/ c.addr + c.size <= b.addr
               /\ InUse(nb) = InUse(blocks) \cup {b}
    BY <2>1, <2>2, AllocEffect
  <2> HIDE DEF nb
  <2>5. InUse(blocks') = {c \in InUse(nb) : c.addr # old.addr}
    BY <1>1, <2>2, <2>3, FreeEffect DEF nb
  <2>6. b.addr # old.addr
    BY <1>1, <2>4
  <2>7. InUse(blocks') = rest \cup {b}
    BY <2>4, <2>5, <2>6
  <2>8. {Seen(c) : c \in rest} = Live \ {Seen(old)}
    BY <1>1, SeenWithout
  <2>9. Live' = (Live \ {Seen(old)}) \cup {Seen(b)}
    <3>1. Live' = {Seen(c) : c \in InUse(blocks')}
      BY DEF Live, Seen
    <3> HIDE DEF rest
    <3> QED
      BY <2>7, <2>8, <3>1
  <2>10. H!Obtain(Seen(b), n, Live \ {Seen(old)}) /\ Seen(b) \in Live'
    BY <2>1, <2>2, <2>4, <2>9, ObtainSeen
  <2>11. Seen(b).size >= Seen(old).size
    <3>1. b.size \in Nat /\ Seen(b).size = b.size - Header
      BY DEF Block, Seen
    <3> QED
      BY <1>3, <1>4, <1>8, <2>4, <3>1
  <2> QED
    BY <2>10, <2>11 DEF H!Realloc, old
<1> QED
  BY <1>5, <1>6, <1>7, <1>8 DEF Realloc, old

\* What callers see is an allocator that hands out disjoint regions inside its
\* memory, keeps a region until its holder frees or resizes it, and moves one
\* only to where all that was in it fits.
THEOREM HeapImplemented == ASSUME NoOverflow PROVE Spec => ImplementsHeap
<1>1. Init => H!Init
  <2> SUFFICES ASSUME Init PROVE H!Init
    OBVIOUS
  <2>1. HInv
    BY InitHInv
  <2>2. DOMAIN held = {} /\ ret = Null
    BY DEF Init
  <2>3. InUse(blocks) = {}
    BY <2>1, <2>2 DEF HInv, HeldMatches
  <2> QED
    BY <2>2, <2>3, LiveSeen DEF H!Init
<1>2. HInv /\ [Next]_vars => [H!Next]_(H!vars)
  <2> SUFFICES ASSUME HInv, [Next]_vars PROVE [H!Next]_(H!vars)
    OBVIOUS
  <2>1. \A p \in DOMAIN held : Seen(BlockOf(p)) \in Live
    BY HeldBlock, LiveSeen
  <2>2. CASE \E n \in Size : Alloc(n)
    BY <2>2, AllocHeap DEF H!Next
  <2>3. CASE \E p \in DOMAIN held : Free(p)
    BY <2>1, <2>3, FreeHeap DEF H!Next
  <2>4. CASE \E p \in DOMAIN held, n \in Size : Realloc(p, n)
    BY <2>1, <2>4, ReallocHeap DEF H!Next
  <2>5. CASE UNCHANGED vars
    BY <2>5 DEF vars, Live, H!vars
  <2> QED
    BY <2>2, <2>3, <2>4, <2>5 DEF Next
<1> QED
  BY <1>1, <1>2, HeapInvariant, PTL DEF Spec, ImplementsHeap, H!Spec
=============================================================================
