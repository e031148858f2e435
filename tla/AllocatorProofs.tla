---------------------------- MODULE AllocatorProofs ----------------------------
(***************************************************************************)
(* Proofs about the allocators of MCAllocators, for every number of pages,        *)
(* descriptors and callers, every width of a word and every set of sizes.          *)
(***************************************************************************)
EXTENDS MCAllocators, RankingProofs

-----------------------------------------------------------------------------
(* Numbers *)

LEMMA Division ==
  ASSUME NEW a \in Nat, NEW b \in Nat \ {0}
  PROVE  a \div b \in Nat /\ a % b \in 0 .. b - 1 /\ a = b * (a \div b) + (a % b)
  OBVIOUS

\* What is below the modulus does not wrap.
LEMMA NoWrap ==
  ASSUME NEW a \in Nat, NEW b \in Nat \ {0}, a < b
  PROVE  a % b = a
<1> DEFINE q == a \div b
<1>1. q \in Nat /\ a % b \in Nat /\ a = b * q + (a % b)
  BY Division
<1>2. q = 0
  <2> HIDE DEF q
  <2>1. q >= 1 => b * q >= b
    BY <1>1
  <2>. QED BY <1>1, <2>1
<1>. QED BY <1>1, <1>2

-----------------------------------------------------------------------------
(* The arena *)

LEMMA ArenaTypes ==
  /\ Word \in Nat /\ Align \in 1 .. Word - 1 /\ Word > 0
  /\ StateSize \in 1 .. Word - 1 /\ Capacity \in 1 .. Word - Align
  /\ Base \subseteq 0 .. Word - Capacity - Align /\ ArenaBytes \subseteq 0 .. Word - 1
  BY AllocatorAssumption DEF Arena!ArenaAssumption

\* An offset is aligned upwards, without a wrap.
LEMMA AlignedUp ==
  ASSUME NEW o \in Nat, o + Align <= Word
  PROVE  Arena!Aligned(o) \in o .. o + Align - 1
<1> DEFINE a == o + Align - 1
           q == a \div Align
<1>1. a \in Nat /\ a < Word /\ Word \in Nat \ {0} /\ Align \in Nat \ {0}
  BY ArenaTypes
<1>2. a % Word = a
  BY <1>1, NoWrap
<1>3. Arena!Aligned(o) = q * Align
  BY <1>2 DEF Arena!Aligned
<1>4. q \in Nat /\ a % Align \in 0 .. Align - 1 /\ a = Align * q + (a % Align)
  BY <1>1, Division
<1>5. q * Align = Align * q /\ Align * q \in Nat
  BY <1>1, <1>4
<1> HIDE DEF q
<1>. QED BY <1>1, <1>3, <1>4, <1>5

\* A request that is not refused ends inside the buffer.
LEMMA Granted ==
  ASSUME NEW o \in Nat, NEW n \in 0 .. Word - 1, ~Arena!Invalid(Capacity, o, n)
  PROVE  o + n <= Capacity
<1>1. o + n < Word /\ o + n \in Nat /\ Word \in Nat \ {0}
  BY ArenaTypes DEF Arena!Invalid
<1>2. (o + n) % Word = o + n
  BY <1>1, NoWrap
<1>. QED BY <1>1, <1>2, ArenaTypes DEF Arena!Invalid

\* Where the arena's own state ends.
FirstByte == Arena!Aligned(base) - base + StateSize

\* The blocks lie between the arena's own state and the offset, and one below the other
\* until one was grown over the next.
ArenaInv ==
  /\ base \in Base /\ headerSize \in 0 .. Capacity /\ offset \in headerSize .. Capacity
  /\ ready \in BOOLEAN /\ grownOver \in BOOLEAN
  /\ IF ready THEN headerSize = FirstByte ELSE DOMAIN held = {}
  /\ \A b \in DOMAIN held : /\ b \in Nat /\ held[b] \in Nat \ {0}
                            /\ b + held[b] <= offset /\ FirstByte <= b
  /\ ~grownOver => \A b, c \in DOMAIN held :
       b # c => b + held[b] <= c \/ c + held[c] <= b

\* A block that lies below the offset; the bytes of two blocks, one below the other.
LEMMA BytesBelow ==
  ASSUME NEW b \in Nat, NEW n \in Nat, n > 0, NEW m \in Nat
  PROVE  Arena!Bytes(b, n) \subseteq 0 .. m - 1 <=> b + n <= m
<1>1. ASSUME Arena!Bytes(b, n) \subseteq 0 .. m - 1 PROVE b + n <= m
  <2>1. b + n - 1 \in Arena!Bytes(b, n)
    BY DEF Arena!Bytes
  <2>. QED BY <1>1, <2>1
<1>2. ASSUME b + n <= m PROVE Arena!Bytes(b, n) \subseteq 0 .. m - 1
  BY <1>2 DEF Arena!Bytes
<1>. QED BY <1>1, <1>2

LEMMA BytesApart ==
  ASSUME NEW b \in Nat, NEW n \in Nat, n > 0, NEW c \in Nat, NEW m \in Nat, m > 0
  PROVE  Arena!Bytes(b, n) \cap Arena!Bytes(c, m) = {} <=> b + n <= c \/ c + m <= b
<1>1. ASSUME b + n <= c \/ c + m <= b PROVE Arena!Bytes(b, n) \cap Arena!Bytes(c, m) = {}
  BY <1>1 DEF Arena!Bytes
<1>2. ASSUME ~(b + n <= c \/ c + m <= b) PROVE Arena!Bytes(b, n) \cap Arena!Bytes(c, m) # {}
  <2>1. CASE b <= c
    <3>1. c \in Arena!Bytes(b, n) /\ c \in Arena!Bytes(c, m)
      BY <1>2, <2>1 DEF Arena!Bytes
    <3>. QED BY <3>1
  <2>2. CASE c <= b
    <3>1. b \in Arena!Bytes(b, n) /\ b \in Arena!Bytes(c, m)
      BY <1>2, <2>2 DEF Arena!Bytes
    <3>. QED BY <3>1
  <2>. QED BY <2>1, <2>2
<1>. QED BY <1>1, <1>2

LEMMA ArenaHolds == ArenaInv => Arena!TypeOK /\ Arena!HeldInside /\ Arena!HeldApart
<1> SUFFICES ASSUME ArenaInv PROVE Arena!TypeOK /\ Arena!HeldInside /\ Arena!HeldApart
  OBVIOUS
<1>1. headerSize \in Nat /\ offset \in Nat /\ offset <= Capacity /\ Capacity \in Nat
  BY ArenaTypes DEF ArenaInv
<1>2. DOMAIN held \subseteq 0 .. Capacity
  BY <1>1 DEF ArenaInv
<1>3. Arena!TypeOK
  BY <1>2 DEF ArenaInv, Arena!TypeOK
<1>4. Arena!HeldInside
  <2>1. ASSUME NEW b \in DOMAIN held
        PROVE  held[b] > 0 /\ Arena!Bytes(b, held[b]) \subseteq 0 .. offset - 1 /\ b >= FirstByte
    <3>1. b \in Nat /\ held[b] \in Nat /\ held[b] > 0 /\ b + held[b] <= offset /\ FirstByte <= b
      BY <2>1 DEF ArenaInv
    <3>2. FirstByte \in Int
      BY AlignedUp, ArenaTypes DEF FirstByte, ArenaInv
    <3>3. Arena!Bytes(b, held[b]) \subseteq 0 .. offset - 1
      BY <1>1, <3>1, BytesBelow
    <3>. QED BY <3>1, <3>2, <3>3
  <2>. QED BY <2>1 DEF Arena!HeldInside, FirstByte
<1>5. Arena!HeldApart
  <2>1. ASSUME ~grownOver, NEW b \in DOMAIN held, NEW c \in DOMAIN held, b # c
        PROVE  Arena!Bytes(b, held[b]) \cap Arena!Bytes(c, held[c]) = {}
    <3>1. /\ b \in Nat /\ held[b] \in Nat /\ held[b] > 0
          /\ c \in Nat /\ held[c] \in Nat /\ held[c] > 0
          /\ b + held[b] <= c \/ c + held[c] <= b
      BY <2>1 DEF ArenaInv
    <3>. QED BY <3>1, BytesApart
  <2>. QED BY <2>1 DEF Arena!HeldApart
<1>. QED BY <1>3, <1>4, <1>5

LEMMA ArenaStarts == Arena!Init => ArenaInv
<1> SUFFICES ASSUME Arena!Init PROVE ArenaInv
  OBVIOUS
<1>1. DOMAIN held = {}
  BY DEF Arena!Init, Arena!Empty
<1>2. base \in Base /\ headerSize = 0 /\ offset = 0 /\ ready = FALSE /\ grownOver = FALSE
  BY DEF Arena!Init
<1>3. 0 \in 0 .. Capacity
  BY ArenaTypes
<1>. QED BY <1>1, <1>2, <1>3 DEF ArenaInv

\* The numbers that a step computes with.
LEMMA ArenaNumbers ==
  ASSUME ArenaInv
  PROVE  /\ base \in Nat /\ base + Align <= Word /\ FirstByte \in Nat
         /\ offset \in Nat /\ offset <= Capacity /\ headerSize \in Nat
         /\ Arena!Aligned(offset) \in Nat /\ Arena!Aligned(offset) >= offset
         /\ Arena!Aligned(offset) < Word
         /\ \A b \in DOMAIN held :
              Arena!Aligned(b) \in Nat /\ Arena!Aligned(b) >= b /\ b <= offset
<1>1. base \in Nat /\ base + Align <= Word
  BY ArenaTypes DEF ArenaInv
<1>2. FirstByte \in Nat
  BY <1>1, AlignedUp, ArenaTypes DEF FirstByte
<1>3. headerSize \in Nat /\ offset \in Nat /\ offset <= Capacity /\ offset + Align <= Word
  BY ArenaTypes DEF ArenaInv
<1>4. Arena!Aligned(offset) \in Nat /\ Arena!Aligned(offset) >= offset
      /\ Arena!Aligned(offset) < Word
  BY <1>3, AlignedUp, ArenaTypes
<1>5. ASSUME NEW b \in DOMAIN held
      PROVE  Arena!Aligned(b) \in Nat /\ Arena!Aligned(b) >= b /\ b <= offset
  <2>1. b \in Nat /\ b <= offset
    BY <1>3 DEF ArenaInv
  <2>2. b + Align <= Word
    BY <1>3, <2>1, ArenaTypes
  <2>3. Arena!Aligned(b) \in b .. b + Align - 1
    BY <2>1, <2>2, AlignedUp
  <2>. QED BY <2>1, <2>3, ArenaTypes
<1>. QED BY <1>1, <1>2, <1>3, <1>4, <1>5

LEMMA ArenaMake == ArenaInv /\ Arena!Make => ArenaInv'
<1> SUFFICES ASSUME ArenaInv, Arena!Make PROVE ArenaInv'
  OBVIOUS
<1> DEFINE a == Arena!Aligned(base) - base
<1>1. base \in Nat /\ base + Align <= Word
  BY ArenaNumbers
<1>2. a \in Nat
  BY <1>1, AlignedUp, ArenaTypes
<1>3. ~Arena!Invalid(Capacity, a, StateSize) /\ StateSize \in 0 .. Word - 1
  BY ArenaTypes DEF Arena!Make
<1> HIDE DEF a
<1>4. a + StateSize <= Capacity
  BY <1>2, <1>3, Granted
<1>5. headerSize' = a + StateSize /\ FirstByte' = a + StateSize
  BY DEF Arena!Make, FirstByte, a, Arena!Aligned
<1>6. headerSize' \in 0 .. Capacity /\ offset' = headerSize'
  BY <1>2, <1>4, <1>5, ArenaTypes DEF Arena!Make
<1>7. DOMAIN held = {} /\ held' = held /\ base' = base /\ ready' = TRUE
      /\ grownOver' = grownOver
  BY DEF Arena!Make, ArenaInv
<1>. QED BY <1>5, <1>6, <1>7 DEF ArenaInv

\* A block that is placed starts at or behind the offset, so behind every other.
LEMMA ArenaPlace ==
  ASSUME ArenaInv, ready, NEW n \in 0 .. Word - 1, NEW old, Arena!Place(old, n),
         DOMAIN old \subseteq DOMAIN held, \A b \in DOMAIN old : old[b] = held[b]
  PROVE  ArenaInv'
<1> DEFINE a == Arena!Aligned(offset)
<1>1. a \in Nat /\ a >= offset /\ offset \in Nat /\ FirstByte \in Nat
  BY ArenaNumbers
<1>2. n # 0 /\ a + n <= Capacity /\ n \in Nat
  BY <1>1, Granted, ArenaTypes DEF Arena!Place
<1>3. offset' = a + n /\ held' = Arena!With(old, a, n)
      /\ base' = base /\ ready' = ready /\ headerSize' = headerSize /\ grownOver' = grownOver
  BY DEF Arena!Place
<1>4. headerSize = FirstByte /\ FirstByte <= offset /\ FirstByte' = FirstByte
  BY <1>1, <1>3 DEF ArenaInv, FirstByte, Arena!Aligned
<1> HIDE DEF a
<1>5. DOMAIN held' = DOMAIN old \cup {a} /\ held'[a] = n
      /\ \A b \in DOMAIN old \ {a} : held'[b] = old[b]
  BY <1>3 DEF Arena!With
<1>6. \A b \in DOMAIN old : b \in Nat /\ old[b] \in Nat \ {0}
                           /\ b + old[b] <= offset /\ FirstByte <= b
  BY DEF ArenaInv
<1>7. \A b \in DOMAIN held' : /\ b \in Nat /\ held'[b] \in Nat \ {0}
                              /\ b + held'[b] <= offset' /\ FirstByte' <= b
  BY <1>1, <1>2, <1>3, <1>4, <1>5, <1>6
<1>8. ~grownOver => \A b, c \in DOMAIN held' :
       b # c => b + held'[b] <= c \/ c + held'[c] <= b
  <2>1. \A b \in DOMAIN old : b # a /\ b + held'[b] <= a
    BY <1>1, <1>5, <1>6
  <2>2. \A b, c \in DOMAIN old : ~grownOver /\ b # c => b + old[b] <= c \/ c + old[c] <= b
    BY DEF ArenaInv
  <2>. QED BY <1>5, <2>1, <2>2
<1>9. headerSize' \in 0 .. Capacity /\ offset' \in headerSize' .. Capacity
  BY <1>1, <1>2, <1>3, <1>4, ArenaTypes DEF ArenaInv
<1>. QED BY <1>3, <1>4, <1>7, <1>8, <1>9 DEF ArenaInv

\* A block that is grown where it stands keeps the offset from falling, though the address
\* that the code compares may have wrapped: then the request is refused.
LEMMA ArenaInPlace ==
  ASSUME ArenaInv, ready, NEW b \in DOMAIN held, NEW n \in 0 .. Word - 1, n # 0,
         Arena!AtEnd(b, n), Arena!InPlace(b, n)
  PROVE  ArenaInv'
<1> DEFINE a == Arena!Aligned(offset)
           e == Arena!Aligned(b)
<1>1. /\ a \in Nat /\ a >= offset /\ a < Word /\ offset \in Nat /\ FirstByte \in Nat
      /\ e \in Nat /\ e >= b /\ b <= offset
  BY ArenaNumbers
<1>2. e + n <= Capacity /\ n \in Nat /\ n > 0
  BY <1>1, Granted, ArenaTypes DEF Arena!InPlace
<1>3. offset' = e + n /\ held' = Arena!With(held, b, n)
      /\ base' = base /\ ready' = ready /\ headerSize' = headerSize
      /\ grownOver' = (grownOver \/ \E c \in DOMAIN held : c > b)
  BY DEF Arena!InPlace
<1>4. headerSize = FirstByte /\ FirstByte' = FirstByte
  BY <1>3 DEF ArenaInv, FirstByte, Arena!Aligned
<1>5. b = (a - n) % Word
  BY DEF Arena!AtEnd
<1> HIDE DEF a, e
<1>6. b \in Nat
  BY DEF ArenaInv
<1>7. e + n >= a
  <2>1. CASE a >= n
    <3>1. (a - n) % Word = a - n
      BY <1>1, <1>2, <2>1, NoWrap, ArenaTypes
    <3>. QED BY <1>1, <1>2, <1>5, <3>1
  <2>2. CASE a < n
    <3>. QED BY <1>1, <1>2, <2>2
  <2>. QED BY <1>1, <1>2, <2>1, <2>2
<1>8. DOMAIN held' = DOMAIN held /\ held'[b] = n
      /\ \A c \in DOMAIN held : c # b => held'[c] = held[c]
  BY <1>3 DEF Arena!With
<1>9. \A c \in DOMAIN held : /\ c \in Nat /\ held[c] \in Nat \ {0}
                             /\ c + held[c] <= offset /\ FirstByte <= c
  BY DEF ArenaInv
<1>10. \A c \in DOMAIN held' : /\ c \in Nat /\ held'[c] \in Nat \ {0}
                               /\ c + held'[c] <= offset' /\ FirstByte' <= c
  BY <1>1, <1>2, <1>3, <1>4, <1>6, <1>7, <1>8, <1>9
<1>11. ASSUME ~grownOver' PROVE \A c, d \in DOMAIN held' :
       c # d => c + held'[c] <= d \/ d + held'[d] <= c
  <2>1. ~grownOver /\ \A c \in DOMAIN held : c <= b
    <3>1. ~grownOver /\ \A c \in DOMAIN held : ~(c > b)
      BY <1>3, <1>11
    <3>. QED BY <1>6, <1>9, <3>1
  <2>2. \A c, d \in DOMAIN held : c # d => c + held[c] <= d \/ d + held[d] <= c
    BY <2>1 DEF ArenaInv
  <2>3. \A c \in DOMAIN held : c # b => c + held[c] <= b
    BY <1>6, <1>9, <2>1, <2>2
  <2>. QED BY <1>8, <2>2, <2>3
<1>12. headerSize' \in 0 .. Capacity /\ offset' \in headerSize' .. Capacity
  BY <1>1, <1>2, <1>3, <1>4, <1>7, ArenaTypes DEF ArenaInv
<1>13. grownOver' \in BOOLEAN
  BY <1>3 DEF ArenaInv
<1>. QED BY <1>3, <1>4, <1>10, <1>11, <1>12, <1>13 DEF ArenaInv

LEMMA ArenaRealloc ==
  ASSUME ArenaInv, NEW b \in DOMAIN held, NEW n \in 0 .. Word - 1, Arena!Realloc(b, n)
  PROVE  ArenaInv'
<1>1. ready
  BY DEF ArenaInv
<1>2. CASE Arena!AtEnd(b, n) /\ Arena!InPlace(b, n)
  BY <1>1, <1>2, ArenaInPlace DEF Arena!Realloc
<1>3. CASE Arena!Place(Arena!Without(held, b), n)
  <2> DEFINE old == Arena!Without(held, b)
  <2>1. DOMAIN old \subseteq DOMAIN held /\ \A c \in DOMAIN old : old[c] = held[c]
    BY DEF Arena!Without
  <2> HIDE DEF old
  <2>2. Arena!Place(old, n)
    BY <1>3 DEF old
  <2>. QED BY <1>1, <2>1, <2>2, ArenaPlace
<1>. QED BY <1>2, <1>3 DEF Arena!Realloc

\* Blocks that go leave the others where they are.
LEMMA ArenaLetGo ==
  ASSUME ArenaInv, DOMAIN held' \subseteq DOMAIN held, \A c \in DOMAIN held' : held'[c] = held[c],
         offset' = offset \/ (ready /\ offset' = headerSize /\ DOMAIN held' = {}),
         UNCHANGED <<base, ready, headerSize, grownOver>>
  PROVE  ArenaInv'
<1>1. FirstByte' = FirstByte
  BY DEF FirstByte, Arena!Aligned
<1>2. headerSize \in 0 .. Capacity /\ headerSize \in Nat /\ offset' \in headerSize .. Capacity
  BY ArenaTypes DEF ArenaInv
<1>3. \A b \in DOMAIN held' : /\ b \in Nat /\ held'[b] \in Nat \ {0}
                              /\ b + held'[b] <= offset' /\ FirstByte <= b
  BY DEF ArenaInv
<1>4. ~grownOver => \A b, c \in DOMAIN held' :
       b # c => b + held'[b] <= c \/ c + held'[c] <= b
  BY DEF ArenaInv
<1>5. ~ready => DOMAIN held' = {}
  BY DEF ArenaInv
<1>. QED BY <1>1, <1>2, <1>3, <1>4, <1>5 DEF ArenaInv

LEMMA ArenaKeeps == ArenaInv /\ [Arena!Next]_arenaVars => ArenaInv'
<1> SUFFICES ASSUME ArenaInv, [Arena!Next]_arenaVars PROVE ArenaInv'
  OBVIOUS
<1>1. CASE Arena!Make
  BY <1>1, ArenaMake
<1>2. ASSUME NEW n \in ArenaBytes, Arena!Alloc(n) PROVE ArenaInv'
  BY <1>2, ArenaPlace, ArenaTypes DEF Arena!Alloc
<1>3. ASSUME NEW b \in DOMAIN held, NEW n \in ArenaBytes, Arena!Realloc(b, n) PROVE ArenaInv'
  BY <1>3, ArenaRealloc, ArenaTypes
<1>4. ASSUME NEW b \in DOMAIN held, Arena!Free(b) PROVE ArenaInv'
  <2>1. DOMAIN held' \subseteq DOMAIN held /\ \A c \in DOMAIN held' : held'[c] = held[c]
    BY <1>4 DEF Arena!Free, Arena!Without
  <2>. QED BY <1>4, <2>1, ArenaLetGo DEF Arena!Free
<1>5. CASE Arena!Clear
  <2>1. DOMAIN held' = {}
    BY <1>5 DEF Arena!Clear, Arena!Empty
  <2>2. ready /\ offset' = headerSize /\ UNCHANGED <<base, ready, headerSize, grownOver>>
    BY <1>5 DEF Arena!Clear
  <2>. QED BY <2>1, <2>2, ArenaLetGo
<1>6. CASE UNCHANGED arenaVars
  BY <1>6, ArenaLetGo DEF arenaVars
<1>7. CASE Arena!Refuse
  BY <1>7, ArenaLetGo DEF Arena!Refuse, Arena!vars
<1>. QED BY <1>1, <1>2, <1>3, <1>4, <1>5, <1>6, <1>7 DEF Arena!Next

-----------------------------------------------------------------------------
(* The debug allocator *)

Block(p, n) == {p} \X (1 .. n)

LEMMA BlockSize ==
  ASSUME NEW p, NEW n \in Nat
  PROVE  IsFiniteSet(Block(p, n)) /\ Cardinality(Block(p, n)) = n
<1>1. IsFiniteSet(1 .. n) /\ Cardinality(1 .. n) = n
  BY IndicesFinite
<1>2. IsFiniteSet({p}) /\ Cardinality({p}) = 1
  BY FS_Singleton
<1>3. IsFiniteSet({p} \X (1 .. n)) /\ Cardinality({p} \X (1 .. n)) = 1 * n
  BY <1>1, <1>2, FS_Product
<1>. QED BY <1>3 DEF Block

\* Parts of a finite set that share nothing are together no larger than it, and what two
\* sets cover no larger than both.
LEMMA PartsFit ==
  ASSUME NEW C, IsFiniteSet(C), NEW D \in SUBSET C, NEW B \in SUBSET C, D \cap B = {}
  PROVE  Cardinality(D) + Cardinality(B) <= Cardinality(C)
<1>1. IsFiniteSet(D) /\ IsFiniteSet(B)
  BY FS_Subset
<1>2. IsFiniteSet(D \cup B)
      /\ Cardinality(D \cup B) = Cardinality(D) + Cardinality(B) - Cardinality(D \cap B)
  BY <1>1, FS_Union
<1>3. Cardinality(D \cap B) = 0
  BY FS_EmptySet
<1>4. Cardinality(D \cup B) <= Cardinality(C)
  BY FS_Subset
<1>5. Cardinality(D) \in Nat /\ Cardinality(B) \in Nat
  BY <1>1, FS_CardinalityType
<1>. QED BY <1>2, <1>3, <1>4, <1>5

LEMMA CoverFits ==
  ASSUME NEW D, IsFiniteSet(D), NEW B, IsFiniteSet(B), NEW C \in SUBSET (D \cup B)
  PROVE  IsFiniteSet(C) /\ Cardinality(C) <= Cardinality(D) + Cardinality(B)
<1>1. IsFiniteSet(D \cup B)
      /\ Cardinality(D \cup B) = Cardinality(D) + Cardinality(B) - Cardinality(D \cap B)
  BY FS_Union
<1>2. IsFiniteSet(D \cap B)
  BY FS_Subset
<1>3. Cardinality(D) \in Nat /\ Cardinality(B) \in Nat /\ Cardinality(D \cap B) \in Nat
  BY <1>2, FS_CardinalityType
<1>4. IsFiniteSet(C) /\ Cardinality(C) <= Cardinality(D \cup B)
  BY <1>1, FS_Subset
<1>5. Cardinality(C) \in Nat /\ Cardinality(D \cup B) \in Nat
  BY <1>1, <1>4, FS_CardinalityType
<1>. QED BY <1>1, <1>3, <1>4, <1>5

\* The instance's own Cardinality is the one that the facts about sets speak of.
LEMMA TotalIs == \A f : Debug!Total(f) = Cardinality(Debug!Bytes(f))
  BY DEF Debug!Total, Debug!Cardinality, Cardinality

LEMMA BlocksIs == \A S : Debug!Cardinality(S) = Cardinality(S)
  BY DEF Debug!Cardinality, Cardinality

\* The bytes of the other blocks, of one block, and after a block was entered.
Others(S, p) == {c \in S : c[1] # p}

LEMMA BytesOf ==
  ASSUME NEW f, NEW p
  PROVE  /\ Debug!Bytes(Debug!Without(f, p)) = Others(Debug!Bytes(f), p)
         /\ p \in DOMAIN f => Block(p, f[p]) \subseteq Debug!Bytes(f)
         /\ p \in DOMAIN f =>
              Debug!Bytes(f) = Others(Debug!Bytes(f), p) \cup Block(p, f[p])
         /\ p \notin DOMAIN f => Others(Debug!Bytes(f), p) = Debug!Bytes(f)
  BY DEF Debug!Bytes, Debug!Without, Others, Block

LEMMA BytesWith ==
  ASSUME NEW f, NEW p, NEW n
  PROVE  Debug!Bytes(Debug!With(f, p, n)) = Others(Debug!Bytes(f), p) \cup Block(p, n)
<1> DEFINE g == Debug!With(f, p, n)
<1>1. DOMAIN g = DOMAIN f \cup {p} /\ g[p] = n /\ \A q \in DOMAIN f : q # p => g[q] = f[q]
  BY DEF Debug!With
<1> HIDE DEF g
<1>2. \A c : c \in Debug!Bytes(g) <=> c \in Others(Debug!Bytes(f), p) \cup Block(p, n)
  BY <1>1 DEF Debug!Bytes, Others, Block
<1>. QED BY <1>2 DEF g

LEMMA DebugTypes == DebugBytes \subseteq Nat /\ Null \notin Ptr
  BY AllocatorAssumption DEF Debug!DebugAssumption

\* The bytes that callers hold and those that the map says they hold.  They are counted as one
\* set: an entry that is out of date counts beside the block only where it is larger.
Cover == Debug!Bytes(live) \cup Debug!Bytes(ptrAllocMap)

\* A block that was reallocated is counted twice.
Counted ==
  /\ activeAllocs <= Cardinality(DOMAIN live) + surplus
  /\ ~nullFreed => activeAllocs = Cardinality(DOMAIN live) + surplus

DebugInv ==
  /\ DOMAIN live \subseteq Ptr /\ IsFiniteSet(DOMAIN live)
  /\ DOMAIN ptrAllocMap \subseteq Ptr
  /\ \A p \in DOMAIN ptrAllocMap : ptrAllocMap[p] \in Nat
  /\ activeBytes \in Nat /\ activeAllocs \in Nat
  /\ missed \in BOOLEAN /\ nullFreed \in BOOLEAN
  /\ IsFiniteSet(Cover) /\ activeBytes >= Cardinality(Cover)
  /\ ~missed => ptrAllocMap = live /\ activeBytes = Debug!Total(live)
  /\ surplus \in Nat /\ Counted

LEMMA DebugHolds ==
  DebugInv => /\ Debug!TypeOK /\ Debug!BytesCoverEntries
              /\ Debug!BytesExact /\ Debug!CountsCoverHeld
<1> SUFFICES ASSUME DebugInv
             PROVE  /\ Debug!TypeOK /\ Debug!BytesCoverEntries
                    /\ Debug!BytesExact /\ Debug!CountsCoverHeld
  OBVIOUS
<1>1. Debug!TypeOK
  BY DEF DebugInv, Debug!TypeOK
<1>2. IsFiniteSet(Cover) /\ activeBytes \in Nat /\ activeBytes >= Cardinality(Cover)
  BY DEF DebugInv
<1>3. ASSUME NEW S \in SUBSET Cover PROVE activeBytes >= Cardinality(S)
  <2>1. IsFiniteSet(S) /\ Cardinality(S) <= Cardinality(Cover)
    BY <1>2, FS_Subset
  <2>2. Cardinality(S) \in Nat /\ Cardinality(Cover) \in Nat
    BY <1>2, <2>1, FS_CardinalityType
  <2>. QED BY <1>2, <2>1, <2>2
<1>4. activeBytes >= Debug!Total(live) /\ activeBytes >= Debug!Total(ptrAllocMap)
  <2>1. Debug!Bytes(live) \in SUBSET Cover /\ Debug!Bytes(ptrAllocMap) \in SUBSET Cover
    BY DEF Cover
  <2>. QED BY <1>3, <2>1, TotalIs
<1>5. ~missed => ptrAllocMap = live /\ activeBytes = Debug!Total(live)
  BY DEF DebugInv
<1>6. Debug!BytesExact
  BY <1>5, Zenon DEF Debug!BytesExact
<1>7. Counted
  BY DEF DebugInv
<1>8. Debug!CountsCoverHeld
  BY <1>4, <1>7, BlocksIs, Zenon DEF Debug!CountsCoverHeld, Counted
<1>9. Debug!BytesCoverEntries
  BY <1>4 DEF Debug!BytesCoverEntries
<1>. QED BY <1>1, <1>6, <1>8, <1>9

LEMMA DebugStarts == Debug!Init => DebugInv
<1> SUFFICES ASSUME Debug!Init PROVE DebugInv
  OBVIOUS
<1>1. DOMAIN live = {} /\ ptrAllocMap = live
  BY DEF Debug!Init
<1>2. Debug!Bytes(live) = {} /\ Cover = {}
  BY <1>1 DEF Debug!Bytes, Cover
<1>3. IsFiniteSet({}) /\ Cardinality({}) = 0
  BY FS_EmptySet
<1>4. /\ activeBytes = 0 /\ activeAllocs = 0 /\ missed = FALSE /\ nullFreed = FALSE
      /\ Debug!Total(live) = 0 /\ surplus = 0
  BY <1>2, <1>3, TotalIs DEF Debug!Init
<1>5. /\ IsFiniteSet(DOMAIN live) /\ Cardinality(DOMAIN live) = 0
      /\ IsFiniteSet(Cover) /\ Cardinality(Cover) = 0
  BY <1>1, <1>2, <1>3
<1>6. DOMAIN live \subseteq Ptr /\ DOMAIN ptrAllocMap = {}
  BY <1>1
<1>7. activeBytes \in Nat /\ activeAllocs \in Nat /\ activeBytes >= Cardinality(Cover)
      /\ surplus \in Nat /\ Counted /\ activeBytes = Debug!Total(live)
  BY <1>4, <1>5 DEF Counted
<1>8. missed \in BOOLEAN /\ nullFreed \in BOOLEAN
  BY <1>4
<1>9. \A p \in DOMAIN ptrAllocMap : ptrAllocMap[p] \in Nat
  BY <1>6
<1> HIDE DEF Cover
<1>. QED BY <1>1, <1>5, <1>6, <1>7, <1>8, <1>9, Zenon DEF DebugInv

\* A block goes: what remains fits into the bytes that are left.
LEMMA CoverLess ==
  ASSUME DebugInv, NEW p
  PROVE  /\ IsFiniteSet(Others(Cover, p))
         /\ Debug!Known(p) \in Nat /\ activeBytes \in Nat
         /\ Cardinality(Others(Cover, p)) \in Nat
         /\ Cardinality(Others(Cover, p)) + Debug!Known(p) <= activeBytes
         /\ ~missed => Cardinality(Others(Cover, p)) + Debug!Known(p) = activeBytes
<1> DEFINE n == Debug!Known(p)
           D == Others(Cover, p)
           B == IF p \in DOMAIN ptrAllocMap THEN Block(p, ptrAllocMap[p]) ELSE {}
<1>1. IsFiniteSet(Cover) /\ activeBytes \in Nat /\ activeBytes >= Cardinality(Cover)
  BY DEF DebugInv
<1>2. n \in Nat /\ IsFiniteSet(B) /\ Cardinality(B) = n
  <2>1. CASE p \in DOMAIN ptrAllocMap
    <3>1. n = ptrAllocMap[p] /\ n \in Nat
      BY <2>1 DEF Debug!Known, DebugInv
    <3>. QED BY <2>1, <3>1, BlockSize
  <2>2. CASE p \notin DOMAIN ptrAllocMap
    BY <2>2, FS_EmptySet DEF Debug!Known
  <2>. QED BY <2>1, <2>2
<1>3. B \in SUBSET Cover
  BY BytesOf DEF Cover
<1>4. D \in SUBSET Cover /\ D \cap B = {}
  BY DEF Others, Block
<1>5. ~missed => Cover \subseteq D \cup B
  <2> SUFFICES ASSUME ~missed PROVE Cover \subseteq D \cup B
    OBVIOUS
  <2>1. Cover = Debug!Bytes(ptrAllocMap)
    BY DEF DebugInv, Cover
  <2>. QED BY <2>1, BytesOf
<1>6. ~missed => activeBytes = Cardinality(Cover)
  <2> SUFFICES ASSUME ~missed PROVE activeBytes = Cardinality(Cover)
    OBVIOUS
  <2>1. ptrAllocMap = live /\ activeBytes = Debug!Total(live)
    BY DEF DebugInv
  <2>2. Cover = Debug!Bytes(live)
    BY <2>1 DEF Cover
  <2>. QED BY <2>1, <2>2, TotalIs
<1> HIDE DEF n, D, B
<1>7. Cardinality(D) + Cardinality(B) <= Cardinality(Cover)
  BY <1>1, <1>3, <1>4, PartsFit
<1>8. IsFiniteSet(D)
  BY <1>1, <1>4, FS_Subset
<1>9. Cardinality(D) \in Nat /\ Cardinality(Cover) \in Nat
  BY <1>1, <1>8, FS_CardinalityType
<1>10. ~missed => Cardinality(Cover) <= Cardinality(D) + Cardinality(B)
  BY <1>2, <1>5, <1>8, CoverFits
<1>11. /\ IsFiniteSet(D) /\ n \in Nat /\ activeBytes \in Nat /\ Cardinality(D) \in Nat
       /\ Cardinality(D) + n <= activeBytes /\ (~missed => Cardinality(D) + n = activeBytes)
  BY <1>1, <1>2, <1>6, <1>7, <1>8, <1>9, <1>10
<1>. QED BY <1>11 DEF n, D

\* A block of n bytes comes where none was.
LEMMA LiveWith ==
  ASSUME NEW f, NEW p, IsFiniteSet(DOMAIN f), NEW n
  PROVE  /\ DOMAIN Debug!With(f, p, n) = DOMAIN f \cup {p}
         /\ IsFiniteSet(DOMAIN Debug!With(f, p, n))
         /\ Cardinality(DOMAIN Debug!With(f, p, n)) \in Nat
         /\ Cardinality(DOMAIN f) \in Nat
         /\ Cardinality(DOMAIN Debug!With(f, p, n)) <= Cardinality(DOMAIN f) + 1
         /\ p \notin DOMAIN f =>
              Cardinality(DOMAIN Debug!With(f, p, n)) = Cardinality(DOMAIN f) + 1
<1>1. DOMAIN Debug!With(f, p, n) = DOMAIN f \cup {p}
  BY DEF Debug!With
<1>2. IsFiniteSet(DOMAIN f \cup {p})
      /\ Cardinality(DOMAIN f \cup {p}) =
           IF p \in DOMAIN f THEN Cardinality(DOMAIN f) ELSE Cardinality(DOMAIN f) + 1
  BY FS_AddElement
<1>3. Cardinality(DOMAIN f) \in Nat /\ Cardinality(DOMAIN f \cup {p}) \in Nat
  BY <1>2, FS_CardinalityType
<1>. QED BY <1>1, <1>2, <1>3

LEMMA LiveWithout ==
  ASSUME NEW f, NEW p, IsFiniteSet(DOMAIN f)
  PROVE  /\ DOMAIN Debug!Without(f, p) = DOMAIN f \ {p}
         /\ IsFiniteSet(DOMAIN Debug!Without(f, p))
         /\ Cardinality(DOMAIN Debug!Without(f, p)) \in Nat
         /\ Cardinality(DOMAIN f) \in Nat
         /\ Cardinality(DOMAIN Debug!Without(f, p)) <= Cardinality(DOMAIN f)
         /\ p \in DOMAIN f =>
              Cardinality(DOMAIN Debug!Without(f, p)) = Cardinality(DOMAIN f) - 1
         /\ p \notin DOMAIN f =>
              Cardinality(DOMAIN Debug!Without(f, p)) = Cardinality(DOMAIN f)
<1>1. DOMAIN Debug!Without(f, p) = DOMAIN f \ {p}
  BY DEF Debug!Without
<1>2. IsFiniteSet(DOMAIN f \ {p})
      /\ Cardinality(DOMAIN f \ {p}) =
           IF p \in DOMAIN f THEN Cardinality(DOMAIN f) - 1 ELSE Cardinality(DOMAIN f)
  BY FS_RemoveElement
<1>3. Cardinality(DOMAIN f) \in Nat /\ Cardinality(DOMAIN f \ {p}) \in Nat
  BY <1>2, FS_CardinalityType
<1>. QED BY <1>1, <1>2, <1>3

\* What is entered for p, or missed, is covered by the bytes of the others and of the block.
LEMMA CoverMore ==
  ASSUME NEW l, NEW m, NEW p, NEW n \in Nat, NEW D, IsFiniteSet(D),
         Debug!Bytes(l) \cup Debug!Bytes(m) \subseteq D, p \notin DOMAIN l,
         live' = Debug!With(l, p, n), Debug!Enter(m, p, n)
  PROVE  /\ IsFiniteSet(Cover') /\ Cardinality(Cover') \in Nat /\ Cardinality(D) \in Nat
         /\ Cardinality(Cover') <= Cardinality(D) + n
         /\ l = m /\ D = Debug!Bytes(l) /\ ptrAllocMap' = live'
              => Debug!Total(live') = Cardinality(D) + n
<1> DEFINE B == Block(p, n)
<1>1. IsFiniteSet(B) /\ Cardinality(B) = n
  BY BlockSize
<1>2. Debug!Bytes(live') = Debug!Bytes(l) \cup B
  BY BytesWith, BytesOf
<1>3. Debug!Bytes(ptrAllocMap') \subseteq Debug!Bytes(m) \cup B
  <2>1. CASE ptrAllocMap' = Debug!With(m, p, n)
    BY <2>1, BytesWith DEF Others
  <2>2. CASE ptrAllocMap' = m
    BY <2>2
  <2>. QED BY <2>1, <2>2 DEF Debug!Enter
<1>4. Cover' = Debug!Bytes(live') \cup Debug!Bytes(ptrAllocMap')
  BY DEF Cover, Debug!Bytes
<1>5. Cover' \in SUBSET (D \cup B)
  BY <1>2, <1>3, <1>4
<1>6. \A c \in B : c \notin Debug!Bytes(l)
  BY BytesOf DEF Block, Others
<1> HIDE DEF B
<1>7. IsFiniteSet(Cover') /\ Cardinality(Cover') <= Cardinality(D) + n
  BY <1>1, <1>5, CoverFits
<1>8. Cardinality(Cover') \in Nat /\ Cardinality(D) \in Nat
  BY <1>7, FS_CardinalityType
<1>9. ASSUME l = m, D = Debug!Bytes(l), ptrAllocMap' = live'
      PROVE  Debug!Total(live') = Cardinality(D) + n
  <2>1. Cover' = D \cup B
    BY <1>2, <1>4, <1>9
  <2>2. D \in SUBSET Cover' /\ B \in SUBSET Cover' /\ D \cap B = {}
    BY <1>6, <1>9, <2>1
  <2>3. Cardinality(D) + Cardinality(B) <= Cardinality(Cover')
    BY <1>7, <2>2, PartsFit
  <2>4. Debug!Total(live') = Cardinality(Cover')
    BY <1>4, <1>9, TotalIs
  <2>. QED BY <1>1, <1>7, <1>8, <2>3, <2>4
<1>. QED BY <1>7, <1>8, <1>9

\* alloc and realloc: of the blocks l and the entries m that are left, D are the bytes, and
\* a block of n bytes comes to them.
LEMMA DebugGives ==
  ASSUME DebugInv, NEW l, NEW m, NEW p \in Ptr, NEW n \in Nat, NEW D, IsFiniteSet(D),
         NEW c \in Nat,
         Debug!Bytes(l) \cup Debug!Bytes(m) \subseteq D, p \notin DOMAIN l,
         DOMAIN l \subseteq Ptr, IsFiniteSet(DOMAIN l),
         surplus' \in Nat,
         Cardinality(DOMAIN l) + surplus' = Cardinality(DOMAIN live) + surplus,
         DOMAIN m \subseteq Ptr, \A q \in DOMAIN m : m[q] \in Nat,
         c >= Cardinality(D),
         ~missed => l = m /\ D = Debug!Bytes(l) /\ c = Cardinality(D),
         live' = Debug!With(l, p, n), Debug!Enter(m, p, n),
         activeBytes' = c + n, activeAllocs' = activeAllocs + 1, nullFreed' = nullFreed
  PROVE  DebugInv'
<1>1. /\ DOMAIN live' = DOMAIN l \cup {p} /\ IsFiniteSet(DOMAIN live')
      /\ Cardinality(DOMAIN live') \in Nat /\ Cardinality(DOMAIN l) \in Nat
      /\ Cardinality(DOMAIN live') = Cardinality(DOMAIN l) + 1
  BY LiveWith
<1>2. Cardinality(DOMAIN live) \in Nat
  BY FS_CardinalityType DEF DebugInv
<1>3. /\ IsFiniteSet(Cover') /\ Cardinality(Cover') \in Nat /\ Cardinality(D) \in Nat
      /\ Cardinality(Cover') <= Cardinality(D) + n
      /\ l = m /\ D = Debug!Bytes(l) /\ ptrAllocMap' = live'
           => Debug!Total(live') = Cardinality(D) + n
  BY CoverMore
<1>4. DOMAIN ptrAllocMap' \subseteq Ptr /\ \A q \in DOMAIN ptrAllocMap' : ptrAllocMap'[q] \in Nat
  BY DEF Debug!Enter, Debug!With
<1>5. missed' \in BOOLEAN /\ (~missed' => ~missed /\ ptrAllocMap' = Debug!With(m, p, n))
  BY DEF Debug!Enter, DebugInv
<1>6. ASSUME ~missed' PROVE ptrAllocMap' = live' /\ activeBytes' = Debug!Total(live')
  <2>1. l = m /\ D = Debug!Bytes(l) /\ c = Cardinality(D) /\ ptrAllocMap' = live'
    BY <1>5, <1>6
  <2>. QED BY <1>3, <2>1
<1>7. activeBytes' \in Nat /\ activeBytes' >= Cardinality(Cover')
  BY <1>3
<1>8. activeAllocs' \in Nat /\ nullFreed' \in BOOLEAN
  BY DEF DebugInv
<1>9. surplus' \in Nat /\ Counted'
  <2>1. /\ activeAllocs <= Cardinality(DOMAIN live) + surplus
        /\ ~nullFreed => activeAllocs = Cardinality(DOMAIN live) + surplus
        /\ activeAllocs \in Nat /\ surplus \in Nat
    BY DEF DebugInv, Counted
  <2>. QED BY <1>1, <1>2, <2>1 DEF Counted
<1>10. DOMAIN live' \subseteq Ptr
  BY <1>1
<1>. QED BY <1>1, <1>3, <1>4, <1>5, <1>6, <1>7, <1>8, <1>9, <1>10 DEF DebugInv

\* A step that gives nothing: blocks and entries may go, and the bytes that are left in the
\* count cover those that remain.
LEMMA DebugKeepsLess ==
  ASSUME DebugInv, DOMAIN live' \subseteq DOMAIN live,
         DOMAIN ptrAllocMap' \subseteq DOMAIN ptrAllocMap,
         \A q \in DOMAIN ptrAllocMap' : ptrAllocMap'[q] = ptrAllocMap[q],
         IsFiniteSet(Cover'), activeBytes' \in Nat, activeBytes' >= Cardinality(Cover'),
         missed' \in BOOLEAN, nullFreed' \in BOOLEAN, activeAllocs' \in Nat,
         ~missed' => ptrAllocMap' = live' /\ activeBytes' = Debug!Total(live'),
         surplus' \in Nat, Counted'
  PROVE  DebugInv'
<1>1. DOMAIN live' \subseteq Ptr /\ DOMAIN ptrAllocMap' \subseteq Ptr
  BY DEF DebugInv
<1>2. IsFiniteSet(DOMAIN live')
  BY FS_Subset DEF DebugInv
<1>3. \A q \in DOMAIN ptrAllocMap' : ptrAllocMap'[q] \in Nat
  BY DEF DebugInv
<1>. QED BY <1>1, <1>2, <1>3 DEF DebugInv

LEMMA DebugAlloc == ASSUME DebugInv, NEW n \in DebugBytes, Debug!Alloc(n) PROVE DebugInv'
<1>1. CASE Debug!Refuse
  BY <1>1 DEF Debug!Refuse, Debug!vars, DebugInv, Counted, Cover, Debug!Total, Debug!Bytes
<1>2. ASSUME NEW p \in Ptr \ DOMAIN live,
             live' = Debug!With(live, p, n), Debug!Count(n), activeBytes' = activeBytes + n,
             Debug!Enter(ptrAllocMap, p, n), nullFreed' = nullFreed, surplus' = surplus
      PROVE  DebugInv'
  <2>1. n \in Nat /\ activeAllocs' = activeAllocs + 1
    BY <1>2, DebugTypes DEF Debug!Count
  <2>2. /\ IsFiniteSet(Cover) /\ activeBytes \in Nat /\ activeBytes >= Cardinality(Cover)
        /\ DOMAIN live \subseteq Ptr /\ IsFiniteSet(DOMAIN live)
        /\ DOMAIN ptrAllocMap \subseteq Ptr
        /\ \A q \in DOMAIN ptrAllocMap : ptrAllocMap[q] \in Nat
    BY DEF DebugInv
  <2>3. ~missed => live = ptrAllocMap /\ Cover = Debug!Bytes(live)
                   /\ activeBytes = Cardinality(Cover)
    BY TotalIs DEF DebugInv, Cover
  <2>4. Debug!Bytes(live) \cup Debug!Bytes(ptrAllocMap) \subseteq Cover
    BY DEF Cover
  <2>5. /\ surplus' \in Nat
        /\ Cardinality(DOMAIN live) + surplus' = Cardinality(DOMAIN live) + surplus
    BY <1>2 DEF DebugInv
  <2>. QED BY <1>2, <2>1, <2>2, <2>3, <2>4, <2>5, DebugGives
<1>. QED BY <1>1, <1>2 DEF Debug!Alloc

LEMMA DebugRealloc ==
  ASSUME DebugInv, NEW block \in DOMAIN live \cup {Null}, NEW n \in DebugBytes,
         Debug!Realloc(block, n)
  PROVE  DebugInv'
<1>1. CASE Debug!Refuse
  BY <1>1 DEF Debug!Refuse, Debug!vars, DebugInv, Counted, Cover, Debug!Total, Debug!Bytes
<1>2. ASSUME NEW p \in Ptr \ (DOMAIN live \ {block}),
             live' = Debug!With(Debug!Without(live, block), p, n), Debug!Count(n),
             activeBytes' = activeBytes - Debug!Known(block) + n,
             Debug!Enter(Debug!Without(ptrAllocMap, block), p, n), nullFreed' = nullFreed,
             surplus' = IF block = Null THEN surplus ELSE surplus + 1
      PROVE  DebugInv'
  <2> DEFINE l == Debug!Without(live, block)
             m == Debug!Without(ptrAllocMap, block)
             D == Others(Cover, block)
             c == activeBytes - Debug!Known(block)
  <2>1. n \in Nat /\ activeAllocs' = activeAllocs + 1
    BY <1>2, DebugTypes DEF Debug!Count
  <2>2. /\ IsFiniteSet(D) /\ c \in Nat /\ c >= Cardinality(D)
        /\ ~missed => c = Cardinality(D)
    BY CoverLess
  <2>3. /\ DOMAIN live \subseteq Ptr /\ IsFiniteSet(DOMAIN live)
        /\ DOMAIN ptrAllocMap \subseteq Ptr
        /\ \A q \in DOMAIN ptrAllocMap : ptrAllocMap[q] \in Nat
        /\ ~missed => ptrAllocMap = live
    BY DEF DebugInv
  <2>4. /\ DOMAIN l = DOMAIN live \ {block} /\ IsFiniteSet(DOMAIN l)
        /\ surplus' \in Nat
        /\ Cardinality(DOMAIN l) + surplus' = Cardinality(DOMAIN live) + surplus
    <3>1. /\ DOMAIN l = DOMAIN live \ {block} /\ IsFiniteSet(DOMAIN l)
          /\ Cardinality(DOMAIN live) \in Nat /\ Cardinality(DOMAIN l) \in Nat
          /\ block \in DOMAIN live => Cardinality(DOMAIN l) = Cardinality(DOMAIN live) - 1
          /\ block \notin DOMAIN live => Cardinality(DOMAIN l) = Cardinality(DOMAIN live)
      BY <2>3, LiveWithout
    <3>2. block = Null <=> block \notin DOMAIN live
      BY <2>3, DebugTypes
    <3>3. surplus \in Nat
      BY DEF DebugInv
    <3> HIDE DEF l
    <3>. QED BY <1>2, <3>1, <3>2, <3>3
  <2>5. DOMAIN m \subseteq Ptr /\ \A q \in DOMAIN m : m[q] \in Nat
    BY <2>3 DEF Debug!Without
  <2>6. Debug!Bytes(l) \cup Debug!Bytes(m) = D
    BY BytesOf DEF Cover, Others
  <2>7. ~missed => l = m /\ D = Debug!Bytes(l)
    BY <2>3, <2>6
  <2>8. /\ p \in Ptr /\ p \notin DOMAIN l /\ DOMAIN l \subseteq Ptr
        /\ live' = Debug!With(l, p, n) /\ Debug!Enter(m, p, n) /\ activeBytes' = c + n
        /\ nullFreed' = nullFreed
    BY <1>2, <2>3, <2>4
  <2> HIDE DEF l, m, D, c
  <2>. QED BY <2>1, <2>2, <2>4, <2>5, <2>6, <2>7, <2>8, DebugGives
<1>. QED BY <1>1, <1>2 DEF Debug!Realloc

LEMMA DebugReallocToNothing ==
  ASSUME DebugInv, NEW block \in DOMAIN live, Debug!ReallocToNothing(block)
  PROVE  DebugInv'
<1>1. /\ live' = Debug!Without(live, block) /\ missed' = TRUE
      /\ surplus' = surplus + 1
      /\ UNCHANGED <<ptrAllocMap, activeBytes, activeAllocs, nullFreed>>
  BY DEF Debug!ReallocToNothing
<1>2. DOMAIN live' \subseteq DOMAIN live /\ IsFiniteSet(DOMAIN live)
  BY <1>1 DEF Debug!Without, DebugInv
<1>3. Cover' = Debug!Bytes(live') \cup Debug!Bytes(ptrAllocMap')
  BY DEF Cover, Debug!Bytes
<1>4. Cover' \in SUBSET Cover
  <2>1. Debug!Bytes(live') \subseteq Debug!Bytes(live)
    BY <1>1, BytesOf DEF Others
  <2>. QED BY <1>1, <1>3, <2>1 DEF Cover
<1>5. IsFiniteSet(Cover) /\ activeBytes \in Nat /\ activeBytes >= Cardinality(Cover)
  BY DEF DebugInv
<1>6. IsFiniteSet(Cover') /\ Cardinality(Cover') <= Cardinality(Cover)
  BY <1>4, <1>5, FS_Subset
<1>7. Cardinality(Cover') \in Nat /\ Cardinality(Cover) \in Nat
  BY <1>5, <1>6, FS_CardinalityType
<1>8. Cardinality(DOMAIN live') = Cardinality(DOMAIN live) - 1
      /\ Cardinality(DOMAIN live') \in Nat /\ Cardinality(DOMAIN live) \in Nat
  BY <1>1, <1>2, LiveWithout
<1>9. nullFreed \in BOOLEAN /\ activeAllocs \in Nat /\ surplus \in Nat /\ Counted
  BY DEF DebugInv
<1>10. activeBytes' \in Nat /\ activeBytes' >= Cardinality(Cover')
  BY <1>1, <1>5, <1>6, <1>7
<1>11. nullFreed' \in BOOLEAN /\ activeAllocs' \in Nat /\ surplus' \in Nat /\ Counted'
  BY <1>1, <1>8, <1>9 DEF Counted
<1>. QED BY <1>1, <1>2, <1>6, <1>10, <1>11, DebugKeepsLess

LEMMA DebugFree ==
  ASSUME DebugInv, NEW block \in DOMAIN live \cup {Null}, Debug!Free(block)
  PROVE  DebugInv'
<1> DEFINE D == Others(Cover, block)
<1>1. /\ live' = Debug!Without(live, block) /\ ptrAllocMap' = Debug!Without(ptrAllocMap, block)
      /\ activeBytes' = activeBytes - Debug!Known(block)
      /\ activeAllocs' = IF activeAllocs > 0 THEN activeAllocs - 1 ELSE 0
      /\ nullFreed' = (nullFreed \/ block = Null) /\ missed' = missed /\ surplus' = surplus
  BY DEF Debug!Free
<1>2. /\ IsFiniteSet(D) /\ activeBytes' \in Nat /\ activeBytes' >= Cardinality(D)
      /\ ~missed => activeBytes' = Cardinality(D)
  BY <1>1, CoverLess
<1>3. Cover' = D
  <2>1. Cover' = Debug!Bytes(live') \cup Debug!Bytes(ptrAllocMap')
    BY DEF Cover, Debug!Bytes
  <2>. QED BY <1>1, <2>1, BytesOf DEF Cover, Others
<1>4. DOMAIN live' \subseteq DOMAIN live /\ DOMAIN ptrAllocMap' \subseteq DOMAIN ptrAllocMap
      /\ \A q \in DOMAIN ptrAllocMap' : ptrAllocMap'[q] = ptrAllocMap[q]
  BY <1>1 DEF Debug!Without
<1>5. ASSUME ~missed' PROVE ptrAllocMap' = live' /\ activeBytes' = Debug!Total(live')
  <2>1. ptrAllocMap = live
    BY <1>1, <1>5 DEF DebugInv
  <2>2. ptrAllocMap' = live'
    BY <1>1, <2>1
  <2>3. Cover' = Debug!Bytes(live')
    BY <2>2 DEF Cover, Debug!Bytes
  <2>. QED BY <1>1, <1>2, <1>3, <1>5, <2>2, <2>3, TotalIs
<1>6. IsFiniteSet(DOMAIN live) /\ nullFreed \in BOOLEAN /\ missed \in BOOLEAN
      /\ activeAllocs \in Nat /\ DOMAIN live \subseteq Ptr /\ surplus \in Nat
      /\ activeAllocs <= Cardinality(DOMAIN live) + surplus
      /\ (~nullFreed => activeAllocs = Cardinality(DOMAIN live) + surplus)
  BY DEF DebugInv, Counted
<1>7. Counted' /\ surplus' \in Nat
  <2>1. /\ Cardinality(DOMAIN live') \in Nat /\ Cardinality(DOMAIN live) \in Nat
        /\ block \in DOMAIN live => Cardinality(DOMAIN live') = Cardinality(DOMAIN live) - 1
        /\ block \notin DOMAIN live => Cardinality(DOMAIN live') = Cardinality(DOMAIN live)
    BY <1>1, <1>6, LiveWithout
  <2>2. block \in DOMAIN live => Cardinality(DOMAIN live) >= 1
    BY <2>1
  <2>3. block \notin DOMAIN live => nullFreed'
    BY <1>1
  <2>4. surplus' \in Nat /\ (nullFreed => nullFreed')
    BY <1>1, <1>6
  <2>5. activeAllocs' <= Cardinality(DOMAIN live') + surplus'
    BY <1>1, <1>6, <2>1, <2>2
  <2>6. ASSUME ~nullFreed' PROVE activeAllocs' = Cardinality(DOMAIN live') + surplus'
    BY <1>1, <1>6, <2>1, <2>2, <2>3, <2>4, <2>6
  <2>. QED BY <2>4, <2>5, <2>6 DEF Counted
<1>8. nullFreed' \in BOOLEAN /\ missed' \in BOOLEAN /\ activeAllocs' \in Nat
  BY <1>1, <1>6
<1> HIDE DEF D
<1>9. IsFiniteSet(Cover') /\ activeBytes' \in Nat /\ activeBytes' >= Cardinality(Cover')
  BY <1>2, <1>3
<1>. QED BY <1>4, <1>5, <1>7, <1>8, <1>9, DebugKeepsLess

LEMMA DebugKeeps == DebugInv /\ [Debug!Next]_debugVars => DebugInv'
<1> SUFFICES ASSUME DebugInv, [Debug!Next]_debugVars PROVE DebugInv'
  OBVIOUS
<1>1. ASSUME NEW n \in DebugBytes, Debug!Alloc(n) PROVE DebugInv'
  BY <1>1, DebugAlloc
<1>2. ASSUME NEW block \in DOMAIN live \cup {Null}, NEW n \in DebugBytes,
             Debug!Realloc(block, n)
      PROVE  DebugInv'
  BY <1>2, DebugRealloc
<1>3. ASSUME NEW block \in DOMAIN live, Debug!ReallocToNothing(block) PROVE DebugInv'
  BY <1>3, DebugReallocToNothing
<1>4. ASSUME NEW block \in DOMAIN live \cup {Null}, Debug!Free(block) PROVE DebugInv'
  BY <1>4, DebugFree
<1>5. CASE UNCHANGED debugVars
  BY <1>5 DEF debugVars, DebugInv, Counted, Cover, Debug!Total, Debug!Bytes
<1>. QED BY <1>1, <1>2, <1>3, <1>4, <1>5 DEF Debug!Next

-----------------------------------------------------------------------------
(* The page allocator *)

LEMMA PageTypes ==
  /\ Pages \in Nat \ {0} /\ Descriptors \in Nat \ {0}
  /\ PageSize \in Nat \ {0} /\ PageWord \in Nat \ {0} /\ PageBytes \subseteq Nat
  /\ Null \notin Nat /\ Null \notin [ptr : Nat, pages : Nat]
  BY AllocatorAssumption DEF Page!PageAssumption

LEMMA PagesFromSizeType == \A n \in PageBytes : Page!PagesFromSize(n) \in Nat
<1> TAKE n \in PageBytes
<1> DEFINE a == n + PageSize - 1
<1>1. a \in Nat /\ PageWord \in Nat \ {0} /\ PageSize \in Nat \ {0}
  BY PageTypes
<1> HIDE DEF a
<1>2. a % PageWord \in Nat
  BY <1>1, Division
<1>3. (a % PageWord) \div PageSize \in Nat
  BY <1>1, <1>2, Division
<1>. QED BY <1>3 DEF Page!PagesFromSize, a

\* Every link of a table leads into the table.
IsTable(t) ==
  /\ t \in Seq(Page!Descriptor) /\ Len(t) \in 1 .. Descriptors
  /\ \A i \in DOMAIN t : t[i].next \in 0 .. Len(t)

Valid(t) == {i \in DOMAIN t : t[i].valid}
End(t, i) == t[i].start + t[i].pages

\* The blocks that are in use as descriptors form chains, one of them from descriptor 1 and
\* page 0; a block that is cut off from it, when no descriptor was left for the rest of
\* another one, points at no block of it.
Linked(t) ==
  /\ 1 \in Valid(t) /\ t[1].start = 0
  /\ \A i \in Valid(t) : t[i].start < Pages /\ End(t, i) <= Pages
  /\ \A i \in Valid(t) : t[i].next # 0 =>
       t[i].next \in Valid(t) \ {1} /\ t[t[i].next].start = End(t, i)
  /\ \A i, j \in Valid(t) : t[i].next = t[j].next /\ t[i].next # 0 => i = j

\* l is the chain from descriptor 1.
IsList(t, l) ==
  /\ l \in Seq(Valid(t)) /\ Len(l) >= 1 /\ l[1] = 1
  /\ \A n \in 1 .. Len(l) - 1 : t[l[n]].next = l[n + 1]
  /\ t[l[Len(l)]].next = 0
  /\ \A m, n \in 1 .. Len(l) : l[m] = l[n] => m = n

Sound(t, l) == IsTable(t) /\ Linked(t) /\ IsList(t, l)

\* The chain has every block, up to the last page.
Covers(t, l) ==
  /\ \A i \in Valid(t) : \E n \in 1 .. Len(l) : l[n] = i
  /\ End(t, l[Len(l)]) = Pages

\* No block is empty, and none overlaps another.
Whole(t) ==
  /\ \A i \in Valid(t) : t[i].pages > 0
  /\ \A i, j \in Valid(t) : i # j => End(t, i) <= t[j].start \/ End(t, j) <= t[i].start

NoneJoinable(t, l) ==
  \A n \in 1 .. Len(l) - 1 : ~(t[l[n]].free /\ t[l[n + 1]].free)

\* What the callers hold, as far as the table knows.
InUse(t) ==
  {[ptr |-> t[i].start, pages |-> t[i].pages] : i \in {j \in Valid(t) : ~t[j].free}}

LEMMA TableType ==
  ASSUME NEW t, IsTable(t)
  PROVE  /\ Len(t) \in Nat /\ DOMAIN t = 1 .. Len(t) /\ Valid(t) \subseteq 1 .. Len(t)
         /\ \A i \in 1 .. Len(t) :
              /\ t[i] \in Page!Descriptor
              /\ t[i].next \in Nat /\ t[i].start \in Nat /\ t[i].pages \in Nat
              /\ t[i].free \in BOOLEAN /\ t[i].valid \in BOOLEAN
              /\ End(t, i) \in Nat
<1>1. Len(t) \in Nat /\ DOMAIN t = 1 .. Len(t) /\ \A i \in 1 .. Len(t) : t[i] \in Page!Descriptor
  BY DEF IsTable
<1>2. \A d \in Page!Descriptor : /\ d.next \in Nat /\ d.start \in Nat /\ d.pages \in Nat
                                /\ d.free \in BOOLEAN /\ d.valid \in BOOLEAN
  BY PageTypes DEF Page!Descriptor
<1>. QED BY <1>1, <1>2 DEF Valid, End

LEMMA ListType ==
  ASSUME NEW t, NEW l, Sound(t, l)
  PROVE  /\ Len(l) \in Nat \ {0} /\ DOMAIN l = 1 .. Len(l)
         /\ \A n \in 1 .. Len(l) : l[n] \in Valid(t) /\ l[n] \in 1 .. Len(t)
         /\ l[Len(l)] \in Valid(t)
<1>1. Len(l) \in Nat \ {0} /\ DOMAIN l = 1 .. Len(l) /\ \A n \in 1 .. Len(l) : l[n] \in Valid(t)
  BY DEF Sound, IsList
<1>. QED BY <1>1, TableType DEF Sound

\* Descriptors reached after 0, 1, ... steps
Walk(t, h) == [n \in 0 .. Len(t) |-> IF n = 0 THEN 1 ELSE Page!Behind(t, h[n - 1])]

LEMMA WalkExists ==
  ASSUME NEW t, IsTable(t)
  PROVE  \E h : h = Walk(t, h)
<1> DEFINE N == Len(t)
           X == 0 .. N
           F == [k \in 1 .. N |-> [i \in X |-> Page!Behind(t, i)]]
<1>1. N \in Nat /\ N >= 1 /\ 1 \in X
  BY DEF IsTable
<1>2. \A i \in X : Page!Behind(t, i) \in X
  BY <1>1 DEF IsTable, Page!Behind
<1>3. F \in Rounds(N, X) /\ \A k \in 1 .. N, i \in X : F[k][i] = Page!Behind(t, i)
  <2> HIDE DEF X
  <2>. QED BY <1>2 DEF Rounds
<1> HIDE DEF F
<1>4. PICK h : IsCourse(h, N, X, 1, F)
  BY <1>1, <1>3, CourseExists
<1>5. h \in [0 .. N -> X] /\ h[0] = 1 /\ \A k \in 1 .. N : h[k] = F[k][h[k - 1]]
  BY <1>4 DEF IsCourse
<1>6. \A k \in 1 .. N : k - 1 \in 0 .. N
  BY <1>1
<1>7. \A k \in 1 .. N : h[k] = Page!Behind(t, h[k - 1])
  <2> HIDE DEF X
  <2>. QED BY <1>3, <1>5, <1>6
<1>8. h = Walk(t, h)
  BY <1>1, <1>5, <1>7 DEF Walk
<1>. QED BY <1>8

\* The chain is shorter than the table, and the list of its table.
LEMMA ListLength ==
  ASSUME NEW t, NEW l, Sound(t, l)
  PROVE  Len(l) <= Len(t)
<1>1. Len(l) \in Nat /\ Len(t) \in Nat /\ l \in [1 .. Len(l) -> 1 .. Len(t)]
  BY ListType, TableType DEF Sound, IsList
<1>2. l \in Injection(1 .. Len(l), 1 .. Len(t))
  BY <1>1, Fun_IsInj DEF Sound, IsList
<1>3. IsFiniteSet(1 .. Len(t)) /\ Cardinality(1 .. Len(t)) = Len(t)
      /\ Cardinality(1 .. Len(l)) = Len(l)
  BY <1>1, IndicesFinite
<1>4. Cardinality(1 .. Len(l)) <= Cardinality(1 .. Len(t))
  BY <1>2, <1>3, FS_Injection
<1>. QED BY <1>3, <1>4

LEMMA ListIs ==
  ASSUME NEW t, NEW l, Sound(t, l)
  PROVE  Page!List(t) = l
<1> DEFINE N == Len(t)
           at == CHOOSE h : h = Walk(t, h)
           size == CHOOSE n \in 1 .. N : at[n - 1] # 0 /\ at[n] = 0
<1>1. /\ N \in Nat /\ Len(l) \in 1 .. N
      /\ l = [n \in 1 .. Len(l) |-> l[n]] /\ \A n \in 1 .. Len(l) : l[n] \in Nat \ {0}
  <2>1. N \in Nat /\ Len(l) \in Nat \ {0} /\ Len(l) <= N
    BY TableType, ListType, ListLength DEF Sound
  <2>2. \A n \in 1 .. Len(l) : l[n] \in 1 .. N
    BY ListType
  <2>3. l \in Seq(Valid(t))
    BY DEF Sound, IsList
  <2>. QED BY <2>1, <2>2, <2>3
<1>2. at = Walk(t, at)
  BY WalkExists DEF Sound
<1> HIDE DEF at
<1>3. at[0] = 1 /\ \A n \in 1 .. N : at[n] = Page!Behind(t, at[n - 1])
  <2>1. \A n \in 0 .. N : at[n] = IF n = 0 THEN 1 ELSE Page!Behind(t, at[n - 1])
    BY <1>2 DEF Walk
  <2>. QED BY <1>1, <2>1
<1>4. \A n \in 0 .. Len(l) - 1 : at[n] = l[n + 1]
  <2> DEFINE S == {n \in 0 .. Len(l) - 1 : at[n] = l[n + 1]}
  <2>1. 0 \in S
    BY <1>1, <1>3 DEF Sound, IsList
  <2>2. ASSUME NEW n \in 0 .. (Len(l) - 1) - 1, n \in S PROVE n + 1 \in S
    <3>1. n + 1 \in 1 .. N /\ n + 1 \in 1 .. Len(l) - 1 /\ n + 1 \in 0 .. Len(l) - 1
          /\ (n + 1) - 1 = n /\ n + 1 \in 1 .. Len(l)
      BY <1>1
    <3>2. at[n + 1] = Page!Behind(t, l[n + 1])
      BY <1>3, <2>2, <3>1
    <3>3. t[l[n + 1]].next = l[(n + 1) + 1]
      BY <3>1 DEF Sound, IsList
    <3>4. l[n + 1] # 0
      BY <1>1, <3>1
    <3>. QED BY <3>1, <3>2, <3>3, <3>4 DEF Page!Behind
  <2>3. Len(l) - 1 \in Nat
    BY <1>1
  <2> HIDE DEF S
  <2>4. 0 .. Len(l) - 1 \subseteq S
    BY <2>1, <2>2, <2>3, InductionUpTo
  <2>. QED BY <2>4 DEF S
<1>5. at[Len(l)] = 0
  <2>1. Len(l) - 1 \in 0 .. Len(l) - 1 /\ (Len(l) - 1) + 1 = Len(l) /\ Len(l) \in 1 .. Len(l)
    BY <1>1
  <2>2. at[Len(l)] = Page!Behind(t, l[Len(l)]) /\ l[Len(l)] # 0
    BY <1>1, <1>3, <1>4, <2>1
  <2>. QED BY <2>2 DEF Page!Behind, Sound, IsList
<1>6. \A n \in Len(l) .. N : at[n] = 0
  <2> DEFINE S == {k \in 0 .. N - Len(l) : at[Len(l) + k] = 0}
  <2>1. 0 \in S
    BY <1>1, <1>5
  <2>2. ASSUME NEW k \in 0 .. (N - Len(l)) - 1, k \in S PROVE k + 1 \in S
    <3>1. Len(l) + (k + 1) \in 1 .. N /\ (Len(l) + (k + 1)) - 1 = Len(l) + k
          /\ k + 1 \in 0 .. N - Len(l)
      BY <1>1
    <3>2. at[Len(l) + (k + 1)] = Page!Behind(t, at[Len(l) + k])
      BY <1>3, <3>1
    <3>. QED BY <2>2, <3>1, <3>2 DEF Page!Behind
  <2>3. N - Len(l) \in Nat
    BY <1>1
  <2> HIDE DEF S
  <2>4. 0 .. N - Len(l) \subseteq S
    BY <2>1, <2>2, <2>3, InductionUpTo
  <2>5. \A n \in Len(l) .. N : n - Len(l) \in 0 .. N - Len(l) /\ Len(l) + (n - Len(l)) = n
    BY <1>1
  <2> TAKE n \in Len(l) .. N
  <2>6. n - Len(l) \in S
    BY <2>4, <2>5
  <2>7. at[Len(l) + (n - Len(l))] = 0
    BY <2>6 DEF S
  <2>. QED BY <2>5, <2>7
<1>7. size = Len(l)
  <2>1. Len(l) \in 1 .. N /\ at[Len(l) - 1] # 0 /\ at[Len(l)] = 0
    <3>1. Len(l) - 1 \in 0 .. Len(l) - 1 /\ (Len(l) - 1) + 1 = Len(l) /\ Len(l) \in 1 .. Len(l)
      BY <1>1
    <3>. QED BY <1>1, <1>4, <1>5, <3>1
  <2>2. ASSUME NEW n \in 1 .. N, at[n - 1] # 0, at[n] = 0 PROVE n = Len(l)
    <3>1. CASE n < Len(l)
      <4>1. n \in 0 .. Len(l) - 1 /\ n + 1 \in 1 .. Len(l)
        BY <1>1, <3>1
      <4>. QED BY <1>1, <1>4, <2>2, <4>1
    <3>2. CASE n > Len(l)
      <4>1. n - 1 \in Len(l) .. N
        BY <1>1, <3>2
      <4>. QED BY <1>6, <2>2, <4>1
    <3>. QED BY <1>1, <3>1, <3>2
  <2>. QED BY <2>1, <2>2
<1>8. \A n \in 1 .. Len(l) : at[n - 1] = l[n]
  <2> TAKE n \in 1 .. Len(l)
  <2>1. n - 1 \in 0 .. Len(l) - 1 /\ (n - 1) + 1 = n
    BY <1>1
  <2>. QED BY <1>4, <2>1
<1>9. Page!List(t) = [n \in 1 .. size |-> at[n - 1]]
  BY DEF Page!List, at, Walk
<1> HIDE DEF size
<1>. QED BY <1>1, <1>7, <1>8, <1>9

\* u is the table t after block i took over the one behind it, j.
TakesOver(t, i, j, u) ==
  /\ IsTable(u) /\ Len(u) = Len(t) /\ DOMAIN u = 1 .. Len(t)
  /\ \A d \in 1 .. Len(t) : d # i /\ d # j => u[d] = t[d]
  /\ u[i].pages = t[i].pages + t[j].pages /\ u[i].next = t[j].next
  /\ u[i].start = t[i].start /\ u[i].free = t[i].free /\ u[i].valid = t[i].valid
  /\ u[j].valid = FALSE /\ u[j].start = t[j].start /\ u[j].free = t[j].free

LEMMA AbsorbedIs ==
  ASSUME NEW t, IsTable(t), NEW i \in 1 .. Len(t), NEW j \in 1 .. Len(t), i # j
  PROVE  TakesOver(t, i, j, Page!Absorbed(t, i, j))
<1> DEFINE u == Page!Absorbed(t, i, j)
<1>1. /\ Len(t) \in Nat /\ DOMAIN t = 1 .. Len(t) /\ t \in Seq(Page!Descriptor)
      /\ \A d \in 1 .. Len(t) : t[d] \in Page!Descriptor
  BY TableType DEF IsTable
<1>2. u = [t EXCEPT ![i].pages = @ + t[j].pages, ![j].valid = FALSE, ![i].next = t[j].next]
  BY DEF Page!Absorbed
<1> HIDE DEF u
<1>3. /\ DOMAIN u = 1 .. Len(t) /\ u \in Seq(Page!Descriptor) /\ Len(u) = Len(t)
      /\ u[i] = [t[i] EXCEPT !.pages = @ + t[j].pages, !.next = t[j].next]
      /\ u[j] = [t[j] EXCEPT !.valid = FALSE]
      /\ \A d \in 1 .. Len(t) : d # i /\ d # j => u[d] = t[d]
  <2>1. /\ DOMAIN u = 1 .. Len(t)
        /\ u[i] = [t[i] EXCEPT !.pages = @ + t[j].pages, !.next = t[j].next]
        /\ u[j] = [t[j] EXCEPT !.valid = FALSE]
        /\ \A d \in 1 .. Len(t) : d # i /\ d # j => u[d] = t[d]
    BY <1>1, <1>2 DEF Page!Descriptor
  <2>2. \A d \in 1 .. Len(t) : u[d] \in Page!Descriptor
    <3>1. t[i].pages + t[j].pages \in Nat /\ t[j].next \in 0 .. Descriptors
      BY <1>1 DEF Page!Descriptor
    <3>2. [t[i] EXCEPT !.pages = @ + t[j].pages, !.next = t[j].next] \in Page!Descriptor
      BY <1>1, <3>1 DEF Page!Descriptor
    <3>3. [t[j] EXCEPT !.valid = FALSE] \in Page!Descriptor
      BY <1>1 DEF Page!Descriptor
    <3>. QED BY <1>1, <2>1, <3>2, <3>3
  <2>3. u = [d \in 1 .. Len(t) |-> u[d]]
    BY <1>1, <1>2
  <2>4. u \in Seq(Page!Descriptor) /\ Len(u) = Len(t)
    BY <1>1, <2>2, <2>3
  <2>. QED BY <2>1, <2>4
<1>4. /\ u[i].pages = t[i].pages + t[j].pages /\ u[i].next = t[j].next
      /\ u[i].start = t[i].start /\ u[i].free = t[i].free /\ u[i].valid = t[i].valid
      /\ u[j].valid = FALSE /\ u[j].start = t[j].start /\ u[j].free = t[j].free
      /\ u[j].next = t[j].next
  BY <1>1, <1>3 DEF Page!Descriptor
<1>5. \A d \in DOMAIN u : u[d].next \in 0 .. Len(u)
  BY <1>1, <1>3, <1>4 DEF IsTable
<1>6. IsTable(u)
  BY <1>3, <1>5 DEF IsTable
<1>7. TakesOver(t, i, j, u)
  BY <1>3, <1>4, <1>6 DEF TakesOver
<1>. QED BY <1>7 DEF u

LEMMA AbsorbedLinked ==
  ASSUME NEW t, IsTable(t), Linked(t), NEW i \in Valid(t), NEW j, j = t[i].next, j # 0, i # j,
         NEW u, TakesOver(t, i, j, u)
  PROVE  /\ IsTable(u) /\ Linked(u) /\ Valid(u) = Valid(t) \ {j} /\ j \in Valid(t)
         /\ End(u, i) = End(t, j) /\ \A d \in Valid(u) : u[d].start = t[d].start
         /\ \A d \in Valid(u) \ {i} : u[d] = t[d]
         /\ \A d \in 1 .. Len(t) : u[d].free = t[d].free
<1>1. i \in 1 .. Len(t) /\ j \in Valid(t) /\ j # 1 /\ j \in 1 .. Len(t)
  BY TableType DEF Linked
<1>2. /\ IsTable(u) /\ Len(u) = Len(t) /\ DOMAIN u = 1 .. Len(t)
      /\ \A d \in 1 .. Len(t) : d # i /\ d # j => u[d] = t[d]
      /\ u[i].pages = t[i].pages + t[j].pages /\ u[i].next = t[j].next
      /\ u[i].start = t[i].start /\ u[i].free = t[i].free /\ u[i].valid = t[i].valid
      /\ u[j].valid = FALSE /\ u[j].start = t[j].start /\ u[j].free = t[j].free
  BY DEF TakesOver
<1>3. Valid(u) = Valid(t) \ {j}
  <2>1. DOMAIN t = 1 .. Len(t) /\ t[i].valid
    BY TableType DEF Valid
  <2>2. \A d \in 1 .. Len(t) : d # j => u[d].valid = t[d].valid
    BY <1>2
  <2>. QED BY <1>1, <1>2, <2>1, <2>2 DEF Valid
<1>4. \A d \in 1 .. Len(t) : t[d].start \in Nat /\ t[d].pages \in Nat
  BY TableType
<1>5. End(u, i) = End(t, j) /\ t[j].start = End(t, i)
  BY <1>1, <1>2, <1>4 DEF Linked, End
<1>6. \A d \in Valid(u) \ {i} : u[d] = t[d] /\ End(u, d) = End(t, d)
  BY <1>2, <1>3, TableType DEF End
<1>7. \A d \in Valid(u) : u[d].start = t[d].start
  BY <1>2, <1>6
<1>8. 1 \in Valid(u) /\ u[1].start = 0
  BY <1>1, <1>3, <1>7 DEF Linked
<1>9. \A d \in Valid(u) : u[d].start < Pages /\ End(u, d) <= Pages
  BY <1>1, <1>3, <1>5, <1>6, <1>7 DEF Linked
<1>10. ASSUME NEW d \in Valid(u), u[d].next # 0
       PROVE  u[d].next \in Valid(u) \ {1} /\ u[u[d].next].start = End(u, d)
  <2>1. CASE d = i
    <3>1. u[d].next = t[j].next /\ t[j].next \in Valid(t) \ {1}
          /\ t[t[j].next].start = End(t, j)
      BY <1>1, <1>2, <1>10, <2>1 DEF Linked
    <3>2. t[j].next # j
      BY <1>1 DEF Linked
    <3>. QED BY <1>3, <1>5, <1>7, <2>1, <3>1, <3>2
  <2>2. CASE d # i
    <3>1. u[d] = t[d] /\ d \in Valid(t) /\ End(u, d) = End(t, d)
      BY <1>3, <1>6, <2>2
    <3>2. t[d].next \in Valid(t) \ {1} /\ t[t[d].next].start = End(t, d)
      BY <1>10, <3>1 DEF Linked
    <3>3. t[d].next # j
      BY <1>1, <2>2, <3>1 DEF Linked
    <3>. QED BY <1>3, <1>7, <3>1, <3>2, <3>3
  <2>. QED BY <2>1, <2>2
<1>11. \A c, d \in Valid(u) : u[c].next = u[d].next /\ u[c].next # 0 => c = d
  <2>1. \A d \in Valid(u) \ {i} : d \in Valid(t) /\ d # j /\ u[d].next = t[d].next
    BY <1>3, <1>6
  <2>2. \A c, d \in Valid(t) : t[c].next = t[d].next /\ t[c].next # 0 => c = d
    BY DEF Linked
  <2>. QED BY <1>1, <1>2, <2>1, <2>2
<1>12. Linked(u)
  BY <1>8, <1>9, <1>10, <1>11 DEF Linked
<1>13. \A d \in 1 .. Len(t) : u[d].free = t[d].free
  BY <1>1, <1>2
<1>. QED BY <1>1, <1>2, <1>3, <1>5, <1>6, <1>7, <1>12, <1>13

\* The list without its place p, or with descriptor k behind its place p.
Removed(l, p) == [n \in 1 .. Len(l) - 1 |-> IF n < p THEN l[n] ELSE l[n + 1]]
Inserted(l, p, k) ==
  [n \in 1 .. Len(l) + 1 |-> IF n <= p THEN l[n] ELSE IF n = p + 1 THEN k ELSE l[n - 1]]
Cut(l, p) == [n \in 1 .. p |-> l[n]]

LEMMA FunctionIsSeq ==
  ASSUME NEW S, NEW n \in Nat, NEW f, f = [k \in 1 .. n |-> f[k]], \A k \in 1 .. n : f[k] \in S
  PROVE  f \in Seq(S) /\ Len(f) = n
<1>1. f \in [1 .. n -> S]
  OBVIOUS
<1>. QED BY <1>1

\* A block of the list takes over the one behind it.
LEMMA AbsorbedInList ==
  ASSUME NEW t, NEW l, Sound(t, l), NEW p \in 1 .. Len(l) - 1,
         NEW u, TakesOver(t, l[p], l[p + 1], u)
  PROVE  /\ Sound(u, Removed(l, p + 1)) /\ Len(Removed(l, p + 1)) = Len(l) - 1
         /\ Covers(t, l) => Covers(u, Removed(l, p + 1))
         /\ Valid(u) = Valid(t) \ {l[p + 1]} /\ End(u, l[p]) = End(t, l[p + 1])
<1> DEFINE i == l[p]
           j == l[p + 1]
           m == Removed(l, p + 1)
<1>1. /\ Len(l) \in Nat \ {0} /\ p \in Nat /\ p + 1 \in 1 .. Len(l) /\ p \in 1 .. Len(l)
      /\ \A n \in 1 .. Len(l) : l[n] \in Valid(t) /\ l[n] \in 1 .. Len(t)
  BY ListType
<1>2. /\ \A n \in 1 .. Len(l) - 1 : t[l[n]].next = l[n + 1]
      /\ t[l[Len(l)]].next = 0 /\ l[1] = 1
      /\ \A n, q \in 1 .. Len(l) : l[n] = l[q] => n = q
      /\ IsTable(t) /\ Linked(t)
  BY DEF Sound, IsList
<1>3. i \in Valid(t) /\ j = t[i].next /\ j # 0 /\ i # j
  BY <1>1, <1>2
<1> HIDE DEF i, j
<1>4. TakesOver(t, i, j, u)
  BY DEF i, j
<1>5. /\ IsTable(u) /\ Linked(u) /\ Valid(u) = Valid(t) \ {j}
      /\ End(u, i) = End(t, j)
      /\ \A d \in Valid(u) \ {i} : u[d] = t[d]
  BY <1>2, <1>3, <1>4, AbsorbedLinked
<1>6. u[i].next = t[j].next /\ i \in Valid(u)
  BY <1>3, <1>4, <1>5 DEF TakesOver
<1>7. /\ m = [n \in 1 .. Len(l) - 1 |-> m[n]]
      /\ \A n \in 1 .. Len(l) - 1 : m[n] = IF n < p + 1 THEN l[n] ELSE l[n + 1]
  BY DEF Removed
<1> HIDE DEF m
<1>8. \A n \in 1 .. Len(l) - 1 : n <= p => m[n] = l[n] /\ l[n] # j
  BY <1>1, <1>2, <1>7 DEF j
<1>9. \A n \in 1 .. Len(l) - 1 : n > p => m[n] = l[n + 1] /\ l[n + 1] # j /\ l[n + 1] # i
  <2> TAKE n \in 1 .. Len(l) - 1
  <2> HAVE n > p
  <2>1. n + 1 \in 1 .. Len(l) /\ n + 1 # p + 1 /\ n + 1 # p /\ ~(n < p + 1)
    BY <1>1
  <2>. QED BY <1>1, <1>2, <1>7, <2>1 DEF i, j
<1>10. \A n \in 1 .. Len(l) - 1 : m[n] \in Valid(u)
  <2> TAKE n \in 1 .. Len(l) - 1
  <2>1. n \in 1 .. Len(l) /\ n + 1 \in 1 .. Len(l) /\ (n <= p \/ n > p)
    BY <1>1
  <2>. QED BY <1>1, <1>5, <1>8, <1>9, <2>1
<1>11. m \in Seq(Valid(u)) /\ Len(m) = Len(l) - 1
  BY <1>1, <1>7, <1>10, FunctionIsSeq
<1>12. ASSUME NEW n \in 1 .. Len(m) - 1 PROVE u[m[n]].next = m[n + 1]
  <2>1. n \in 1 .. Len(l) - 1 /\ n + 1 \in 1 .. Len(l) - 1 /\ n + 1 \in 1 .. Len(l)
    BY <1>1, <1>11
  <2>2. CASE n < p
    <3>1. m[n] = l[n] /\ m[n + 1] = l[n + 1] /\ l[n] # i
      BY <1>1, <1>2, <1>8, <2>1, <2>2 DEF i
    <3>2. u[m[n]] = t[l[n]]
      BY <1>5, <1>10, <2>1, <3>1
    <3>. QED BY <1>2, <2>1, <3>1, <3>2
  <2>3. CASE n = p
    <3>1. m[n] = i /\ m[n + 1] = l[(p + 1) + 1]
      BY <1>1, <1>8, <1>9, <2>1, <2>3 DEF i
    <3>2. p + 1 \in 1 .. Len(l) - 1
      BY <2>1, <2>3
    <3>3. t[j].next = l[(p + 1) + 1]
      BY <1>2, <3>2 DEF j
    <3>. QED BY <1>6, <3>1, <3>3
  <2>4. CASE n > p
    <3>1. m[n] = l[n + 1] /\ m[n + 1] = l[(n + 1) + 1] /\ l[n + 1] # i
      BY <1>1, <1>9, <2>1, <2>4
    <3>2. u[m[n]] = t[l[n + 1]]
      BY <1>5, <1>10, <2>1, <3>1
    <3>. QED BY <1>2, <2>1, <3>1, <3>2
  <2>. QED BY <1>1, <2>1, <2>2, <2>3, <2>4
<1>13. u[m[Len(m)]].next = 0
       /\ (End(t, l[Len(l)]) = Pages => End(u, m[Len(m)]) = Pages)
  <2>1. Len(m) = Len(l) - 1 /\ Len(m) \in 1 .. Len(l) - 1 /\ Len(m) + 1 = Len(l)
    BY <1>1, <1>11
  <2>2. CASE Len(m) = p
    <3>1. m[Len(m)] = i /\ j = l[Len(l)]
      BY <1>8, <2>1, <2>2 DEF i, j
    <3>. QED BY <1>2, <1>5, <1>6, <3>1
  <2>3. CASE Len(m) > p
    <3>1. m[Len(m)] = l[Len(l)] /\ l[Len(l)] # i
      BY <1>9, <2>1, <2>3
    <3>2. u[m[Len(m)]] = t[l[Len(l)]]
      BY <1>5, <1>10, <2>1, <3>1
    <3>. QED BY <1>2, <3>1, <3>2 DEF End
  <2>. QED BY <1>1, <2>1, <2>2, <2>3
<1>14. \A n, q \in 1 .. Len(m) : m[n] = m[q] => n = q
  <2> TAKE n, q \in 1 .. Len(m)
  <2>1. /\ n \in 1 .. Len(l) - 1 /\ q \in 1 .. Len(l) - 1
        /\ n \in 1 .. Len(l) /\ q \in 1 .. Len(l) /\ n + 1 \in 1 .. Len(l) /\ q + 1 \in 1 .. Len(l)
    BY <1>1, <1>11
  <2>2. n <= p /\ q <= p => (m[n] = m[q] => n = q)
    BY <1>2, <1>8, <2>1
  <2>3. n > p /\ q > p => (m[n] = m[q] => n + 1 = q + 1)
    BY <1>2, <1>9, <2>1
  <2>4. n <= p /\ q > p => (m[n] = m[q] => n = q + 1)
    BY <1>2, <1>8, <1>9, <2>1
  <2>5. n > p /\ q <= p => (m[n] = m[q] => n + 1 = q)
    BY <1>2, <1>8, <1>9, <2>1
  <2>. QED BY <1>1, <2>1, <2>2, <2>3, <2>4, <2>5
<1>15. m[1] = 1 /\ Len(m) >= 1
  BY <1>1, <1>2, <1>8, <1>11
<1>16. Sound(u, m)
  BY <1>5, <1>11, <1>12, <1>13, <1>14, <1>15 DEF Sound, IsList
<1>17. ASSUME Covers(t, l) PROVE Covers(u, m)
  <2>1. ASSUME NEW d \in Valid(u) PROVE \E n \in 1 .. Len(m) : m[n] = d
    <3>1. d \in Valid(t) /\ d # j
      BY <1>5
    <3>2. PICK n \in 1 .. Len(l) : l[n] = d
      BY <1>17, <3>1 DEF Covers
    <3>3. CASE n <= p
      <4>1. n \in 1 .. Len(m) /\ n \in 1 .. Len(l) - 1
        BY <1>1, <1>11, <3>3
      <4>. QED BY <1>8, <3>2, <3>3, <4>1
    <3>4. CASE n > p
      <4>1. n # p + 1
        BY <3>1, <3>2 DEF j
      <4>2. n - 1 \in 1 .. Len(m) /\ n - 1 \in 1 .. Len(l) - 1 /\ n - 1 > p /\ (n - 1) + 1 = n
        BY <1>1, <1>11, <3>4, <4>1
      <4>3. m[n - 1] = l[n]
        BY <1>9, <4>2
      <4>. QED BY <3>2, <4>2, <4>3
    <3>. QED BY <1>1, <3>3, <3>4
  <2>. QED BY <1>13, <1>17, <2>1 DEF Covers
<1>. QED BY <1>5, <1>11, <1>16, <1>17 DEF m, i, j

\* A block that is cut off from the list takes over the one behind it.
LEMMA AbsorbedOutside ==
  ASSUME NEW t, NEW l, Sound(t, l), NEW i \in Valid(t), \A n \in 1 .. Len(l) : l[n] # i,
         NEW j, j = t[i].next, j # 0, i # j, NEW u, TakesOver(t, i, j, u)
  PROVE  Sound(u, l)
<1>1. /\ Len(l) \in Nat \ {0} /\ \A n \in 1 .. Len(l) : l[n] \in Valid(t)
      /\ l = [n \in 1 .. Len(l) |-> l[n]]
  BY ListType DEF Sound, IsList
<1>2. /\ \A n \in 1 .. Len(l) - 1 : t[l[n]].next = l[n + 1]
      /\ t[l[Len(l)]].next = 0 /\ l[1] = 1
      /\ \A n, q \in 1 .. Len(l) : l[n] = l[q] => n = q
      /\ IsTable(t) /\ Linked(t)
  BY DEF Sound, IsList
<1>3. /\ IsTable(u) /\ Linked(u) /\ Valid(u) = Valid(t) \ {j}
      /\ \A d \in Valid(u) \ {i} : u[d] = t[d]
  BY <1>2, AbsorbedLinked
<1>4. ASSUME NEW n \in 1 .. Len(l) PROVE l[n] # j
  <2>1. CASE n = 1
    BY <1>2, <2>1 DEF Linked
  <2>2. CASE n # 1
    <3>1. n - 1 \in 1 .. Len(l) - 1 /\ n - 1 \in 1 .. Len(l) /\ (n - 1) + 1 = n
      BY <1>1, <2>2
    <3>2. t[l[n - 1]].next = l[n] /\ l[n - 1] \in Valid(t) /\ l[n - 1] # i
      BY <1>1, <1>2, <3>1
    <3>. QED BY <1>2, <3>2 DEF Linked
  <2>. QED BY <2>1, <2>2
<1>5. \A n \in 1 .. Len(l) : l[n] \in Valid(u) /\ u[l[n]] = t[l[n]]
  BY <1>1, <1>3, <1>4
<1>6. l \in Seq(Valid(u))
  BY <1>1, <1>5, FunctionIsSeq
<1>7. \A n \in 1 .. Len(l) - 1 : u[l[n]].next = l[n + 1]
  BY <1>1, <1>2, <1>5
<1>8. u[l[Len(l)]].next = 0
  BY <1>1, <1>2, <1>5
<1>. QED BY <1>1, <1>2, <1>3, <1>6, <1>7, <1>8 DEF Sound, IsList

\* A block that is not empty is at no other's place.
LEMMA WholeStarts ==
  ASSUME NEW t, IsTable(t), Whole(t), NEW i \in Valid(t), NEW j \in Valid(t), i # j
  PROVE  t[i].start # t[j].start
<1>1. /\ t[i].start \in Nat /\ t[i].pages \in Nat /\ t[i].pages > 0
      /\ t[j].start \in Nat /\ t[j].pages \in Nat /\ t[j].pages > 0
  BY TableType DEF Whole
<1>. QED BY <1>1 DEF Whole, End

LEMMA AbsorbedWhole ==
  ASSUME NEW t, IsTable(t), Linked(t), Whole(t),
         NEW i \in Valid(t), NEW j, j = t[i].next, j # 0, i # j, NEW u, TakesOver(t, i, j, u)
  PROVE  Whole(u)
<1>1. /\ Valid(u) = Valid(t) \ {j} /\ j \in Valid(t)
      /\ End(u, i) = End(t, j) /\ \A d \in Valid(u) : u[d].start = t[d].start
      /\ \A d \in Valid(u) \ {i} : u[d] = t[d]
  BY AbsorbedLinked
<1>2. u[i].pages = t[i].pages + t[j].pages /\ t[j].start = End(t, i)
  BY DEF TakesOver, Linked
<1>3. \A d \in Valid(t) : t[d].start \in Nat /\ t[d].pages \in Nat /\ t[d].pages > 0
  BY TableType DEF Whole
<1>4. \A d \in Valid(u) : u[d].pages > 0
  BY <1>1, <1>2, <1>3
<1>5. \A d \in Valid(u) \ {i} : End(u, d) = End(t, d)
  BY <1>1 DEF End
<1>6. ASSUME NEW d \in Valid(u) \ {i}
      PROVE  End(u, d) <= u[i].start \/ End(u, i) <= u[d].start
  <2>1. d \in Valid(t) /\ d # i /\ d # j
    BY <1>1
  <2>2. End(t, d) <= t[i].start \/ End(t, i) <= t[d].start
    BY <2>1 DEF Whole
  <2>3. End(t, d) <= t[j].start \/ End(t, j) <= t[d].start
    BY <1>1, <2>1 DEF Whole
  <2>4. /\ t[d].start \in Nat /\ t[d].pages > 0 /\ t[d].pages \in Nat
        /\ t[i].start \in Nat /\ t[i].pages \in Nat /\ t[j].pages \in Nat
        /\ End(t, d) = t[d].start + t[d].pages /\ End(t, i) = t[i].start + t[i].pages
        /\ End(t, j) = t[j].start + t[j].pages
    BY <1>1, <1>3, <2>1 DEF End
  <2>5. End(t, d) <= t[i].start \/ End(t, j) <= t[d].start
    BY <1>2, <2>2, <2>3, <2>4
  <2>6. i \in Valid(u)
    BY <1>1
  <2>. QED BY <1>1, <1>5, <2>5, <2>6
<1>7. ASSUME NEW c \in Valid(u), NEW d \in Valid(u), c # d
      PROVE  End(u, c) <= u[d].start \/ End(u, d) <= u[c].start
  <2>1. CASE c # i /\ d # i
    <3>1. End(t, c) <= t[d].start \/ End(t, d) <= t[c].start
      BY <1>1, <1>7 DEF Whole
    <3>. QED BY <1>1, <1>5, <2>1, <3>1
  <2>2. CASE c = i
    BY <1>6, <1>7, <2>2
  <2>3. CASE d = i
    BY <1>6, <1>7, <2>3
  <2>. QED BY <2>1, <2>2, <2>3
<1>. QED BY <1>4, <1>7 DEF Whole

LEMMA AbsorbedUse ==
  ASSUME NEW t, IsTable(t), Linked(t),
         NEW i \in Valid(t), NEW j, j = t[i].next, j # 0, i # j, NEW u, TakesOver(t, i, j, u),
         t[i].free, t[j].free
  PROVE  InUse(u) = InUse(t)
<1>1. /\ Valid(u) = Valid(t) \ {j} /\ i \in Valid(t)
      /\ \A d \in Valid(u) \ {i} : u[d] = t[d]
      /\ u[i].free = t[i].free
  <2>1. u[i].free = t[i].free
    BY DEF TakesOver
  <2>. QED BY <2>1, AbsorbedLinked
<1>2. {d \in Valid(u) : ~u[d].free} = {d \in Valid(t) : ~t[d].free}
  BY <1>1
<1>3. \A d \in {c \in Valid(t) : ~t[c].free} : u[d] = t[d]
  BY <1>1
<1>. QED BY <1>2, <1>3 DEF InUse

\* The loop of free is at place p of the list m; no two free blocks touch before it.
FreeApartUpTo(t, m, p) ==
  \A n \in 1 .. p - 1 : ~(t[m[n]].free /\ t[m[n + 1]].free)

Tables(n) == {t \in Seq(Page!Descriptor) : IsTable(t) /\ Len(t) = n}

AtPlace(s, m, p) ==
  /\ Sound(s.table, m) /\ p \in 1 .. Len(m) /\ s.at = m[p]
  /\ FreeApartUpTo(s.table, m, p)

\* What a round leaves as it is.
SameBlocks(t, l, u, m) ==
  /\ Len(u) = Len(t) /\ InUse(u) = InUse(t)
  /\ Covers(t, l) => Covers(u, m)
  /\ Whole(t) => Whole(u)

LEMMA RoundJoins ==
  ASSUME NEW N, NEW s \in [table : Tables(N), at : Nat], NEW m, NEW p, AtPlace(s, m, p),
         p < Len(m), s.table[m[p]].free, s.table[m[p + 1]].free
  PROVE  \E w :
           /\ Page!Round(s) \in [table : Tables(N), at : Nat]
           /\ AtPlace(Page!Round(s), w, p) /\ Len(w) = Len(m) - 1
           /\ SameBlocks(s.table, m, Page!Round(s).table, w)
<1> DEFINE t == s.table
           i == m[p]
           j == m[p + 1]
           u == Page!Absorbed(t, i, j)
           w == Removed(m, p + 1)
<1>1. /\ Sound(t, m) /\ p \in 1 .. Len(m) /\ s.at = i /\ FreeApartUpTo(t, m, p)
      /\ t \in Tables(N) /\ s = [table |-> t, at |-> s.at] /\ s.at \in Nat
  BY DEF AtPlace
<1> HIDE DEF t
<1>2. /\ Len(m) \in Nat \ {0} /\ p \in 1 .. Len(m) - 1 /\ p + 1 \in 1 .. Len(m) /\ p \in Nat
      /\ \A n \in 1 .. Len(m) : m[n] \in Valid(t) /\ m[n] \in 1 .. Len(t)
  BY <1>1, ListType
<1>3. /\ IsTable(t) /\ Linked(t) /\ t[i].next = j /\ i # j
  BY <1>1, <1>2 DEF Sound, IsList
<1>4. /\ i \in Valid(t) /\ i \in 1 .. Len(t) /\ j \in 1 .. Len(t) /\ i # 0 /\ j # 0 /\ Len(t) \in Nat
  BY <1>2, <1>3, TableType
<1>5. t[i].free /\ t[j].free
  BY DEF t
<1>6. t[i].start + t[i].pages = t[j].start
  BY <1>3, <1>4 DEF Linked, End
<1>7. Page!Behind(t, i) = j /\ Page!Joinable(t, i, j)
  BY <1>3, <1>4, <1>5, <1>6 DEF Page!Behind, Page!Joinable
<1> HIDE DEF i, j
<1>8. Page!Round(s) = [s EXCEPT !.table = u]
  BY <1>1, <1>4, <1>7 DEF Page!Round, t
<1>9. Page!Round(s) = [table |-> u, at |-> i]
  BY <1>1, <1>8
<1>10. TakesOver(t, i, j, u)
  BY <1>3, <1>4, AbsorbedIs
<1> HIDE DEF u
<1>11. TakesOver(t, m[p], m[p + 1], u)
  BY <1>10 DEF i, j
<1> HIDE DEF w
<1>12. /\ Sound(u, w) /\ Len(w) = Len(m) - 1 /\ (Covers(t, m) => Covers(u, w))
  BY <1>1, <1>2, <1>11, AbsorbedInList DEF w
<1>13. InUse(u) = InUse(t)
  BY <1>3, <1>4, <1>5, <1>10, AbsorbedUse
<1>14. Whole(t) => Whole(u)
  BY <1>3, <1>4, <1>10, AbsorbedWhole
<1>15. \A d \in 1 .. Len(t) : u[d].free = t[d].free
  BY <1>3, <1>4, <1>10, AbsorbedLinked
<1>16. IsTable(u) /\ Len(u) = Len(t) /\ u \in Tables(N)
  BY <1>1, <1>10 DEF TakesOver, Tables, IsTable
<1>17. p \in 1 .. Len(w) /\ \A n \in 1 .. p : w[n] = m[n]
  BY <1>2, <1>12 DEF w, Removed
<1>18. FreeApartUpTo(u, w, p)
  <2> SUFFICES ASSUME NEW n \in 1 .. p - 1 PROVE ~(u[w[n]].free /\ u[w[n + 1]].free)
    BY DEF FreeApartUpTo
  <2>1. n \in 1 .. p /\ n + 1 \in 1 .. p /\ n \in 1 .. Len(m) /\ n + 1 \in 1 .. Len(m)
    BY <1>2
  <2>2. ~(t[m[n]].free /\ t[m[n + 1]].free)
    BY <1>1 DEF FreeApartUpTo
  <2>. QED BY <1>2, <1>15, <1>17, <2>1, <2>2
<1>19. w[p] = i
  BY <1>2, <1>17 DEF i
<1>20. AtPlace(Page!Round(s), w, p)
  BY <1>9, <1>12, <1>17, <1>18, <1>19 DEF AtPlace
<1>21. Page!Round(s) \in [table : Tables(N), at : Nat]
  BY <1>4, <1>9, <1>16
<1>22. SameBlocks(s.table, m, Page!Round(s).table, w)
  BY <1>9, <1>12, <1>13, <1>14, <1>16 DEF SameBlocks, t
<1>. QED BY <1>12, <1>20, <1>21, <1>22

LEMMA RoundGoesOn ==
  ASSUME NEW N, NEW s \in [table : Tables(N), at : Nat], NEW m, NEW p, AtPlace(s, m, p),
         p < Len(m), ~(s.table[m[p]].free /\ s.table[m[p + 1]].free)
  PROVE  /\ Page!Round(s) \in [table : Tables(N), at : Nat]
         /\ AtPlace(Page!Round(s), m, p + 1)
         /\ Page!Round(s).table = s.table
<1> DEFINE t == s.table
           i == m[p]
           j == m[p + 1]
<1>1. /\ Sound(t, m) /\ p \in 1 .. Len(m) /\ s.at = i /\ FreeApartUpTo(t, m, p)
      /\ t \in Tables(N) /\ s = [table |-> t, at |-> s.at] /\ s.at \in Nat
  BY DEF AtPlace
<1>2. ~(t[i].free /\ t[j].free)
  OBVIOUS
<1> HIDE DEF t
<1>3. /\ Len(m) \in Nat \ {0} /\ p \in 1 .. Len(m) - 1 /\ p + 1 \in 1 .. Len(m) /\ p \in Nat
      /\ \A n \in 1 .. Len(m) : m[n] \in Valid(t) /\ m[n] \in 1 .. Len(t)
  BY <1>1, ListType
<1>4. /\ IsTable(t) /\ t[i].next = j
  BY <1>1, <1>3 DEF Sound, IsList
<1>5. /\ i \in 1 .. Len(t) /\ j \in 1 .. Len(t) /\ i # 0 /\ j # 0 /\ Len(t) \in Nat /\ j \in Nat
  BY <1>3, <1>4, TableType
<1>6. Page!Behind(t, i) = j /\ ~Page!Joinable(t, i, j)
  BY <1>2, <1>4, <1>5 DEF Page!Behind, Page!Joinable
<1> HIDE DEF i, j
<1>7. Page!Round(s) = [table |-> t, at |-> j]
  BY <1>1, <1>5, <1>6 DEF Page!Round, t
<1>8. FreeApartUpTo(t, m, p + 1)
  <2> SUFFICES ASSUME NEW n \in 1 .. (p + 1) - 1 PROVE ~(t[m[n]].free /\ t[m[n + 1]].free)
    BY DEF FreeApartUpTo
  <2>1. CASE n = p
    BY <1>2, <2>1 DEF i, j
  <2>2. CASE n # p
    <3>1. n \in 1 .. p - 1
      BY <1>3, <2>2
    <3>. QED BY <1>1, <3>1 DEF FreeApartUpTo
  <2>. QED BY <2>1, <2>2
<1>9. AtPlace(Page!Round(s), m, p + 1)
  BY <1>1, <1>3, <1>7, <1>8 DEF AtPlace, j
<1>. QED BY <1>1, <1>5, <1>7, <1>9 DEF t

LEMMA RoundRests ==
  ASSUME NEW s, NEW m, NEW p, AtPlace(s, m, p), p = Len(m)
  PROVE  Page!Round(s) = s
<1>1. s.table[s.at].next = 0
  BY DEF AtPlace, Sound, IsList
<1>2. Page!Behind(s.table, s.at) = 0
  BY <1>1 DEF Page!Behind
<1>. QED BY <1>2 DEF Page!Round

LEMMA SameBlocksTransitive ==
  ASSUME NEW t, NEW l, NEW u, NEW m, NEW v, NEW w, SameBlocks(t, l, u, m), SameBlocks(u, m, v, w)
  PROVE  SameBlocks(t, l, v, w)
  BY DEF SameBlocks

\* After n rounds the loop is at the end of the list, or has fewer than n fewer to go.
RoundsDone(t, l, s, n) ==
  \E m, p : /\ AtPlace(s, m, p) /\ SameBlocks(t, l, s.table, m)
            /\ p = Len(m) \/ Len(m) - p + n <= Len(l) - 1

LEMMA RoundDone ==
  ASSUME NEW N, NEW t, NEW l, NEW s \in [table : Tables(N), at : Nat], NEW n \in Nat,
         Len(l) \in Nat, RoundsDone(t, l, s, n)
  PROVE  /\ Page!Round(s) \in [table : Tables(N), at : Nat]
         /\ RoundsDone(t, l, Page!Round(s), n + 1)
<1>1. PICK m, p : /\ AtPlace(s, m, p) /\ SameBlocks(t, l, s.table, m)
                  /\ p = Len(m) \/ Len(m) - p + n <= Len(l) - 1
  BY DEF RoundsDone
<1>2. Sound(s.table, m) /\ p \in 1 .. Len(m)
  BY <1>1 DEF AtPlace
<1>3. Len(m) \in Nat /\ p \in Nat
  BY <1>2, ListType
<1>4. CASE p = Len(m)
  <2>1. Page!Round(s) = s
    BY <1>1, <1>4, RoundRests
  <2>. QED BY <1>1, <1>4, <2>1 DEF RoundsDone
<1>5. CASE p < Len(m) /\ s.table[m[p]].free /\ s.table[m[p + 1]].free
  <2>1. PICK w :
           /\ Page!Round(s) \in [table : Tables(N), at : Nat]
           /\ AtPlace(Page!Round(s), w, p) /\ Len(w) = Len(m) - 1
           /\ SameBlocks(s.table, m, Page!Round(s).table, w)
    BY <1>1, <1>5, RoundJoins
  <2>2. SameBlocks(t, l, Page!Round(s).table, w)
    BY <1>1, <2>1, SameBlocksTransitive
  <2>3. Len(w) - p + (n + 1) <= Len(l) - 1
    BY <1>1, <1>3, <1>5, <2>1
  <2>. QED BY <2>1, <2>2, <2>3 DEF RoundsDone
<1>6. CASE p < Len(m) /\ ~(s.table[m[p]].free /\ s.table[m[p + 1]].free)
  <2>1. /\ Page!Round(s) \in [table : Tables(N), at : Nat]
        /\ AtPlace(Page!Round(s), m, p + 1)
        /\ Page!Round(s).table = s.table
    BY <1>1, <1>6, RoundGoesOn
  <2>2. Len(m) - (p + 1) + (n + 1) <= Len(l) - 1
    BY <1>1, <1>3, <1>6
  <2>. QED BY <1>1, <2>1, <2>2 DEF RoundsDone
<1>. QED BY <1>2, <1>3, <1>4, <1>5, <1>6

\* What the whole loop comes to.
LEMMA JoinedIs ==
  ASSUME NEW t, NEW l, Sound(t, l)
  PROVE  \E m : /\ Sound(Page!Joined(t), m) /\ SameBlocks(t, l, Page!Joined(t), m)
                /\ NoneJoinable(Page!Joined(t), m)
<1> DEFINE N == Len(t)
           S == [table : Tables(N), at : Nat]
           X == {s \in S : \E n \in Nat : RoundsDone(t, l, s, n)}
           x == [table |-> t, at |-> 1]
           F == [k \in 1 .. N |-> [s \in X |-> Page!Round(s)]]
           Loop(h) == [k \in 0 .. N |-> IF k = 0 THEN x ELSE Page!Round(h[k - 1])]
           made == CHOOSE h : h = Loop(h)
<1>1. /\ N \in Nat /\ Len(l) \in Nat \ {0} /\ Len(l) <= N /\ t \in Tables(N)
  BY TableType, ListType, ListLength DEF Sound, Tables, IsTable
<1>2. x \in S /\ RoundsDone(t, l, x, 0)
  <2>1. AtPlace(x, l, 1)
    BY <1>1 DEF AtPlace, FreeApartUpTo, Sound, IsList
  <2>2. SameBlocks(t, l, x.table, l)
    BY DEF SameBlocks
  <2>3. Len(l) - 1 + 0 <= Len(l) - 1
    BY <1>1
  <2>. QED BY <1>1, <2>1, <2>2, <2>3 DEF RoundsDone
<1> HIDE DEF S
<1>3. ASSUME NEW s \in S, NEW n \in Nat, RoundsDone(t, l, s, n)
      PROVE  Page!Round(s) \in S /\ RoundsDone(t, l, Page!Round(s), n + 1)
  BY <1>1, <1>3, RoundDone DEF S
<1> HIDE DEF x, N
<1>4. x \in X /\ \A s \in X : Page!Round(s) \in X
  BY <1>2, <1>3
<1> HIDE DEF X
<1>5. F \in Rounds(N, X) /\ \A k \in 1 .. N, s \in X : F[k][s] = Page!Round(s)
  BY <1>4 DEF Rounds
<1> HIDE DEF F
<1>6. PICK h : IsCourse(h, N, X, x, F)
  BY <1>1, <1>4, <1>5, CourseExists
<1>7. h \in [0 .. N -> X] /\ h[0] = x /\ \A k \in 1 .. N : h[k] = F[k][h[k - 1]]
  BY <1>6 DEF IsCourse
<1>8. \A k \in 1 .. N : k - 1 \in 0 .. N
  BY <1>1
<1>9. \A k \in 1 .. N : h[k] = Page!Round(h[k - 1])
  BY <1>5, <1>7, <1>8
<1>10. h = Loop(h)
  BY <1>1, <1>7, <1>9
<1>11. made = Loop(made)
  <2> HIDE DEF Loop
  <2>. QED BY <1>10
<1> HIDE DEF made
<1>12. made[0] = x /\ \A k \in 1 .. N : made[k] = Page!Round(made[k - 1])
  <2>1. \A k \in 0 .. N : made[k] = IF k = 0 THEN x ELSE Page!Round(made[k - 1])
    BY <1>11
  <2>. QED BY <1>1, <2>1
<1> HIDE DEF Loop
<1> DEFINE T == {k \in 0 .. N : made[k] \in S /\ RoundsDone(t, l, made[k], k)}
<1>13. 0 \in T
  BY <1>1, <1>2, <1>12
<1>14. ASSUME NEW k \in 0 .. N - 1, k \in T PROVE k + 1 \in T
  <2>1. k + 1 \in 1 .. N /\ k + 1 \in 0 .. N /\ (k + 1) - 1 = k /\ k \in Nat
    BY <1>1
  <2>2. made[k + 1] = Page!Round(made[k])
    BY <1>12, <2>1
  <2>. QED BY <1>3, <1>14, <2>1, <2>2
<1> HIDE DEF T
<1>15. N \in T
  <2>1. 0 .. N \subseteq T
    BY <1>1, <1>13, <1>14, InductionUpTo
  <2>. QED BY <1>1, <2>1
<1>16. PICK m, p : /\ AtPlace(made[N], m, p) /\ SameBlocks(t, l, made[N].table, m)
                   /\ p = Len(m) \/ Len(m) - p + N <= Len(l) - 1
  BY <1>15 DEF T, RoundsDone
<1>17. p = Len(m) /\ Sound(made[N].table, m)
  <2>1. Sound(made[N].table, m) /\ p \in 1 .. Len(m)
    BY <1>16 DEF AtPlace
  <2>2. Len(m) \in Nat
    BY <2>1, ListType
  <2>. QED BY <1>1, <1>16, <2>1, <2>2
<1>18. NoneJoinable(made[N].table, m)
  BY <1>16, <1>17 DEF AtPlace, FreeApartUpTo, NoneJoinable
<1>19. Page!Joined(t) = made[N].table
  BY DEF Page!Joined, made, Loop, x, N
<1>. QED BY <1>16, <1>17, <1>18, <1>19

LEMMA MinIs ==
  ASSUME NEW S \in SUBSET Nat, S # {}
  PROVE  Page!Min(S) \in S /\ \A k \in S : Page!Min(S) <= k
<1>1. PICK m \in S : \A k \in S : m <= k
  BY LeastOf
<1>. QED BY <1>1 DEF Page!Min

\* The descriptor that a search by address finds.
LEMMA SeekIs ==
  ASSUME NEW t, IsTable(t), NEW ptr
  PROVE  \/ Page!Seek(t, ptr) = 0 /\ \A i \in 1 .. Len(t) : t[i].start # ptr
         \/ /\ Page!Seek(t, ptr) \in 1 .. Len(t) /\ t[Page!Seek(t, ptr)].start = ptr
            /\ \A i \in 1 .. Len(t) : t[i].start = ptr => Page!Seek(t, ptr) <= i
<1> DEFINE S == {i \in DOMAIN t : t[i].start = ptr}
<1>1. DOMAIN t = 1 .. Len(t) /\ Len(t) \in Nat
  BY TableType
<1>2. S \in SUBSET Nat /\ S \subseteq 1 .. Len(t)
  BY <1>1
<1>3. Page!Seek(t, ptr) = IF S = {} THEN 0 ELSE Page!Min(S)
  BY DEF Page!Seek
<1>4. CASE S = {}
  BY <1>1, <1>3, <1>4
<1>5. CASE S # {}
  <2>1. Page!Min(S) \in S /\ \A k \in S : Page!Min(S) <= k
    <3> HIDE DEF S
    <3>. QED BY <1>2, <1>5, MinIs
  <2>2. Page!Seek(t, ptr) = Page!Min(S)
    BY <1>3, <1>5
  <2>. QED BY <1>1, <1>2, <2>1, <2>2
<1>. QED BY <1>4, <1>5

\* Where a new descriptor goes.
LEMMA PlaceIs ==
  ASSUME NEW t, IsTable(t)
  PROVE  \/ Page!Place(t) = 0
         \/ Page!Place(t) \in 1 .. Len(t) /\ Page!Place(t) \notin Valid(t)
         \/ Page!Place(t) = Len(t) + 1 /\ Len(t) < Descriptors
<1> DEFINE S == {i \in DOMAIN t : ~t[i].valid}
<1>1. DOMAIN t = 1 .. Len(t) /\ Len(t) \in Nat
  BY TableType
<1>2. S \in SUBSET Nat /\ S \subseteq 1 .. Len(t)
  BY <1>1
<1>3. Page!Place(t) =
        IF S # {} THEN Page!Min(S) ELSE IF Len(t) < Descriptors THEN Len(t) + 1 ELSE 0
  BY DEF Page!Place
<1>4. CASE S # {}
  <2>1. Page!Min(S) \in S
    <3> HIDE DEF S
    <3>. QED BY <1>2, <1>4, MinIs
  <2>. QED BY <1>2, <1>3, <1>4, <2>1 DEF Valid
<1>. QED BY <1>3, <1>4

\* The block that a request is given.
LEMMA FirstFitIs ==
  ASSUME NEW t, NEW l, Sound(t, l), NEW pages
  PROVE  \/ /\ Page!FirstFit(t, pages) = 0
            /\ \A p \in 1 .. Len(l) : ~Page!Fits(t, l[p], pages)
         \/ \E p \in 1 .. Len(l) :
              Page!FirstFit(t, pages) = l[p] /\ Page!Fits(t, l[p], pages)
<1> DEFINE S == {p \in DOMAIN l : Page!Fits(t, l[p], pages)}
<1>1. Page!List(t) = l /\ DOMAIN l = 1 .. Len(l) /\ Len(l) \in Nat
  BY ListIs, ListType
<1>2. S \in SUBSET Nat /\ S \subseteq 1 .. Len(l)
  BY <1>1
<1>3. Page!FirstFit(t, pages) = IF S = {} THEN 0 ELSE l[Page!Min(S)]
  BY <1>1 DEF Page!FirstFit
<1>4. CASE S = {}
  BY <1>1, <1>3, <1>4
<1>5. CASE S # {}
  <2>1. Page!Min(S) \in S
    <3> HIDE DEF S
    <3>. QED BY <1>2, <1>5, MinIs
  <2>2. Page!FirstFit(t, pages) = l[Page!Min(S)]
    BY <1>3, <1>5
  <2>. QED BY <1>2, <2>1, <2>2
<1>. QED BY <1>4, <1>5

\* u is the table t after the first pages of block i went to a caller, and the rest of it
\* to descriptor k.
SplitInto(t, i, pages, k, u) ==
  /\ IsTable(u) /\ Len(t) <= Len(u) /\ k \in 1 .. Len(u) /\ k \notin Valid(t)
  /\ \A d \in 1 .. Len(t) : d # i /\ d # k => u[d] = t[d]
  /\ \A d \in 1 .. Len(u) : d \in 1 .. Len(t) \/ d = k
  /\ u[i].pages = pages /\ u[i].next = k /\ u[i].free = FALSE
  /\ u[i].start = t[i].start /\ u[i].valid = TRUE
  /\ u[k].start = t[i].start + pages /\ u[k].pages = t[i].pages - pages
  /\ u[k].next = t[i].next /\ u[k].free = TRUE /\ u[k].valid = TRUE

\* The same with no descriptor left.
SplitOff(t, i, pages, u) ==
  /\ IsTable(u) /\ Len(u) = Len(t)
  /\ \A d \in 1 .. Len(t) : d # i => u[d] = t[d]
  /\ u[i].pages = pages /\ u[i].next = 0 /\ u[i].free = FALSE
  /\ u[i].start = t[i].start /\ u[i].valid = TRUE

IsCut(t, i, pages, k, u) ==
  u = [t EXCEPT ![i].pages = pages, ![i].free = FALSE, ![i].next = k]

LEMMA CutType ==
  ASSUME NEW t, IsTable(t), NEW i \in Valid(t), NEW pages \in Nat, NEW k \in 0 .. Descriptors,
         NEW u, IsCut(t, i, pages, k, u)
  PROVE  /\ u \in Seq(Page!Descriptor) /\ Len(u) = Len(t) /\ DOMAIN u = 1 .. Len(t)
         /\ \A d \in 1 .. Len(t) : d # i => u[d] = t[d]
         /\ u[i].pages = pages /\ u[i].next = k /\ u[i].free = FALSE
         /\ u[i].start = t[i].start /\ u[i].valid = TRUE
<1>1. /\ Len(t) \in Nat /\ DOMAIN t = 1 .. Len(t) /\ i \in 1 .. Len(t) /\ t[i].valid
      /\ \A d \in 1 .. Len(t) : t[d] \in Page!Descriptor
  BY TableType DEF Valid
<1>2. /\ DOMAIN u = 1 .. Len(t) /\ u = [d \in 1 .. Len(t) |-> u[d]]
      /\ u[i] = [t[i] EXCEPT !.pages = pages, !.free = FALSE, !.next = k]
      /\ \A d \in 1 .. Len(t) : d # i => u[d] = t[d]
  BY <1>1 DEF Page!Descriptor, IsCut
<1>3. \A d \in 1 .. Len(t) : u[d] \in Page!Descriptor
  <2>1. [t[i] EXCEPT !.pages = pages, !.free = FALSE, !.next = k] \in Page!Descriptor
    BY <1>1 DEF Page!Descriptor
  <2>2. u[i] \in Page!Descriptor
    BY <1>2, <2>1
  <2>. QED BY <1>1, <1>2, <2>2
<1>4. u \in Seq(Page!Descriptor) /\ Len(u) = Len(t)
  <2>1. Len(t) \in Nat /\ u = [d \in 1 .. Len(t) |-> u[d]]
    BY <1>1, <1>2
  <2>. QED BY <1>3, <2>1
<1>5. /\ u[i].pages = pages /\ u[i].next = k /\ u[i].free = FALSE
      /\ u[i].start = t[i].start /\ u[i].valid = t[i].valid
  <2>1. ASSUME NEW r \in Page!Descriptor, NEW x, x = [r EXCEPT !.pages = pages, !.free = FALSE, !.next = k]
        PROVE  /\ x.pages = pages /\ x.next = k /\ x.free = FALSE
               /\ x.start = r.start /\ x.valid = r.valid
    BY <2>1 DEF Page!Descriptor
  <2>2. t[i] \in Page!Descriptor
    BY <1>1
  <2>. QED BY <1>2, <2>1, <2>2
<1>6. t[i].valid = TRUE
  BY <1>1 DEF Page!Descriptor
<1>. QED BY <1>2, <1>4, <1>5, <1>6

LEMMA SplitIs ==
  ASSUME NEW t, IsTable(t), NEW i \in Valid(t), NEW pages \in Nat, t[i].pages > pages
  PROVE  \/ Page!Place(t) = 0 /\ SplitOff(t, i, pages, Page!Split(t, i, pages))
         \/ /\ Page!Place(t) # 0
            /\ SplitInto(t, i, pages, Page!Place(t), Page!Split(t, i, pages))
<1> DEFINE k == Page!Place(t)
           rest == [t[i] EXCEPT !.start = @ + pages, !.pages = @ - pages, !.free = TRUE]
           cut == [t EXCEPT ![i].pages = pages, ![i].free = FALSE, ![i].next = k]
           u == Page!Split(t, i, pages)
<1>1. /\ Len(t) \in Nat /\ DOMAIN t = 1 .. Len(t) /\ i \in 1 .. Len(t) /\ t[i].valid
      /\ \A d \in 1 .. Len(t) : t[d] \in Page!Descriptor /\ t[d].valid \in BOOLEAN
      /\ t[i].start \in Nat /\ t[i].pages \in Nat /\ t[i].next \in Nat
      /\ \A d \in 1 .. Len(t) : t[d].next \in 0 .. Len(t)
      /\ Len(t) <= Descriptors /\ Descriptors \in Nat /\ Len(t) >= 1
  <2>1. Len(t) \in 1 .. Descriptors /\ \A d \in DOMAIN t : t[d].next \in 0 .. Len(t)
    BY DEF IsTable
  <2>2. i \in DOMAIN t /\ t[i].valid /\ Descriptors \in Nat
    BY PageTypes DEF Valid
  <2>3. Len(t) <= Descriptors /\ Len(t) >= 1
    BY <2>1, <2>2
  <2>. QED BY <2>1, <2>2, <2>3, TableType
<1>2. \/ k = 0
      \/ k \in 1 .. Len(t) /\ k \notin Valid(t)
      \/ k = Len(t) + 1 /\ Len(t) < Descriptors
  BY PlaceIs
<1>3. k \in 0 .. Descriptors
  BY <1>1, <1>2
<1>4. u = IF k = 0 THEN cut ELSE IF k > Len(t) THEN Append(cut, rest) ELSE [cut EXCEPT ![k] = rest]
  BY DEF Page!Split
<1>5. /\ rest \in Page!Descriptor
      /\ rest.start = t[i].start + pages /\ rest.pages = t[i].pages - pages
      /\ rest.next = t[i].next /\ rest.free = TRUE /\ rest.valid = TRUE
  <2>1. t[i].start + pages \in Nat /\ t[i].pages - pages \in Nat /\ t[i] \in Page!Descriptor
    BY <1>1
  <2>2. rest \in Page!Descriptor
    BY <2>1 DEF Page!Descriptor
  <2>3. t[i].valid = TRUE
    BY <1>1
  <2>. QED BY <2>1, <2>2, <2>3 DEF Page!Descriptor
<1>6. IsCut(t, i, pages, k, cut)
  BY DEF IsCut
<1> HIDE DEF rest, cut, k, u
<1>7. /\ cut \in Seq(Page!Descriptor) /\ Len(cut) = Len(t) /\ DOMAIN cut = 1 .. Len(t)
      /\ \A d \in 1 .. Len(t) : d # i => cut[d] = t[d]
      /\ cut[i].pages = pages /\ cut[i].next = k /\ cut[i].free = FALSE
      /\ cut[i].start = t[i].start /\ cut[i].valid = TRUE
  BY <1>3, <1>6, CutType
<1>8. CASE k = 0
  <2>1. \A d \in 1 .. Len(t) : cut[d].next \in 0 .. Len(t)
    BY <1>1, <1>7, <1>8
  <2>2. IsTable(cut)
    BY <1>1, <1>7, <2>1 DEF IsTable
  <2>3. SplitOff(t, i, pages, cut)
    BY <1>7, <1>8, <2>2 DEF SplitOff
  <2>. QED BY <1>4, <1>8, <2>3 DEF k, u
<1>9. CASE k = Len(t) + 1 /\ Len(t) < Descriptors
  <2>1. u = Append(cut, rest)
    BY <1>1, <1>4, <1>9
  <2>2. /\ u \in Seq(Page!Descriptor) /\ Len(u) = Len(t) + 1 /\ u[k] = rest
        /\ \A d \in 1 .. Len(t) : u[d] = cut[d]
    BY <1>1, <1>5, <1>7, <1>9, <2>1
  <2>3. DOMAIN u = 1 .. Len(u) /\ \A d \in 1 .. Len(u) : d \in 1 .. Len(t) \/ d = k
    BY <1>1, <1>9, <2>2
  <2>4. \A d \in DOMAIN u : u[d].next \in 0 .. Len(u)
    <3>1. \A d \in 1 .. Len(t) : u[d].next \in 0 .. Len(u)
      BY <1>1, <1>7, <1>9, <2>2
    <3>2. u[k].next \in 0 .. Len(u)
      BY <1>1, <1>5, <2>2
    <3>. QED BY <2>3, <3>1, <3>2
  <2>5. IsTable(u)
    BY <1>1, <1>9, <2>2, <2>4 DEF IsTable
  <2>6. k \notin Valid(t) /\ k \in 1 .. Len(u) /\ k # i /\ k # 0 /\ Len(t) <= Len(u)
    BY <1>1, <1>9, <2>2 DEF Valid
  <2>7. /\ u[i].pages = pages /\ u[i].next = k /\ u[i].free = FALSE
        /\ u[i].start = t[i].start /\ u[i].valid = TRUE
    BY <1>1, <1>7, <2>2
  <2>8. \A d \in 1 .. Len(t) : d # i /\ d # k => u[d] = t[d]
    BY <1>7, <2>2
  <2>9. SplitInto(t, i, pages, k, u)
    BY <1>5, <2>2, <2>3, <2>5, <2>6, <2>7, <2>8 DEF SplitInto
  <2>. QED BY <2>6, <2>9 DEF k, u
<1>10. CASE k \in 1 .. Len(t) /\ k \notin Valid(t)
  <2>1. u = [cut EXCEPT ![k] = rest] /\ k # 0
    BY <1>1, <1>4, <1>10
  <2>2. /\ DOMAIN u = 1 .. Len(t) /\ u = [d \in 1 .. Len(t) |-> u[d]] /\ u[k] = rest
        /\ \A d \in 1 .. Len(t) : d # k => u[d] = cut[d]
    BY <1>7, <1>10, <2>1
  <2>3. \A d \in 1 .. Len(t) : u[d] \in Page!Descriptor
    BY <1>5, <1>7, <2>2
  <2>4. u \in Seq(Page!Descriptor) /\ Len(u) = Len(t)
    BY <1>1, <2>2, <2>3
  <2>5. k # i
    BY <1>10
  <2>6. \A d \in DOMAIN u : u[d].next \in 0 .. Len(u)
    BY <1>1, <1>5, <1>7, <1>10, <2>2, <2>4
  <2>7. IsTable(u)
    BY <1>1, <2>4, <2>6 DEF IsTable
  <2>8. /\ u[i].pages = pages /\ u[i].next = k /\ u[i].free = FALSE
        /\ u[i].start = t[i].start /\ u[i].valid = TRUE
    BY <1>1, <1>7, <2>2, <2>5
  <2>9. \A d \in 1 .. Len(t) : d # i /\ d # k => u[d] = t[d]
    BY <1>7, <2>2
  <2>10. SplitInto(t, i, pages, k, u)
    BY <1>1, <1>5, <1>10, <2>2, <2>4, <2>7, <2>8, <2>9 DEF SplitInto
  <2>. QED BY <2>1, <2>10 DEF k, u
<1>. QED BY <1>2, <1>8, <1>9, <1>10

LEMMA SplitOffSound ==
  ASSUME NEW t, NEW l, Sound(t, l), NEW p \in 1 .. Len(l), NEW pages \in Nat,
         t[l[p]].pages > pages, NEW u, SplitOff(t, l[p], pages, u)
  PROVE  Sound(u, Cut(l, p)) /\ Valid(u) = Valid(t)
<1> DEFINE i == l[p]
           m == Cut(l, p)
<1>1. /\ Len(l) \in Nat \ {0} /\ p \in Nat \ {0} /\ p <= Len(l)
      /\ \A n \in 1 .. Len(l) : l[n] \in Valid(t) /\ l[n] \in 1 .. Len(t)
  BY ListType
<1>2. /\ \A n \in 1 .. Len(l) - 1 : t[l[n]].next = l[n + 1]
      /\ l[1] = 1 /\ \A n, q \in 1 .. Len(l) : l[n] = l[q] => n = q
      /\ IsTable(t) /\ Linked(t)
  BY DEF Sound, IsList
<1>3. i \in Valid(t) /\ i \in 1 .. Len(t) /\ t[i].pages > pages
  BY <1>1
<1>4. /\ IsTable(u) /\ Len(u) = Len(t)
      /\ \A d \in 1 .. Len(t) : d # i => u[d] = t[d]
      /\ u[i].pages = pages /\ u[i].next = 0 /\ u[i].free = FALSE
      /\ u[i].start = t[i].start /\ u[i].valid = TRUE
  BY DEF SplitOff
<1>5. m = [n \in 1 .. p |-> m[n]] /\ \A n \in 1 .. p : m[n] = l[n]
  BY DEF Cut
<1>6. \A n \in 1 .. p : n \in 1 .. Len(l) /\ l[n] \in Valid(t) /\ (n # p => l[n] # i)
  BY <1>1, <1>2
<1>7. m[p] = i
  BY <1>1, <1>5
<1> HIDE DEF i, m
<1>8. Valid(u) = Valid(t)
  <2>1. DOMAIN u = 1 .. Len(t) /\ DOMAIN t = 1 .. Len(t)
    BY <1>2, <1>4, TableType
  <2>2. t[i].valid
    BY <1>3 DEF Valid
  <2>. QED BY <1>3, <1>4, <2>1, <2>2 DEF Valid
<1>9. /\ t[i].start \in Nat /\ t[i].pages \in Nat /\ Valid(t) \subseteq 1 .. Len(t)
      /\ End(u, i) = t[i].start + pages /\ End(t, i) = t[i].start + t[i].pages
      /\ Pages \in Nat
  BY <1>2, <1>3, <1>4, TableType, PageTypes DEF End
<1>10. \A d \in Valid(t) : u[d].start = t[d].start /\ (d # i => u[d] = t[d] /\ End(u, d) = End(t, d))
  BY <1>4, <1>9 DEF End
<1>11. Linked(u)
  <2>1. 1 \in Valid(u) /\ u[1].start = 0
    BY <1>2, <1>8, <1>10 DEF Linked
  <2>2. End(u, i) <= Pages
    <3>1. End(t, i) <= Pages
      BY <1>2, <1>3 DEF Linked
    <3>. QED BY <1>3, <1>9, <3>1
  <2>3. \A d \in Valid(u) : u[d].start < Pages /\ End(u, d) <= Pages
    BY <1>2, <1>8, <1>10, <2>2 DEF Linked
  <2>4. \A d \in Valid(u) : u[d].next # 0 => d # i /\ t[d].next = u[d].next
    BY <1>4, <1>8, <1>10
  <2>5. \A d \in Valid(u) : u[d].next # 0 =>
           u[d].next \in Valid(u) \ {1} /\ u[u[d].next].start = End(u, d)
    BY <1>2, <1>8, <1>10, <2>4 DEF Linked
  <2>6. \A c, d \in Valid(u) : u[c].next = u[d].next /\ u[c].next # 0 => c = d
    BY <1>2, <1>8, <2>4 DEF Linked
  <2>. QED BY <2>1, <2>3, <2>5, <2>6 DEF Linked
<1>12. m \in Seq(Valid(u)) /\ Len(m) = p
  <2>1. \A n \in 1 .. p : m[n] \in Valid(u)
    BY <1>5, <1>6, <1>8
  <2>. QED BY <1>1, <1>5, <2>1, FunctionIsSeq
<1>13. \A n \in 1 .. p - 1 : u[m[n]].next = m[n + 1]
  <2> TAKE n \in 1 .. p - 1
  <2>1. n \in 1 .. p /\ n + 1 \in 1 .. p /\ n # p /\ n \in 1 .. Len(l) - 1
    BY <1>1
  <2>2. m[n] = l[n] /\ m[n + 1] = l[n + 1]
    BY <1>5, <2>1
  <2>3. u[l[n]] = t[l[n]] /\ t[l[n]].next = l[n + 1]
    BY <1>2, <1>6, <1>10, <2>1
  <2>. QED BY <2>2, <2>3
<1>14. u[m[p]].next = 0 /\ m[1] = 1
  BY <1>1, <1>2, <1>4, <1>5, <1>7
<1>15. \A n, q \in 1 .. p : m[n] = m[q] => n = q
  BY <1>2, <1>5, <1>6
<1>16. Sound(u, m)
  BY <1>1, <1>4, <1>11, <1>12, <1>13, <1>14, <1>15 DEF Sound, IsList
<1>. QED BY <1>8, <1>16 DEF m

\* Block i of t has come into use with the given pages.
ComesToUse(t, i, pages, u) == InUse(u) = InUse(t) \cup {[ptr |-> t[i].start, pages |-> pages]}

LEMMA UseWith ==
  ASSUME NEW t, NEW u, NEW i, NEW pages,
         {d \in Valid(u) : ~u[d].free} = {d \in Valid(t) : ~t[d].free} \cup {i},
         \A d \in Valid(t) : ~t[d].free => u[d] = t[d],
         u[i].start = t[i].start, u[i].pages = pages
  PROVE  ComesToUse(t, i, pages, u)
<1> DEFINE R(v, d) == [ptr |-> v[d].start, pages |-> v[d].pages]
           S == {d \in Valid(t) : ~t[d].free}
<1>1. InUse(u) = {R(u, d) : d \in S \cup {i}} /\ InUse(t) = {R(t, d) : d \in S}
  BY DEF InUse
<1>2. \A d \in S : R(u, d) = R(t, d)
  OBVIOUS
<1>3. R(u, i) = [ptr |-> t[i].start, pages |-> pages]
  OBVIOUS
<1> HIDE DEF R, S
<1>4. InUse(u) = InUse(t) \cup {R(u, i)}
  BY <1>1, <1>2
<1>. QED BY <1>3, <1>4 DEF ComesToUse

LEMMA SplitOffUse ==
  ASSUME NEW t, NEW l, Sound(t, l), NEW p \in 1 .. Len(l), NEW pages \in Nat \ {0},
         t[l[p]].pages > pages, t[l[p]].free, NEW u, SplitOff(t, l[p], pages, u),
         Whole(t), NoneJoinable(t, l)
  PROVE  /\ Whole(u) /\ NoneJoinable(u, Cut(l, p))
         /\ ComesToUse(t, l[p], pages, u)
<1> DEFINE i == l[p]
           m == Cut(l, p)
<1>1. /\ Len(l) \in Nat \ {0} /\ p \in Nat \ {0} /\ p <= Len(l)
      /\ \A n \in 1 .. Len(l) : l[n] \in Valid(t) /\ l[n] \in 1 .. Len(t)
  BY ListType
<1>2. IsTable(t) /\ \A n, q \in 1 .. Len(l) : l[n] = l[q] => n = q
  BY DEF Sound, IsList
<1>3. i \in Valid(t) /\ i \in 1 .. Len(t) /\ t[i].pages > pages /\ t[i].free
  BY <1>1
<1>4. /\ \A d \in 1 .. Len(t) : d # i => u[d] = t[d]
      /\ u[i].pages = pages /\ u[i].free = FALSE /\ u[i].start = t[i].start
  BY DEF SplitOff
<1>5. Valid(u) = Valid(t) /\ Valid(t) \subseteq 1 .. Len(t)
  BY <1>2, SplitOffSound, TableType
<1>6. Len(m) = p /\ \A n \in 1 .. p : m[n] = l[n] /\ n \in 1 .. Len(l)
  <2>1. Sound(u, m) /\ m = [n \in 1 .. p |-> l[n]]
    BY SplitOffSound DEF Cut
  <2>. QED BY <1>1, <2>1
<1>7. m[p] = i
  BY <1>1, <1>6
<1> HIDE DEF i, m
<1>8. /\ t[i].start \in Nat /\ t[i].pages \in Nat
      /\ End(u, i) = t[i].start + pages /\ End(t, i) = t[i].start + t[i].pages
  BY <1>2, <1>3, <1>4, TableType DEF End
<1>9. \A d \in Valid(t) : u[d].start = t[d].start /\ (d # i => u[d] = t[d] /\ End(u, d) = End(t, d))
  BY <1>4, <1>5 DEF End
<1>10. \A d \in Valid(t) : t[d].start \in Nat /\ End(t, d) \in Nat
  BY <1>2, <1>5, TableType
<1>11. \A d \in Valid(t) : End(u, d) \in Nat /\ End(u, d) <= End(t, d)
  <2>1. End(u, i) \in Nat /\ End(u, i) <= End(t, i)
    BY <1>3, <1>8
  <2>. QED BY <1>9, <1>10, <2>1
<1>12. Whole(u)
  <2>1. \A d \in Valid(u) : u[d].pages > 0
    BY <1>4, <1>5, <1>9 DEF Whole
  <2>2. ASSUME NEW c \in Valid(u), NEW d \in Valid(u), c # d
        PROVE  End(u, c) <= u[d].start \/ End(u, d) <= u[c].start
    <3>1. End(t, c) <= t[d].start \/ End(t, d) <= t[c].start
      BY <1>5, <2>2 DEF Whole
    <3>2. End(u, c) \in Nat /\ End(u, c) <= End(t, c) /\ End(u, d) \in Nat /\ End(u, d) <= End(t, d)
      BY <1>5, <1>11
    <3>. QED BY <1>5, <1>9, <1>10, <3>1, <3>2
  <2>. QED BY <2>1, <2>2 DEF Whole
<1>13. NoneJoinable(u, m)
  <2> SUFFICES ASSUME NEW n \in 1 .. p - 1 PROVE ~(u[m[n]].free /\ u[m[n + 1]].free)
    BY <1>6 DEF NoneJoinable
  <2>1. n \in 1 .. p /\ n + 1 \in 1 .. p /\ n \in 1 .. Len(l) - 1
    BY <1>1
  <2>2. CASE n + 1 = p
    BY <1>4, <1>7, <2>2
  <2>3. CASE n + 1 # p
    <3>1. m[n] = l[n] /\ m[n + 1] = l[n + 1] /\ l[n] # i /\ l[n + 1] # i
      BY <1>1, <1>2, <1>6, <2>1, <2>3 DEF i
    <3>2. u[l[n]] = t[l[n]] /\ u[l[n + 1]] = t[l[n + 1]]
      BY <1>1, <1>4, <1>6, <2>1, <3>1
    <3>3. ~(t[l[n]].free /\ t[l[n + 1]].free)
      BY <2>1 DEF NoneJoinable
    <3>. QED BY <3>1, <3>2, <3>3
  <2>. QED BY <2>2, <2>3
<1>14. {d \in Valid(u) : ~u[d].free} = {d \in Valid(t) : ~t[d].free} \cup {i}
  BY <1>3, <1>4, <1>5, <1>9
<1>15. \A d \in Valid(t) : ~t[d].free => u[d] = t[d]
  BY <1>3, <1>9
<1>16. ComesToUse(t, i, pages, u)
  BY <1>4, <1>14, <1>15, UseWith
<1>. QED BY <1>12, <1>13, <1>16 DEF i, m

\* A block of the list is split, and the rest of it comes behind it.
LEMMA SplitIntoLinked ==
  ASSUME NEW t, IsTable(t), Linked(t), NEW i \in Valid(t), NEW pages \in Nat,
         t[i].pages > pages, NEW k, NEW u, SplitInto(t, i, pages, k, u)
  PROVE  /\ Linked(u) /\ Valid(u) = Valid(t) \cup {k} /\ k \notin Valid(t) /\ k # i
         /\ \A d \in Valid(t) : u[d].start = t[d].start /\ (d # i => u[d] = t[d])
         /\ End(u, k) = End(t, i) /\ End(u, i) = u[k].start
<1>1. /\ IsTable(u) /\ Len(t) <= Len(u) /\ k \in 1 .. Len(u) /\ k \notin Valid(t)
      /\ \A d \in 1 .. Len(t) : d # i /\ d # k => u[d] = t[d]
      /\ \A d \in 1 .. Len(u) : d \in 1 .. Len(t) \/ d = k
      /\ u[i].pages = pages /\ u[i].next = k /\ u[i].free = FALSE
      /\ u[i].start = t[i].start /\ u[i].valid = TRUE
      /\ u[k].start = t[i].start + pages /\ u[k].pages = t[i].pages - pages
      /\ u[k].next = t[i].next /\ u[k].free = TRUE /\ u[k].valid = TRUE
  BY DEF SplitInto
<1>2. /\ Len(t) \in Nat /\ DOMAIN t = 1 .. Len(t) /\ Valid(t) \subseteq 1 .. Len(t)
      /\ Len(u) \in Nat /\ DOMAIN u = 1 .. Len(u) /\ i \in 1 .. Len(t) /\ 1 .. Len(t) \subseteq 1 .. Len(u)
      /\ \A d \in 1 .. Len(t) : t[d].start \in Nat /\ t[d].pages \in Nat /\ t[d].next \in Nat
      /\ Pages \in Nat
  <2>1. /\ Len(t) \in Nat /\ DOMAIN t = 1 .. Len(t) /\ Valid(t) \subseteq 1 .. Len(t)
        /\ \A d \in 1 .. Len(t) : t[d].start \in Nat /\ t[d].pages \in Nat /\ t[d].next \in Nat
    BY TableType
  <2>2. Len(u) \in Nat /\ DOMAIN u = 1 .. Len(u)
    BY <1>1, TableType
  <2>3. 1 .. Len(t) \subseteq 1 .. Len(u)
    BY <1>1, <2>1, <2>2
  <2>. QED BY <2>1, <2>2, <2>3, PageTypes
<1>3. k # i
  BY <1>1
<1>4. Valid(u) = Valid(t) \cup {k}
  <2>1. \A d \in 1 .. Len(u) : d # k => d \in 1 .. Len(t) /\ (u[d].valid <=> t[d].valid)
    <3>1. t[i].valid
      BY DEF Valid
    <3>. QED BY <1>1, <1>2, <3>1
  <2>. QED BY <1>1, <1>2, <2>1 DEF Valid
<1>5. \A d \in Valid(t) : u[d].start = t[d].start /\ (d # i => u[d] = t[d])
  BY <1>1, <1>2
<1>6. End(u, k) = End(t, i) /\ End(u, i) = u[k].start
  <2>1. t[i].start \in Nat /\ t[i].pages \in Nat
    BY <1>2
  <2>. QED BY <1>1, <2>1 DEF End
<1>7. \A d \in Valid(t) : d # i => End(u, d) = End(t, d)
  BY <1>5 DEF End
<1>8. 1 \in Valid(u) /\ u[1].start = 0
  BY <1>4, <1>5 DEF Linked
<1>9. \A d \in Valid(u) : u[d].start < Pages /\ End(u, d) <= Pages
  <2>1. t[i].start + t[i].pages <= Pages /\ End(t, i) <= Pages
    BY DEF Linked, End
  <2>2. u[k].start < Pages /\ End(u, k) <= Pages /\ End(u, i) <= Pages
    BY <1>1, <1>2, <1>6, <2>1
  <2>3. \A d \in Valid(t) : u[d].start < Pages
    BY <1>5 DEF Linked
  <2>4. \A d \in Valid(t) : d # i => End(u, d) <= Pages
    BY <1>7 DEF Linked
  <2>. QED BY <1>4, <2>2, <2>3, <2>4
<1>10. 1 \in Valid(t) /\ k # 1
  BY <1>1 DEF Linked
<1>11. ASSUME NEW d \in Valid(u), u[d].next # 0
       PROVE  u[d].next \in Valid(u) \ {1} /\ u[u[d].next].start = End(u, d)
  <2>1. CASE d = i
    BY <1>1, <1>4, <1>6, <1>10, <2>1
  <2>2. CASE d = k
    <3>1. t[i].next \in Valid(t) \ {1} /\ t[t[i].next].start = End(t, i)
      BY <1>1, <1>11, <2>2 DEF Linked
    <3>. QED BY <1>1, <1>4, <1>5, <1>6, <2>2, <3>1
  <2>3. CASE d # i /\ d # k
    <3>1. d \in Valid(t) /\ u[d] = t[d] /\ End(u, d) = End(t, d)
      BY <1>4, <1>5, <1>7, <2>3
    <3>2. t[d].next \in Valid(t) \ {1} /\ t[t[d].next].start = End(t, d)
      BY <1>11, <3>1 DEF Linked
    <3>. QED BY <1>4, <1>5, <3>1, <3>2
  <2>. QED BY <2>1, <2>2, <2>3
<1>12. ASSUME NEW c \in Valid(u), NEW d \in Valid(u), u[c].next = u[d].next, u[c].next # 0
       PROVE  c = d
  <2> DEFINE of(e) == IF e = k THEN i ELSE e
  <2>1. \A e \in Valid(u) : e # i /\ u[e].next # 0 =>
           of(e) \in Valid(t) /\ t[of(e)].next = u[e].next /\ u[e].next # k
    <3> SUFFICES ASSUME NEW e \in Valid(u), e # i, u[e].next # 0
                 PROVE  of(e) \in Valid(t) /\ t[of(e)].next = u[e].next /\ u[e].next # k
      OBVIOUS
    <3>1. of(e) \in Valid(t) /\ t[of(e)].next = u[e].next
      BY <1>1, <1>4, <1>5
    <3>2. t[of(e)].next \in Valid(t)
      BY <3>1 DEF Linked
    <3>. QED BY <1>1, <3>1, <3>2
  <2>2. CASE c # i /\ d # i
    <3>1. of(c) = of(d)
      BY <1>12, <2>1, <2>2 DEF Linked
    <3>. QED BY <2>2, <3>1
  <2>3. CASE c = i \/ d = i
    BY <1>1, <1>12, <2>1, <2>3
  <2>. QED BY <2>2, <2>3
<1>13. Linked(u)
  BY <1>8, <1>9, <1>11, <1>12 DEF Linked
<1>. QED BY <1>1, <1>3, <1>4, <1>5, <1>6, <1>13

LEMMA SplitIntoSound ==
  ASSUME NEW t, NEW l, Sound(t, l), NEW p \in 1 .. Len(l), NEW pages \in Nat,
         t[l[p]].pages > pages, NEW k, NEW u, SplitInto(t, l[p], pages, k, u)
  PROVE  /\ Sound(u, Inserted(l, p, k)) /\ Len(Inserted(l, p, k)) = Len(l) + 1
         /\ Covers(t, l) => Covers(u, Inserted(l, p, k))
<1> DEFINE i == l[p]
           m == Inserted(l, p, k)
<1>1. /\ Len(l) \in Nat \ {0} /\ p \in Nat \ {0} /\ p <= Len(l)
      /\ \A n \in 1 .. Len(l) : l[n] \in Valid(t) /\ l[n] \in 1 .. Len(t)
  BY ListType
<1>2. /\ \A n \in 1 .. Len(l) - 1 : t[l[n]].next = l[n + 1]
      /\ t[l[Len(l)]].next = 0 /\ l[1] = 1
      /\ \A n, q \in 1 .. Len(l) : l[n] = l[q] => n = q
      /\ IsTable(t) /\ Linked(t)
  BY DEF Sound, IsList
<1>3. i \in Valid(t) /\ t[i].pages > pages
  BY <1>1
<1>4. \A n \in 1 .. Len(l) : n # p => l[n] # i
  BY <1>2
<1> HIDE DEF i
<1>5. SplitInto(t, i, pages, k, u)
  BY DEF i
<1>6. /\ Linked(u) /\ Valid(u) = Valid(t) \cup {k} /\ k \notin Valid(t) /\ k # i
      /\ \A d \in Valid(t) : d # i => u[d] = t[d]
      /\ End(u, k) = End(t, i)
  BY <1>2, <1>3, <1>5, SplitIntoLinked
<1>7. u[i].next = k /\ u[k].next = t[i].next /\ IsTable(u)
  BY <1>5 DEF SplitInto
<1>8. /\ m = [n \in 1 .. Len(l) + 1 |-> m[n]]
      /\ \A n \in 1 .. Len(l) + 1 :
           m[n] = IF n <= p THEN l[n] ELSE IF n = p + 1 THEN k ELSE l[n - 1]
  BY DEF Inserted
<1> HIDE DEF m
<1>9. /\ \A n \in 1 .. Len(l) : n <= p => m[n] = l[n]
      /\ m[p + 1] = k /\ m[p] = i
      /\ \A n \in 1 .. Len(l) + 1 : n > p + 1 => m[n] = l[n - 1] /\ n - 1 \in 1 .. Len(l)
  BY <1>1, <1>8 DEF i
<1>10. \A n \in 1 .. Len(l) + 1 : m[n] \in Valid(u)
  <2> TAKE n \in 1 .. Len(l) + 1
  <2>1. CASE n <= p
    <3>1. n \in 1 .. Len(l)
      BY <1>1, <2>1
    <3>. QED BY <1>1, <1>6, <1>9, <2>1, <3>1
  <2>2. CASE n = p + 1
    BY <1>6, <1>9, <2>2
  <2>3. CASE n > p + 1
    BY <1>1, <1>6, <1>9, <2>3
  <2>. QED BY <1>1, <2>1, <2>2, <2>3
<1>11. m \in Seq(Valid(u)) /\ Len(m) = Len(l) + 1
  BY <1>1, <1>8, <1>10, FunctionIsSeq
<1>12. ASSUME NEW n \in 1 .. Len(l) PROVE u[m[n]].next = m[n + 1]
  <2>1. n + 1 \in 1 .. Len(l) + 1
    BY <1>1
  <2>2. CASE n < p
    <3>1. n \in 1 .. Len(l) - 1 /\ n + 1 \in 1 .. Len(l) /\ n <= p /\ n + 1 <= p /\ n # p
      BY <1>1, <2>2
    <3>2. m[n] = l[n] /\ m[n + 1] = l[n + 1] /\ l[n] # i /\ l[n] \in Valid(t)
      BY <1>1, <1>4, <1>9, <3>1
    <3>3. u[l[n]] = t[l[n]] /\ t[l[n]].next = l[n + 1]
      BY <1>2, <1>6, <3>1, <3>2
    <3>. QED BY <3>2, <3>3
  <2>3. CASE n = p
    BY <1>7, <1>9, <2>3
  <2>4. CASE n = p + 1
    <3>1. m[n] = k /\ m[n + 1] = l[n] /\ p \in 1 .. Len(l) - 1
      <4>1. n + 1 > p + 1 /\ (n + 1) - 1 = n /\ p \in 1 .. Len(l) - 1
        BY <1>1, <2>4
      <4>. QED BY <1>9, <2>1, <2>4, <4>1
    <3>2. t[i].next = l[p + 1]
      BY <1>2, <3>1 DEF i
    <3>. QED BY <1>7, <2>4, <3>1, <3>2
  <2>5. CASE n > p + 1
    <3>1. /\ n - 1 \in 1 .. Len(l) - 1 /\ n - 1 \in 1 .. Len(l) /\ n - 1 # p
          /\ (n - 1) + 1 = n /\ n + 1 > p + 1 /\ (n + 1) - 1 = n /\ n \in 1 .. Len(l) + 1
      BY <1>1, <2>5
    <3>2. m[n] = l[n - 1] /\ m[n + 1] = l[n] /\ l[n - 1] # i /\ l[n - 1] \in Valid(t)
      BY <1>1, <1>4, <1>9, <2>1, <2>5, <3>1
    <3>3. t[l[n - 1]].next = l[n]
      BY <1>2, <3>1
    <3>. QED BY <1>6, <3>2, <3>3
  <2>. QED BY <1>1, <2>2, <2>3, <2>4, <2>5
<1>13. u[m[Len(m)]].next = 0
       /\ (End(t, l[Len(l)]) = Pages => End(u, m[Len(m)]) = Pages)
  <2>1. CASE p = Len(l)
    <3>1. m[Len(m)] = k /\ i = l[Len(l)]
      BY <1>9, <1>11, <2>1 DEF i
    <3>. QED BY <1>2, <1>6, <1>7, <3>1
  <2>2. CASE p < Len(l)
    <3>1. Len(m) > p + 1 /\ Len(m) - 1 = Len(l) /\ Len(m) \in 1 .. Len(l) + 1 /\ Len(l) # p
          /\ Len(l) \in 1 .. Len(l)
      BY <1>1, <1>11, <2>2
    <3>2. m[Len(m)] = l[Len(l)] /\ l[Len(l)] # i /\ l[Len(l)] \in Valid(t)
      BY <1>1, <1>4, <1>9, <3>1
    <3>3. u[l[Len(l)]] = t[l[Len(l)]]
      BY <1>6, <3>2
    <3>. QED BY <1>2, <3>2, <3>3 DEF End
  <2>. QED BY <1>1, <2>1, <2>2
<1>14. \A n, q \in 1 .. Len(m) : m[n] = m[q] => n = q
  <2> DEFINE at(n) == IF n <= p THEN n ELSE n - 1
  <2>1. \A n \in 1 .. Len(m) : n = p + 1 \/ (at(n) \in 1 .. Len(l) /\ m[n] = l[at(n)] /\ m[n] # k)
    <3> TAKE n \in 1 .. Len(m)
    <3>1. n \in 1 .. Len(l) + 1
      BY <1>11
    <3>2. CASE n <= p
      <4>1. n \in 1 .. Len(l)
        BY <1>1, <3>1, <3>2
      <4>. QED BY <1>1, <1>6, <1>9, <3>2, <4>1
    <3>3. CASE n > p + 1
      <4>1. m[n] = l[n - 1] /\ n - 1 \in 1 .. Len(l)
        BY <1>9, <3>1, <3>3
      <4>2. at(n) = n - 1
        BY <1>1, <3>1, <3>3
      <4>. QED BY <1>1, <1>6, <4>1, <4>2
    <3>. QED BY <1>1, <3>1, <3>2, <3>3
  <2>2. \A n, q \in 1 .. Len(m) : n # p + 1 /\ q # p + 1 /\ at(n) = at(q) => n = q
    BY <1>1, <1>11
  <2> HIDE DEF at
  <2> TAKE n, q \in 1 .. Len(m)
  <2>3. CASE n # p + 1 /\ q # p + 1
    BY <1>2, <2>1, <2>2, <2>3
  <2>4. CASE n = p + 1 \/ q = p + 1
    BY <1>9, <2>1, <2>4
  <2>. QED BY <2>3, <2>4
<1>15. m[1] = 1 /\ Len(m) >= 1 /\ \A n \in 1 .. Len(m) - 1 : u[m[n]].next = m[n + 1]
  <2>1. m[1] = 1
    BY <1>1, <1>2, <1>9
  <2>2. Len(m) - 1 = Len(l) /\ Len(m) >= 1
    BY <1>1, <1>11
  <2>. QED BY <1>12, <2>1, <2>2
<1>16. Sound(u, m)
  BY <1>6, <1>7, <1>11, <1>13, <1>14, <1>15 DEF Sound, IsList
<1>17. ASSUME Covers(t, l) PROVE Covers(u, m)
  <2>1. ASSUME NEW d \in Valid(u) PROVE \E n \in 1 .. Len(m) : m[n] = d
    <3>1. CASE d = k
      <4>1. p + 1 \in 1 .. Len(m)
        BY <1>1, <1>11
      <4>. QED BY <1>9, <3>1, <4>1
    <3>2. CASE d # k
      <4>1. PICK n \in 1 .. Len(l) : l[n] = d
        BY <1>6, <1>17, <3>2 DEF Covers
      <4>2. CASE n <= p
        <5>1. n \in 1 .. Len(m)
          BY <1>1, <1>11
        <5>. QED BY <1>9, <4>1, <4>2, <5>1
      <4>3. CASE n > p
        <5>1. n + 1 \in 1 .. Len(m) /\ n + 1 \in 1 .. Len(l) + 1 /\ n + 1 > p + 1 /\ (n + 1) - 1 = n
          BY <1>1, <1>11, <4>3
        <5>2. m[n + 1] = l[n]
          BY <1>9, <5>1
        <5>. QED BY <4>1, <5>1, <5>2
      <4>. QED BY <1>1, <4>2, <4>3
    <3>. QED BY <3>1, <3>2
  <2>. QED BY <1>13, <1>17, <2>1 DEF Covers
<1>. QED BY <1>11, <1>16, <1>17 DEF m

LEMMA SplitIntoUse ==
  ASSUME NEW t, NEW l, Sound(t, l), NEW p \in 1 .. Len(l), NEW pages \in Nat \ {0},
         t[l[p]].pages > pages, t[l[p]].free, NEW k, NEW u, SplitInto(t, l[p], pages, k, u),
         Whole(t), NoneJoinable(t, l)
  PROVE  /\ Whole(u) /\ NoneJoinable(u, Inserted(l, p, k))
         /\ ComesToUse(t, l[p], pages, u)
<1> DEFINE i == l[p]
           m == Inserted(l, p, k)
<1>1. /\ Len(l) \in Nat \ {0} /\ p \in Nat \ {0} /\ p <= Len(l)
      /\ \A n \in 1 .. Len(l) : l[n] \in Valid(t) /\ l[n] \in 1 .. Len(t)
  BY ListType
<1>2. /\ \A n, q \in 1 .. Len(l) : l[n] = l[q] => n = q
      /\ IsTable(t) /\ Linked(t)
  BY DEF Sound, IsList
<1>3. i \in Valid(t) /\ t[i].pages > pages /\ t[i].free /\ i \in 1 .. Len(t)
  BY <1>1
<1>4. \A n \in 1 .. Len(l) : n # p => l[n] # i
  BY <1>2
<1>5. Len(m) = Len(l) + 1
  <2>1. Len(l) + 1 \in Nat
    BY <1>1
  <2>. QED BY <2>1 DEF Inserted
<1>6. \A n \in 1 .. Len(l) + 1 :
        m[n] = IF n <= p THEN l[n] ELSE IF n = p + 1 THEN k ELSE l[n - 1]
  BY DEF Inserted
<1> HIDE DEF i, m
<1>7. SplitInto(t, i, pages, k, u)
  BY DEF i
<1>8. /\ Valid(u) = Valid(t) \cup {k} /\ k \notin Valid(t) /\ k # i
      /\ \A d \in Valid(t) : u[d].start = t[d].start /\ (d # i => u[d] = t[d])
      /\ End(u, k) = End(t, i) /\ End(u, i) = u[k].start
  BY <1>2, <1>3, <1>7, SplitIntoLinked
<1>9. /\ u[i].pages = pages /\ u[i].free = FALSE /\ u[i].start = t[i].start
      /\ u[k].start = t[i].start + pages /\ u[k].pages = t[i].pages - pages /\ u[k].free = TRUE
  BY <1>7 DEF SplitInto
<1>10. \A d \in Valid(t) : /\ t[d].start \in Nat /\ t[d].pages \in Nat /\ End(t, d) \in Nat
                          /\ t[d].start <= End(t, d)
  BY <1>2, TableType DEF End
<1>11. /\ t[i].start \in Nat /\ t[i].pages \in Nat
       /\ End(t, i) = t[i].start + t[i].pages
  BY <1>3, <1>10 DEF End
<1>12. /\ u[k].start \in Nat /\ u[k].start > u[i].start
       /\ u[k].start < End(t, i) /\ End(u, i) < End(t, i) /\ u[k].pages > 0
  BY <1>3, <1>8, <1>9, <1>11
<1>13. \A d \in Valid(t) : d # i => End(u, d) = End(t, d)
  BY <1>8 DEF End
<1>14. Whole(u)
  <2>1. \A d \in Valid(u) : u[d].pages > 0
    <3>1. \A d \in Valid(t) : d # i => u[d].pages > 0
      BY <1>8 DEF Whole
    <3>. QED BY <1>8, <1>9, <1>12, <3>1
  <2>2. ASSUME NEW d \in Valid(t), d # i
        PROVE  /\ End(u, d) <= u[i].start \/ End(u, i) <= u[d].start
               /\ End(u, d) <= u[k].start \/ End(u, k) <= u[d].start
    <3>1. End(t, d) <= t[i].start \/ End(t, i) <= t[d].start
      BY <1>3, <2>2 DEF Whole
    <3>2. End(u, d) = End(t, d) /\ u[d].start = t[d].start
      BY <1>8, <1>13, <2>2
    <3>3. End(t, d) \in Nat /\ t[d].start \in Nat
      BY <1>10
    <3>. QED BY <1>8, <1>9, <1>11, <1>12, <3>1, <3>2, <3>3
  <2>3. \A d \in Valid(u) : d = i \/ d = k \/ (d \in Valid(t) /\ d # i)
    BY <1>8
  <2>4. ASSUME NEW c \in Valid(u), NEW d \in Valid(u), c # d
        PROVE  End(u, c) <= u[d].start \/ End(u, d) <= u[c].start
    <3>1. CASE c \in Valid(t) /\ c # i /\ d \in Valid(t) /\ d # i
      <4>1. End(t, c) <= t[d].start \/ End(t, d) <= t[c].start
        BY <2>4, <3>1 DEF Whole
      <4>. QED BY <1>8, <1>13, <3>1, <4>1
    <3>2. CASE c \in Valid(t) /\ c # i /\ (d = i \/ d = k)
      BY <2>2, <3>2
    <3>3. CASE d \in Valid(t) /\ d # i /\ (c = i \/ c = k)
      BY <2>2, <3>3
    <3>4. CASE (c = i /\ d = k) \/ (c = k /\ d = i)
      BY <1>8, <1>12, <3>4
    <3>. QED BY <2>3, <2>4, <3>1, <3>2, <3>3, <3>4
  <2>. QED BY <2>1, <2>4 DEF Whole
<1>15. NoneJoinable(u, m)
  <2> SUFFICES ASSUME NEW n \in 1 .. Len(l) PROVE ~(u[m[n]].free /\ u[m[n + 1]].free)
    <3>1. Len(m) - 1 = Len(l)
      BY <1>1, <1>5
    <3>. QED BY <3>1 DEF NoneJoinable
  <2>1. n + 1 \in 1 .. Len(l) + 1 /\ n \in 1 .. Len(l) + 1
    BY <1>1
  <2>2. CASE n < p
    <3>1. n \in 1 .. Len(l) - 1 /\ n + 1 \in 1 .. Len(l) /\ n <= p /\ n + 1 <= p /\ n # p
      BY <1>1, <2>2
    <3>2. m[n] = l[n] /\ m[n + 1] = l[n + 1] /\ l[n] # i /\ l[n] \in Valid(t)
      BY <1>1, <1>4, <1>6, <2>1, <3>1
    <3>3. ~(t[l[n]].free /\ t[l[n + 1]].free) /\ u[l[n]] = t[l[n]]
      BY <1>8, <3>1, <3>2 DEF NoneJoinable
    <3>4. CASE n + 1 = p
      BY <1>9, <3>2, <3>4 DEF i
    <3>5. CASE n + 1 # p
      <4>1. u[l[n + 1]] = t[l[n + 1]]
        BY <1>1, <1>4, <1>8, <3>1, <3>5
      <4>. QED BY <3>2, <3>3, <4>1
    <3>. QED BY <3>4, <3>5
  <2>3. CASE n = p
    <3>1. m[n] = i
      BY <1>1, <1>6, <2>1, <2>3 DEF i
    <3>. QED BY <1>9, <3>1
  <2>4. CASE n = p + 1
    <3>1. n + 1 > p + 1 /\ (n + 1) - 1 = n /\ p \in 1 .. Len(l) - 1
      BY <1>1, <2>4
    <3>2. m[n + 1] = l[n]
      BY <1>1, <1>6, <2>1, <3>1
    <3>3. ~(t[i].free /\ t[l[p + 1]].free)
      BY <3>1 DEF NoneJoinable, i
    <3>4. u[l[n]] = t[l[n]]
      BY <1>1, <1>4, <1>8, <2>4
    <3>. QED BY <1>3, <2>4, <3>2, <3>3, <3>4
  <2>5. CASE n > p + 1
    <3>1. /\ n - 1 \in 1 .. Len(l) - 1 /\ n - 1 \in 1 .. Len(l) /\ n - 1 # p /\ n # p
          /\ (n - 1) + 1 = n /\ (n + 1) - 1 = n
          /\ ~(n <= p) /\ n # p + 1 /\ ~(n + 1 <= p) /\ n + 1 # p + 1
      BY <1>1, <2>5
    <3>2. m[n] = l[n - 1] /\ m[n + 1] = l[n]
      BY <1>6, <2>1, <3>1
    <3>3. u[l[n - 1]] = t[l[n - 1]] /\ u[l[n]] = t[l[n]]
      BY <1>1, <1>4, <1>8, <3>1
    <3>4. ~(t[l[n - 1]].free /\ t[l[n]].free)
      BY <3>1 DEF NoneJoinable
    <3>. QED BY <3>2, <3>3, <3>4
  <2>. QED BY <1>1, <2>2, <2>3, <2>4, <2>5
<1>16. {d \in Valid(u) : ~u[d].free} = {d \in Valid(t) : ~t[d].free} \cup {i}
  BY <1>3, <1>8, <1>9
<1>17. \A d \in Valid(t) : ~t[d].free => u[d] = t[d]
  BY <1>3, <1>8
<1>18. ComesToUse(t, i, pages, u)
  <2>1. u[i].start = t[i].start /\ u[i].pages = pages
    BY <1>9
  <2>. QED BY <1>16, <1>17, <2>1, UseWith
<1>. QED BY <1>14, <1>15, <1>18 DEF i, m

\* v is the table t after block i was marked free.
Marked(t, i, v) ==
  /\ IsTable(v) /\ Len(v) = Len(t)
  /\ \A d \in 1 .. Len(t) :
       /\ v[d].start = t[d].start /\ v[d].pages = t[d].pages /\ v[d].next = t[d].next
       /\ v[d].valid = t[d].valid /\ (d # i => v[d] = t[d])
  /\ v[i].free = TRUE

LEMMA MarkedIs ==
  ASSUME NEW t, IsTable(t), NEW i \in 1 .. Len(t)
  PROVE  Marked(t, i, [t EXCEPT ![i].free = TRUE])
<1> DEFINE v == [t EXCEPT ![i].free = TRUE]
<1>1. /\ Len(t) \in Nat /\ DOMAIN t = 1 .. Len(t)
      /\ \A d \in 1 .. Len(t) : t[d] \in Page!Descriptor
      /\ \A d \in 1 .. Len(t) : t[d].next \in 0 .. Len(t)
      /\ Len(t) \in 1 .. Descriptors
  BY TableType DEF IsTable
<1>2. /\ DOMAIN v = 1 .. Len(t) /\ v = [d \in 1 .. Len(t) |-> v[d]]
      /\ v[i] = [t[i] EXCEPT !.free = TRUE]
      /\ \A d \in 1 .. Len(t) : d # i => v[d] = t[d]
  BY <1>1
<1> HIDE DEF v
<1>3. /\ v[i].start = t[i].start /\ v[i].pages = t[i].pages /\ v[i].next = t[i].next
      /\ v[i].valid = t[i].valid /\ v[i].free = TRUE
  BY <1>1, <1>2 DEF Page!Descriptor
<1>4. \A d \in 1 .. Len(t) : v[d] \in Page!Descriptor
  <2>1. [t[i] EXCEPT !.free = TRUE] \in Page!Descriptor
    BY <1>1 DEF Page!Descriptor
  <2>2. v[i] \in Page!Descriptor
    BY <1>2, <2>1
  <2>. QED BY <1>1, <1>2, <2>2
<1>5. v \in Seq(Page!Descriptor) /\ Len(v) = Len(t)
  BY <1>1, <1>2, <1>4
<1>6. \A d \in 1 .. Len(t) :
        /\ v[d].start = t[d].start /\ v[d].pages = t[d].pages /\ v[d].next = t[d].next
        /\ v[d].valid = t[d].valid /\ (d # i => v[d] = t[d])
  BY <1>2, <1>3
<1>7. IsTable(v)
  BY <1>1, <1>2, <1>5, <1>6 DEF IsTable
<1>8. Marked(t, i, v)
  BY <1>3, <1>5, <1>6, <1>7 DEF Marked
<1>. QED BY <1>8 DEF v

\* Nothing but the mark changes.
LEMMA MarkedSound ==
  ASSUME NEW t, NEW l, Sound(t, l), NEW i \in 1 .. Len(t), NEW v, Marked(t, i, v)
  PROVE  /\ Sound(v, l) /\ Valid(v) = Valid(t)
         /\ Covers(t, l) => Covers(v, l)
         /\ Whole(t) => Whole(v)
<1>1. /\ IsTable(t) /\ IsTable(v) /\ Linked(t) /\ IsList(t, l)
  BY DEF Sound, Marked
<1>2. /\ Valid(t) \subseteq 1 .. Len(t) /\ DOMAIN t = 1 .. Len(t) /\ DOMAIN v = 1 .. Len(t)
  BY <1>1, TableType DEF Marked
<1>3. Valid(v) = Valid(t)
  BY <1>2 DEF Valid, Marked
<1>4. \A d \in Valid(t) : /\ v[d].start = t[d].start /\ v[d].next = t[d].next
                         /\ v[d].pages = t[d].pages /\ End(v, d) = End(t, d)
  BY <1>2 DEF Marked, End
<1>5. Linked(v)
  <2>1. 1 \in Valid(t) /\ v[1].start = 0
    BY <1>1, <1>4 DEF Linked
  <2>2. \A d \in Valid(t) : v[d].start < Pages /\ End(v, d) <= Pages
    BY <1>1, <1>4 DEF Linked
  <2>3. \A d \in Valid(t) : v[d].next # 0 =>
          v[d].next \in Valid(t) \ {1} /\ v[v[d].next].start = End(v, d)
    BY <1>1, <1>4 DEF Linked
  <2>4. \A c, d \in Valid(t) : v[c].next = v[d].next /\ v[c].next # 0 => c = d
    BY <1>1, <1>4 DEF Linked
  <2>. QED BY <1>3, <2>1, <2>2, <2>3, <2>4 DEF Linked
<1>6. \A n \in 1 .. Len(l) : l[n] \in Valid(t)
  BY ListType
<1>7. Len(l) \in Nat \ {0} /\ l[Len(l)] \in Valid(t)
  BY ListType
<1>8. IsList(v, l)
  <2>1. \A n \in 1 .. Len(l) - 1 : v[l[n]].next = l[n + 1]
    <3> TAKE n \in 1 .. Len(l) - 1
    <3>1. n \in 1 .. Len(l)
      BY <1>7
    <3>. QED BY <1>1, <1>4, <1>6, <3>1 DEF IsList
  <2>2. v[l[Len(l)]].next = 0
    BY <1>1, <1>4, <1>7 DEF IsList
  <2>. QED BY <1>1, <1>3, <2>1, <2>2 DEF IsList
<1>9. Covers(t, l) => Covers(v, l)
  BY <1>3, <1>4, <1>7 DEF Covers
<1>10. Whole(t) => Whole(v)
  BY <1>3, <1>4 DEF Whole
<1>. QED BY <1>1, <1>3, <1>5, <1>8, <1>9, <1>10 DEF Sound

LEMMA MarkedUse ==
  ASSUME NEW t, IsTable(t), Whole(t), NEW i \in Valid(t), NEW v, Marked(t, i, v),
         Valid(v) = Valid(t)
  PROVE  InUse(v) = InUse(t) \ {[ptr |-> t[i].start, pages |-> t[i].pages]}
<1> DEFINE R(d) == [ptr |-> t[d].start, pages |-> t[d].pages]
           S == {d \in Valid(t) : ~t[d].free}
<1>1. Valid(t) \subseteq 1 .. Len(t)
  BY TableType
<1>2. {d \in Valid(v) : ~v[d].free} = S \ {i}
  BY <1>1 DEF Marked
<1>3. InUse(v) = {R(d) : d \in S \ {i}}
  <2>1. \A d \in S : [ptr |-> v[d].start, pages |-> v[d].pages] = R(d)
    BY <1>1 DEF Marked
  <2>. QED BY <1>2, <2>1 DEF InUse
<1>4. InUse(t) = {R(d) : d \in S}
  BY DEF InUse
<1>5. \A d \in S : d # i => R(d) # R(i)
  BY WholeStarts
<1> HIDE DEF R, S
<1>6. InUse(v) = InUse(t) \ {R(i)}
  BY <1>3, <1>4, <1>5
<1>. QED BY <1>6 DEF R

\* What free does to the table, whatever block it finds.
LEMMA FreedIs ==
  ASSUME NEW t, NEW l, Sound(t, l), NEW ptr
  PROVE  \E m :
           /\ Sound(Page!Freed(t, ptr), m)
           /\ Covers(t, l) => Covers(Page!Freed(t, ptr), m)
           /\ Whole(t) /\ Page!Seek(t, ptr) \in Valid(t) =>
                /\ Whole(Page!Freed(t, ptr)) /\ NoneJoinable(Page!Freed(t, ptr), m)
                /\ InUse(Page!Freed(t, ptr)) =
                     InUse(t) \ {[ptr |-> ptr, pages |-> t[Page!Seek(t, ptr)].pages]}
<1> DEFINE i == Page!Seek(t, ptr)
           u == Page!Freed(t, ptr)
           v == [t EXCEPT ![i].free = TRUE]
<1>1. IsTable(t) /\ Valid(t) \subseteq 1 .. Len(t)
  BY TableType DEF Sound
<1>2. i = 0 \/ (i \in 1 .. Len(t) /\ t[i].start = ptr)
  BY <1>1, SeekIs
<1>3. u = IF i = 0 THEN t ELSE Page!Joined(v)
  BY DEF Page!Freed
<1>4. CASE i = 0
  <2>1. i \notin Valid(t)
    BY <1>1, <1>4, TableType
  <2>2. u = t
    BY <1>3, <1>4
  <2> HIDE DEF i, u
  <2>3. Sound(u, l) /\ (Covers(t, l) => Covers(u, l))
    BY <2>2
  <2>. QED BY <2>1, <2>3 DEF i, u
<1>5. CASE i \in 1 .. Len(t) /\ t[i].start = ptr
  <2>1. u = Page!Joined(v)
    <3>1. i # 0
      BY <1>1, <1>5, TableType
    <3>. QED BY <1>3, <3>1
  <2>2. Marked(t, i, v)
    BY <1>1, <1>5, MarkedIs
  <2> HIDE DEF i, u, v
  <2>3. /\ Sound(v, l) /\ Valid(v) = Valid(t)
        /\ Covers(t, l) => Covers(v, l)
        /\ Whole(t) => Whole(v)
    BY <1>5, <2>2, MarkedSound
  <2>4. PICK m : Sound(u, m) /\ SameBlocks(v, l, u, m) /\ NoneJoinable(u, m)
    BY <2>1, <2>3, JoinedIs
  <2>5. ASSUME Whole(t), i \in Valid(t)
        PROVE  /\ Whole(u)
               /\ InUse(u) = InUse(t) \ {[ptr |-> ptr, pages |-> t[i].pages]}
    <3>1. InUse(v) = InUse(t) \ {[ptr |-> t[i].start, pages |-> t[i].pages]}
      BY <1>1, <2>2, <2>3, <2>5, MarkedUse
    <3>. QED BY <1>5, <2>3, <2>4, <2>5, <3>1 DEF SameBlocks
  <2>6. Covers(t, l) => Covers(u, m)
    BY <2>3, <2>4 DEF SameBlocks
  <2>. QED BY <2>4, <2>5, <2>6 DEF i, u
<1>. QED BY <1>2, <1>4, <1>5

\* u is the table t after block i took n pages of the block behind it, j, which keeps some.
GrownInto(t, i, j, n, u) ==
  /\ IsTable(u) /\ Len(u) = Len(t)
  /\ \A d \in 1 .. Len(t) : d # i /\ d # j => u[d] = t[d]
  /\ \A d \in 1 .. Len(t) : u[d].next = t[d].next /\ u[d].valid = t[d].valid /\ u[d].free = t[d].free
  /\ u[i].pages = t[i].pages + n /\ u[i].start = t[i].start
  /\ u[j].pages = t[j].pages - n /\ u[j].start = t[j].start + n

LEMMA GrownIntoIs ==
  ASSUME NEW t, IsTable(t), NEW i \in 1 .. Len(t), NEW j \in 1 .. Len(t), i # j,
         NEW n \in Nat, t[j].pages > n
  PROVE  GrownInto(t, i, j, n,
           [t EXCEPT ![i].pages = @ + n, ![j].pages = @ - n, ![j].start = @ + n])
<1> DEFINE u == [t EXCEPT ![i].pages = @ + n, ![j].pages = @ - n, ![j].start = @ + n]
<1>1. /\ Len(t) \in Nat /\ DOMAIN t = 1 .. Len(t) /\ Len(t) \in 1 .. Descriptors
      /\ \A d \in 1 .. Len(t) : t[d] \in Page!Descriptor /\ t[d].next \in 0 .. Len(t)
  BY TableType DEF IsTable
<1>2. /\ DOMAIN u = 1 .. Len(t) /\ u = [d \in 1 .. Len(t) |-> u[d]]
      /\ u[i] = [t[i] EXCEPT !.pages = @ + n]
      /\ u[j] = [t[j] EXCEPT !.pages = @ - n, !.start = @ + n]
      /\ \A d \in 1 .. Len(t) : d # i /\ d # j => u[d] = t[d]
  BY <1>1 DEF Page!Descriptor
<1> HIDE DEF u
<1>3. /\ t[i].pages + n \in Nat /\ t[j].pages - n \in Nat /\ t[j].start + n \in Nat
      /\ t[i] \in Page!Descriptor /\ t[j] \in Page!Descriptor
  <2>1. t[i].pages \in Nat /\ t[j].pages \in Nat /\ t[j].start \in Nat
    BY TableType
  <2>. QED BY <1>1, <2>1
<1>4. /\ u[i] \in Page!Descriptor
      /\ u[i].pages = t[i].pages + n /\ u[i].start = t[i].start /\ u[i].next = t[i].next
      /\ u[i].valid = t[i].valid /\ u[i].free = t[i].free
  <2>1. [t[i] EXCEPT !.pages = @ + n] \in Page!Descriptor
    BY <1>3 DEF Page!Descriptor
  <2>. QED BY <1>2, <1>3, <2>1 DEF Page!Descriptor
<1>5. /\ u[j] \in Page!Descriptor
      /\ u[j].pages = t[j].pages - n /\ u[j].start = t[j].start + n /\ u[j].next = t[j].next
      /\ u[j].valid = t[j].valid /\ u[j].free = t[j].free
  <2>1. [t[j] EXCEPT !.pages = @ - n, !.start = @ + n] \in Page!Descriptor
    BY <1>3 DEF Page!Descriptor
  <2>. QED BY <1>2, <1>3, <2>1 DEF Page!Descriptor
<1>6. \A d \in 1 .. Len(t) : u[d] \in Page!Descriptor
  BY <1>1, <1>2, <1>4, <1>5
<1>7. u \in Seq(Page!Descriptor) /\ Len(u) = Len(t)
  BY <1>1, <1>2, <1>6
<1>8. \A d \in 1 .. Len(t) : u[d].next = t[d].next /\ u[d].valid = t[d].valid /\ u[d].free = t[d].free
  BY <1>2, <1>4, <1>5
<1>9. IsTable(u)
  BY <1>1, <1>2, <1>7, <1>8 DEF IsTable
<1>10. GrownInto(t, i, j, n, u)
  BY <1>2, <1>4, <1>5, <1>7, <1>8, <1>9 DEF GrownInto
<1>. QED BY <1>10 DEF u

\* What is in use after a block that was in use grew.
LEMMA UseGrown ==
  ASSUME NEW t, IsTable(t), Whole(t), NEW u, NEW i \in Valid(t), ~t[i].free, NEW pages,
         {d \in Valid(u) : ~u[d].free} = {d \in Valid(t) : ~t[d].free},
         \A d \in Valid(t) : ~t[d].free /\ d # i => u[d] = t[d],
         u[i].start = t[i].start, u[i].pages = pages
  PROVE  InUse(u) = (InUse(t) \ {[ptr |-> t[i].start, pages |-> t[i].pages]})
                      \cup {[ptr |-> t[i].start, pages |-> pages]}
<1> DEFINE R(v, d) == [ptr |-> v[d].start, pages |-> v[d].pages]
           S == {d \in Valid(t) : ~t[d].free}
<1>1. InUse(u) = {R(u, d) : d \in S} /\ InUse(t) = {R(t, d) : d \in S} /\ i \in S
  BY DEF InUse
<1>2. \A d \in S : d # i => R(u, d) = R(t, d) /\ R(t, d) # R(t, i)
  BY WholeStarts
<1>3. R(u, i) = [ptr |-> t[i].start, pages |-> pages]
  OBVIOUS
<1>4. InUse(u) = (InUse(t) \ {R(t, i)}) \cup {R(u, i)}
  <2> HIDE DEF R, S
  <2>. QED BY <1>1, <1>2
<1>. QED BY <1>3, <1>4

LEMMA GrownIntoSound ==
  ASSUME NEW t, NEW l, Sound(t, l), NEW i \in Valid(t), NEW j, j = t[i].next, j # 0, i # j,
         NEW n \in Nat \ {0}, t[j].pages > n, NEW u, GrownInto(t, i, j, n, u)
  PROVE  /\ Sound(u, l) /\ Valid(u) = Valid(t)
         /\ Covers(t, l) => Covers(u, l)
         /\ Whole(t) => Whole(u)
<1>1. IsTable(t) /\ Linked(t) /\ IsList(t, l)
  BY DEF Sound
<1>2. j \in Valid(t) /\ j # 1 /\ t[j].start = End(t, i)
  BY <1>1 DEF Linked
<1>3. /\ IsTable(u) /\ Len(u) = Len(t)
      /\ \A d \in 1 .. Len(t) : d # i /\ d # j => u[d] = t[d]
      /\ \A d \in 1 .. Len(t) : u[d].next = t[d].next /\ u[d].valid = t[d].valid
                               /\ u[d].free = t[d].free
      /\ u[i].pages = t[i].pages + n /\ u[i].start = t[i].start
      /\ u[j].pages = t[j].pages - n /\ u[j].start = t[j].start + n
  BY DEF GrownInto
<1>4. /\ Valid(t) \subseteq 1 .. Len(t) /\ DOMAIN t = 1 .. Len(t) /\ DOMAIN u = 1 .. Len(t)
      /\ \A d \in Valid(t) : t[d].start \in Nat /\ t[d].pages \in Nat /\ End(t, d) \in Nat
  BY <1>1, <1>3, TableType
<1>5. Valid(u) = Valid(t)
  BY <1>3, <1>4 DEF Valid
<1>6. /\ End(t, i) = t[i].start + t[i].pages /\ End(t, j) = t[j].start + t[j].pages
      /\ End(u, i) = t[i].start + (t[i].pages + n)
      /\ End(u, j) = (t[j].start + n) + (t[j].pages - n)
  BY <1>3 DEF End
<1>7. /\ End(u, j) = End(t, j) /\ u[j].start = End(u, i)
      /\ u[j].start > t[j].start /\ u[j].start < End(t, j) /\ u[j].start \in Nat
      /\ u[i].pages > 0 /\ u[j].pages > 0
  <2>1. /\ t[i].start \in Nat /\ t[i].pages \in Nat /\ t[j].start \in Nat /\ t[j].pages \in Nat
        /\ n \in Nat /\ n > 0 /\ t[j].pages > n
    BY <1>2, <1>4
  <2>2. End(u, j) = End(t, j)
    BY <1>6, <2>1
  <2>3. u[j].start = End(u, i)
    BY <1>2, <1>3, <1>6, <2>1
  <2>4. u[j].start > t[j].start /\ u[j].start < End(t, j) /\ u[j].start \in Nat
    <3>1. u[j].start = t[j].start + n /\ End(t, j) = t[j].start + t[j].pages
      BY <1>3, <1>6
    <3>2. \A a, b \in Nat : b > n => a + n > a /\ a + n < a + b /\ a + n \in Nat
      BY <2>1
    <3>. QED BY <2>1, <3>1, <3>2
  <2>5. u[i].pages > 0 /\ u[j].pages > 0
    BY <1>3, <2>1
  <2>. QED BY <2>2, <2>3, <2>4, <2>5
<1>8. \A d \in Valid(t) : d # i /\ d # j => u[d] = t[d] /\ End(u, d) = End(t, d)
  BY <1>3, <1>4 DEF End
<1>9. Linked(u)
  <2>1. 1 \in Valid(t) /\ u[1].start = 0
    BY <1>1, <1>2, <1>3, <1>8 DEF Linked
  <2>2. \A d \in Valid(t) : u[d].start < Pages /\ End(u, d) <= Pages
    <3>1. End(t, j) <= Pages /\ t[i].start < Pages /\ Pages \in Nat
      BY <1>1, <1>2, PageTypes DEF Linked
    <3>2. u[j].start < Pages /\ End(u, j) <= Pages /\ u[i].start < Pages /\ End(u, i) <= Pages
      BY <1>2, <1>3, <1>4, <1>7, <3>1
    <3>. QED BY <1>1, <1>8, <3>2 DEF Linked
  <2>3. ASSUME NEW d \in Valid(t), u[d].next # 0
        PROVE  u[d].next \in Valid(t) \ {1} /\ u[u[d].next].start = End(u, d)
    <3>1. /\ u[d].next = t[d].next /\ t[d].next \in Valid(t) \ {1}
          /\ t[t[d].next].start = End(t, d)
      BY <1>1, <1>3, <1>4, <2>3 DEF Linked
    <3>2. CASE d = i
      BY <1>7, <3>1, <3>2
    <3>3. CASE d # i
      <4>1. t[d].next # j
        BY <1>1, <1>2, <3>1, <3>3 DEF Linked
      <4>2. u[t[d].next].start = t[t[d].next].start
        BY <1>3, <1>8, <3>1, <4>1
      <4>3. End(u, d) = End(t, d)
        BY <1>7, <1>8, <3>3
      <4>. QED BY <3>1, <4>2, <4>3
    <3>. QED BY <3>2, <3>3
  <2>4. \A c, d \in Valid(t) : u[c].next = u[d].next /\ u[c].next # 0 => c = d
    BY <1>1, <1>3, <1>4 DEF Linked
  <2>. QED BY <1>5, <2>1, <2>2, <2>3, <2>4 DEF Linked
<1>10. Len(l) \in Nat \ {0} /\ \A n1 \in 1 .. Len(l) : l[n1] \in Valid(t) /\ l[n1] \in 1 .. Len(t)
  BY ListType
<1>11. IsList(u, l)
  <2>1. \A n1 \in 1 .. Len(l) - 1 : u[l[n1]].next = l[n1 + 1]
    <3> TAKE n1 \in 1 .. Len(l) - 1
    <3>1. n1 \in 1 .. Len(l)
      BY <1>10
    <3>. QED BY <1>1, <1>3, <1>10, <3>1 DEF IsList
  <2>2. u[l[Len(l)]].next = 0
    <3>1. Len(l) \in 1 .. Len(l)
      BY <1>10
    <3>. QED BY <1>1, <1>3, <1>10, <3>1 DEF IsList
  <2>. QED BY <1>1, <1>5, <2>1, <2>2 DEF IsList
<1>12. ASSUME Covers(t, l) PROVE Covers(u, l)
  <2>1. l[Len(l)] # i /\ l[Len(l)] \in Valid(t)
    BY <1>1, <1>10 DEF IsList
  <2>2. End(u, l[Len(l)]) = End(t, l[Len(l)])
    BY <1>7, <1>8, <2>1
  <2>. QED BY <1>5, <1>12, <2>2 DEF Covers
<1>13. ASSUME Whole(t) PROVE Whole(u)
  <2>1. \A d \in Valid(t) : u[d].pages > 0
    BY <1>7, <1>8, <1>13 DEF Whole
  <2>2. ASSUME NEW d \in Valid(t), d # i, d # j
        PROVE  /\ End(u, d) <= u[i].start \/ End(u, i) <= u[d].start
               /\ End(u, d) <= u[j].start \/ End(u, j) <= u[d].start
    <3>1. /\ End(t, d) <= t[i].start \/ End(t, i) <= t[d].start
          /\ End(t, d) <= t[j].start \/ End(t, j) <= t[d].start
      BY <1>2, <1>13, <2>2 DEF Whole
    <3>2. End(u, d) = End(t, d) /\ u[d].start = t[d].start /\ t[d].pages \in Nat /\ t[d].pages > 0
          /\ End(t, d) = t[d].start + t[d].pages /\ t[d].start \in Nat
          /\ t[i].start \in Nat /\ t[i].pages \in Nat /\ t[j].start \in Nat /\ t[j].pages \in Nat
      BY <1>2, <1>4, <1>8, <1>13, <2>2 DEF Whole, End
    <3>3. /\ u[i].start = t[i].start /\ End(u, j) = End(t, j) /\ t[j].start = End(t, i)
          /\ u[j].start = End(u, i) /\ u[j].start > t[j].start /\ u[j].start < End(t, j)
          /\ u[j].start \in Nat
      BY <1>2, <1>3, <1>7
    <3>4. /\ End(t, i) = t[i].start + t[i].pages /\ End(t, j) \in Nat
          /\ End(t, i) \in Nat /\ End(t, d) \in Nat /\ t[d].start < End(t, d)
      <4>1. \A a, b \in Nat : b > 0 => a < a + b
        OBVIOUS
      <4>2. t[d].start < End(t, d)
        BY <3>2, <4>1
      <4>. QED BY <1>2, <1>4, <1>6, <4>2
    <3> DEFINE si == t[i].start
               ei == End(t, i)
               ej == End(t, j)
               sd == t[d].start
               ed == End(t, d)
               sj == u[j].start
    <3>5. ed <= si \/ ei <= sd
      BY <3>1
    <3>6. ed <= ei \/ ej <= sd
      BY <3>1, <3>3
    <3>7. si \in Nat /\ ei \in Nat /\ ej \in Nat /\ sd \in Nat /\ ed \in Nat /\ sj \in Nat
          /\ si <= ei /\ sj > ei /\ sj < ej /\ sd < ed
      BY <3>2, <3>3, <3>4
    <3>8. /\ End(u, d) = ed /\ u[d].start = sd /\ u[i].start = si /\ End(u, i) = sj
          /\ End(u, j) = ej
      BY <3>2, <3>3
    <3> HIDE DEF si, ei, ej, sd, ed, sj
    <3>9. (ed <= si \/ sj <= sd) /\ (ed <= sj \/ ej <= sd)
      BY <3>5, <3>6, <3>7
    <3>. QED BY <3>8, <3>9 DEF sj
  <2>3. ASSUME NEW c \in Valid(t), NEW d \in Valid(t), c # d
        PROVE  End(u, c) <= u[d].start \/ End(u, d) <= u[c].start
    <3>1. CASE c # i /\ c # j /\ d # i /\ d # j
      <4>1. End(t, c) <= t[d].start \/ End(t, d) <= t[c].start
        BY <1>13, <2>3 DEF Whole
      <4>. QED BY <1>8, <3>1, <4>1
    <3>2. CASE c # i /\ c # j /\ (d = i \/ d = j)
      BY <2>2, <3>2
    <3>3. CASE d # i /\ d # j /\ (c = i \/ c = j)
      BY <2>2, <3>3
    <3>4. CASE (c = i /\ d = j) \/ (c = j /\ d = i)
      BY <1>7, <3>4
    <3>. QED BY <2>3, <3>1, <3>2, <3>3, <3>4
  <2>. QED BY <1>5, <2>1, <2>3 DEF Whole
<1>. QED BY <1>1, <1>3, <1>5, <1>9, <1>11, <1>12, <1>13 DEF Sound

\* A block that takes over the one behind it leaves the marks of the others.
LEMMA AbsorbedMarks ==
  ASSUME NEW t, NEW l, Sound(t, l), NEW i \in Valid(t), ~t[i].free, NEW j, j = t[i].next, j # 0,
         i # j, NEW u, TakesOver(t, i, j, u), NoneJoinable(t, l)
  PROVE  \E m : Sound(u, m) /\ (Covers(t, l) => Covers(u, m)) /\ NoneJoinable(u, m)
<1>1. IsTable(t) /\ Linked(t) /\ IsList(t, l)
  BY DEF Sound
<1>2. /\ Len(l) \in Nat \ {0} /\ \A n \in 1 .. Len(l) : l[n] \in Valid(t) /\ l[n] \in 1 .. Len(t)
  BY ListType
<1>3. \A d \in 1 .. Len(t) : u[d].free = t[d].free
  BY <1>1, AbsorbedLinked
<1>4. CASE \A n \in 1 .. Len(l) : l[n] # i
  <2>1. Sound(u, l)
    BY <1>4, AbsorbedOutside
  <2>2. ~Covers(t, l)
    BY <1>4 DEF Covers
  <2>3. NoneJoinable(u, l)
    <3> SUFFICES ASSUME NEW n \in 1 .. Len(l) - 1 PROVE ~(u[l[n]].free /\ u[l[n + 1]].free)
      BY DEF NoneJoinable
    <3>1. n \in 1 .. Len(l) /\ n + 1 \in 1 .. Len(l)
      BY <1>2
    <3>. QED BY <1>2, <1>3, <3>1 DEF NoneJoinable
  <2>. QED BY <2>1, <2>2, <2>3
<1>5. CASE \E n \in 1 .. Len(l) : l[n] = i
  <2>1. PICK p \in 1 .. Len(l) : l[p] = i
    BY <1>5
  <2>2. p # Len(l)
    BY <1>1, <2>1 DEF IsList
  <2>3. p \in 1 .. Len(l) - 1 /\ p + 1 \in 1 .. Len(l)
    BY <1>2, <2>2
  <2>4. l[p + 1] = j
    BY <1>1, <2>1, <2>3 DEF IsList
  <2>5. TakesOver(t, l[p], l[p + 1], u)
    BY <2>1, <2>4
  <2> DEFINE m == Removed(l, p + 1)
  <2>6. Sound(u, m) /\ Len(m) = Len(l) - 1 /\ (Covers(t, l) => Covers(u, m))
    BY <2>3, <2>5, AbsorbedInList
  <2>7. \A n \in 1 .. Len(l) - 1 : m[n] = IF n < p + 1 THEN l[n] ELSE l[n + 1]
    BY DEF Removed
  <2> HIDE DEF m
  <2>8. NoneJoinable(u, m)
    <3> SUFFICES ASSUME NEW n \in 1 .. (Len(l) - 1) - 1 PROVE ~(u[m[n]].free /\ u[m[n + 1]].free)
      BY <2>6 DEF NoneJoinable
    <3>1. /\ n \in 1 .. Len(l) - 1 /\ n + 1 \in 1 .. Len(l) - 1 /\ n \in 1 .. Len(l)
          /\ n + 1 \in 1 .. Len(l) /\ (n + 1) + 1 \in 1 .. Len(l)
      BY <1>2
    <3>2. CASE n < p
      <4>1. n < p + 1 /\ n + 1 < p + 1
        BY <2>3, <3>2
      <4>2. m[n] = l[n] /\ m[n + 1] = l[n + 1]
        BY <2>7, <3>1, <4>1
      <4>. QED BY <1>2, <1>3, <3>1, <4>2 DEF NoneJoinable
    <3>3. CASE n = p
      <4>1. m[n] = i
        BY <2>1, <2>3, <2>7, <3>1, <3>3
      <4>. QED BY <1>1, <1>3, <4>1, TableType
    <3>4. CASE n > p
      <4>1. ~(n < p + 1) /\ ~(n + 1 < p + 1)
        BY <2>3, <3>4
      <4>2. m[n] = l[n + 1] /\ m[n + 1] = l[(n + 1) + 1]
        BY <2>7, <3>1, <4>1
      <4>. QED BY <1>2, <1>3, <3>1, <4>2 DEF NoneJoinable
    <3>. QED BY <2>3, <3>2, <3>3, <3>4
  <2>. QED BY <2>6, <2>8
<1>. QED BY <1>4, <1>5

\* The same without the marks.
LEMMA AbsorbedSound ==
  ASSUME NEW t, NEW l, Sound(t, l), NEW i \in Valid(t), NEW j, j = t[i].next, j # 0,
         i # j, NEW u, TakesOver(t, i, j, u)
  PROVE  \E m : Sound(u, m) /\ (Covers(t, l) => Covers(u, m))
<1>1. IsList(t, l) /\ Len(l) \in Nat \ {0}
  BY ListType DEF Sound
<1>2. CASE \A n \in 1 .. Len(l) : l[n] # i
  <2>1. Sound(u, l)
    BY <1>2, AbsorbedOutside
  <2>2. ~Covers(t, l)
    BY <1>2 DEF Covers
  <2>. QED BY <2>1, <2>2
<1>3. CASE \E n \in 1 .. Len(l) : l[n] = i
  <2>1. PICK p \in 1 .. Len(l) : l[p] = i
    BY <1>3
  <2>2. p # Len(l)
    BY <1>1, <2>1 DEF IsList
  <2>3. p \in 1 .. Len(l) - 1
    BY <1>1, <2>2
  <2>4. l[p + 1] = j
    BY <1>1, <2>1, <2>3 DEF IsList
  <2>5. TakesOver(t, l[p], l[p + 1], u)
    BY <2>1, <2>4
  <2>6. Sound(u, Removed(l, p + 1)) /\ (Covers(t, l) => Covers(u, Removed(l, p + 1)))
    BY <2>3, <2>5, AbsorbedInList
  <2>. QED BY <2>6
<1>. QED BY <1>2, <1>3

\* What growing in place does to the table.
GrownTo(t, i, pages, u) == u = Page!Grown(t, i, pages - t[i].pages)

LEMMA GrownIs ==
  ASSUME NEW t, NEW l, Sound(t, l), NEW i \in Valid(t), NEW pages \in Nat, pages > t[i].pages,
         Page!CanGrow(t, i, pages), NEW u, GrownTo(t, i, pages, u)
  PROVE  /\ \E m : Sound(u, m) /\ (Covers(t, l) => Covers(u, m))
         /\ Whole(t) /\ ~t[i].free /\ NoneJoinable(t, l) =>
              \E m :
                /\ Sound(u, m) /\ (Covers(t, l) => Covers(u, m))
                /\ Whole(u) /\ NoneJoinable(u, m)
                /\ InUse(u) = (InUse(t) \ {[ptr |-> t[i].start, pages |-> t[i].pages]})
                                \cup {[ptr |-> t[i].start, pages |-> pages]}
<1> DEFINE j == t[i].next
           n == pages - t[i].pages
<1>1. /\ IsTable(t) /\ Linked(t) /\ IsList(t, l) /\ i \in 1 .. Len(t)
      /\ \A d \in 1 .. Len(t) : t[d].start \in Nat /\ t[d].pages \in Nat
  BY TableType DEF Sound
<1>2. n \in Nat \ {0} /\ t[i].pages + n = pages /\ t[i].pages \in Nat
  BY <1>1
<1>3. j # 0 /\ t[j].free /\ t[j].pages >= n
  BY DEF Page!CanGrow
<1>4. j \in Valid(t) /\ j \in 1 .. Len(t) /\ t[j].start = End(t, i)
  BY <1>1, <1>3, TableType DEF Linked
<1>5. i # j
  <2>1. CASE i = j
    <3>1. t[i].start = t[i].start + t[i].pages /\ t[i].pages >= n
      BY <1>3, <1>4, <2>1 DEF End
    <3>. QED BY <1>1, <1>2, <3>1
  <2>. QED BY <2>1
<1>6. u = IF t[j].pages > n
          THEN [t EXCEPT ![i].pages = @ + n, ![j].pages = @ - n, ![j].start = @ + n]
          ELSE [t EXCEPT ![i].pages = @ + n, ![i].next = t[j].next, ![j].valid = FALSE]
  BY DEF GrownTo, Page!Grown
<1> HIDE DEF n
<1>7. CASE t[j].pages > n
  <2>1. GrownInto(t, i, j, n, u)
    <3> DEFINE v == [t EXCEPT ![i].pages = @ + n, ![j].pages = @ - n, ![j].start = @ + n]
    <3> HIDE DEF j
    <3>1. u = v
      BY ONLY <1>6, <1>7
    <3>2. GrownInto(t, i, j, n, v)
      BY <1>1, <1>2, <1>4, <1>5, <1>7, GrownIntoIs
    <3>. QED BY <3>1, <3>2
  <2>2. /\ Sound(u, l) /\ Valid(u) = Valid(t)
        /\ Covers(t, l) => Covers(u, l)
        /\ Whole(t) => Whole(u)
    BY <1>2, <1>3, <1>5, <1>7, <2>1, GrownIntoSound
  <2>3. ASSUME Whole(t), ~t[i].free, NoneJoinable(t, l)
        PROVE  /\ NoneJoinable(u, l)
               /\ InUse(u) = (InUse(t) \ {[ptr |-> t[i].start, pages |-> t[i].pages]})
                               \cup {[ptr |-> t[i].start, pages |-> pages]}
    <3>1. /\ \A d \in 1 .. Len(t) : u[d].free = t[d].free
          /\ \A d \in 1 .. Len(t) : d # i /\ d # j => u[d] = t[d]
          /\ u[i].pages = pages /\ u[i].start = t[i].start
      BY <1>2, <2>1 DEF GrownInto
    <3>2. Valid(t) \subseteq 1 .. Len(t)
      BY <1>1, TableType
    <3>3. NoneJoinable(u, l)
      <4> SUFFICES ASSUME NEW p \in 1 .. Len(l) - 1 PROVE ~(u[l[p]].free /\ u[l[p + 1]].free)
        BY DEF NoneJoinable
      <4>1. p \in 1 .. Len(l) /\ p + 1 \in 1 .. Len(l)
        BY ListType
      <4>2. l[p] \in 1 .. Len(t) /\ l[p + 1] \in 1 .. Len(t)
        BY <4>1, ListType
      <4>. QED BY <2>3, <3>1, <4>2 DEF NoneJoinable
    <3>4. {d \in Valid(u) : ~u[d].free} = {d \in Valid(t) : ~t[d].free}
      BY <2>2, <3>1, <3>2
    <3>5. \A d \in Valid(t) : ~t[d].free /\ d # i => u[d] = t[d]
      BY <1>3, <3>1, <3>2
    <3>6. u[i].pages = pages /\ u[i].start = t[i].start
      BY <3>1
    <3>7. InUse(u) = (InUse(t) \ {[ptr |-> t[i].start, pages |-> t[i].pages]})
                       \cup {[ptr |-> t[i].start, pages |-> pages]}
      <4>1. IsTable(t) /\ i \in Valid(t) /\ Whole(t) /\ ~t[i].free
        BY <1>1, <2>3
      <4>. QED BY ONLY <3>4, <3>5, <3>6, <4>1, UseGrown
    <3>. QED BY <3>3, <3>7
  <2>. QED BY <2>2, <2>3
<1>8. CASE ~(t[j].pages > n)
  <2>1. t[j].pages = n
    BY <1>1, <1>2, <1>3, <1>4, <1>8
  <2>2. u = Page!Absorbed(t, i, j)
    BY <1>6, <1>8, <2>1 DEF Page!Absorbed
  <2>3. TakesOver(t, i, j, u)
    BY <1>1, <1>4, <1>5, <2>2, AbsorbedIs
  <2>4. \E m : Sound(u, m) /\ (Covers(t, l) => Covers(u, m))
    BY <1>3, <1>5, <2>3, AbsorbedSound
  <2>5. ASSUME Whole(t), ~t[i].free, NoneJoinable(t, l)
        PROVE  \E m :
                 /\ Sound(u, m) /\ (Covers(t, l) => Covers(u, m))
                 /\ Whole(u) /\ NoneJoinable(u, m)
                 /\ InUse(u) = (InUse(t) \ {[ptr |-> t[i].start, pages |-> t[i].pages]})
                                 \cup {[ptr |-> t[i].start, pages |-> pages]}
    <3>1. PICK m : Sound(u, m) /\ (Covers(t, l) => Covers(u, m)) /\ NoneJoinable(u, m)
      BY <1>3, <1>5, <2>3, <2>5, AbsorbedMarks
    <3>2. Whole(u)
      BY <1>1, <1>3, <1>5, <2>3, <2>5, AbsorbedWhole
    <3>3. /\ Valid(u) = Valid(t) \ {j}
          /\ \A d \in Valid(u) \ {i} : u[d] = t[d]
          /\ \A d \in 1 .. Len(t) : u[d].free = t[d].free
      BY <1>1, <1>3, <1>5, <2>3, AbsorbedLinked
    <3>4. u[i].pages = pages /\ u[i].start = t[i].start
      BY <1>2, <2>1, <2>3 DEF TakesOver
    <3>5. {d \in Valid(u) : ~u[d].free} = {d \in Valid(t) : ~t[d].free}
      <4>1. Valid(t) \subseteq 1 .. Len(t)
        BY <1>1, TableType
      <4>. QED BY <1>3, <3>3, <4>1
    <3>6. \A d \in Valid(t) : ~t[d].free /\ d # i => u[d] = t[d]
      BY <1>3, <3>3
    <3>7. InUse(u) = (InUse(t) \ {[ptr |-> t[i].start, pages |-> t[i].pages]})
                       \cup {[ptr |-> t[i].start, pages |-> pages]}
      <4>1. IsTable(t) /\ i \in Valid(t) /\ Whole(t) /\ ~t[i].free
        BY <1>1, <2>5
      <4>. QED BY ONLY <3>4, <3>5, <3>6, <4>1, UseGrown
    <3>. QED BY <3>1, <3>2, <3>7
  <2>. QED BY <2>4, <2>5
<1>. QED BY <1>7, <1>8

\* Growing a descriptor out of use leaves a table, at least.
LEMMA GrownType ==
  ASSUME NEW t, IsTable(t), NEW i \in 1 .. Len(t), NEW pages \in Nat, pages > t[i].pages,
         Page!CanGrow(t, i, pages), NEW u, GrownTo(t, i, pages, u)
  PROVE  IsTable(u)
<1> DEFINE j == t[i].next
           n == pages - t[i].pages
<1>1. /\ t \in Seq(Page!Descriptor) /\ Len(t) \in 1 .. Descriptors /\ DOMAIN t = 1 .. Len(t)
      /\ Len(t) \in Nat
      /\ \A d \in 1 .. Len(t) : /\ t[d] \in Page!Descriptor /\ t[d].next \in 0 .. Len(t)
                               /\ t[d].start \in Nat /\ t[d].pages \in Nat
  BY TableType DEF IsTable
<1>2. n \in Nat
  BY <1>1
<1>3. j # 0 /\ j \in 1 .. Len(t) /\ i \in 1 .. Len(t)
  BY <1>1 DEF Page!CanGrow
<1>4. u = IF t[j].pages > n
          THEN [t EXCEPT ![i].pages = @ + n, ![j].pages = @ - n, ![j].start = @ + n]
          ELSE [t EXCEPT ![i].pages = @ + n, ![i].next = t[j].next, ![j].valid = FALSE]
  <2>1. GrownTo(t, i, pages, u)
    OBVIOUS
  <2>. QED BY ONLY <2>1 DEF GrownTo, Page!Grown
<1> HIDE DEF n, j
<1>5. CASE i # j /\ t[j].pages > n
  <2> DEFINE v == [t EXCEPT ![i].pages = @ + n, ![j].pages = @ - n, ![j].start = @ + n]
  <2>1. u = v
    BY <1>4, <1>5
  <2>2. GrownInto(t, i, j, n, v)
    BY <1>2, <1>3, <1>5, GrownIntoIs
  <2>. QED BY <2>1, <2>2 DEF GrownInto
<1>6. CASE i # j /\ ~(t[j].pages > n)
  <2>1. \A d \in 1 .. Len(t) : [t[d] EXCEPT !.valid = FALSE] \in Page!Descriptor
    BY <1>1 DEF Page!Descriptor
  <2>2. [t[i] EXCEPT !.pages = @ + n, !.next = t[j].next] \in Page!Descriptor
    <3>1. t[i].pages + n \in Nat /\ t[j].next \in 0 .. Descriptors /\ t[i] \in Page!Descriptor
      BY <1>1, <1>2, <1>3 DEF Page!Descriptor
    <3>. QED BY <3>1 DEF Page!Descriptor
  <2>3. /\ DOMAIN u = 1 .. Len(t) /\ u = [d \in 1 .. Len(t) |-> u[d]]
        /\ u[i] = [t[i] EXCEPT !.pages = @ + n, !.next = t[j].next]
        /\ u[j] = [t[j] EXCEPT !.valid = FALSE]
        /\ \A d \in 1 .. Len(t) : d # i /\ d # j => u[d] = t[d]
    BY <1>1, <1>3, <1>4, <1>6 DEF Page!Descriptor
  <2>4. \A d \in 1 .. Len(t) : u[d] \in Page!Descriptor
    BY <1>1, <1>3, <2>1, <2>2, <2>3
  <2>5. u \in Seq(Page!Descriptor) /\ Len(u) = Len(t)
    BY <1>1, <2>3, <2>4
  <2>6. u[i].next = t[j].next /\ u[j].next = t[j].next
    BY <1>1, <1>3, <2>3 DEF Page!Descriptor
  <2>7. \A d \in 1 .. Len(t) : u[d].next \in 0 .. Len(t)
    BY <1>1, <1>3, <2>3, <2>6
  <2>. QED BY <1>1, <2>3, <2>5, <2>7 DEF IsTable
<1>7. CASE i = j
  <2> DEFINE first == [t[i] EXCEPT !.pages = @ + n]
             a == [[first EXCEPT !.pages = @ - n] EXCEPT !.start = @ + n]
             b == [[first EXCEPT !.next = t[i].next] EXCEPT !.valid = FALSE]
  <2>1. /\ first \in Page!Descriptor /\ first.pages = t[i].pages + n
        /\ first.start = t[i].start /\ first.next = t[i].next
    <3>1. t[i].pages + n \in Nat /\ t[i] \in Page!Descriptor
      BY <1>1, <1>2, <1>3
    <3>. QED BY <3>1 DEF Page!Descriptor
  <2> HIDE DEF first
  <2>2. a \in Page!Descriptor /\ a.next = t[i].next
    <3>1. first.pages - n \in Nat /\ first.start + n \in Nat
      BY <1>1, <1>2, <1>3, <2>1
    <3>. QED BY <2>1, <3>1 DEF Page!Descriptor
  <2>3. b \in Page!Descriptor /\ b.next = t[i].next
    BY <1>1, <1>3, <2>1 DEF Page!Descriptor
  <2>4. u = IF t[i].pages > n
            THEN [t EXCEPT ![i].pages = @ + n, ![i].pages = @ - n, ![i].start = @ + n]
            ELSE [t EXCEPT ![i].pages = @ + n, ![i].next = t[i].next, ![i].valid = FALSE]
    BY <1>4, <1>7
  <2>5. /\ DOMAIN u = 1 .. Len(t) /\ u = [d \in 1 .. Len(t) |-> u[d]]
        /\ \A d \in 1 .. Len(t) : d # i => u[d] = t[d]
    BY <1>1, <2>4
  <2>6. u[i] = a \/ u[i] = b
    BY <1>1, <1>3, <2>4 DEF first
  <2> HIDE DEF a, b
  <2>7. \A d \in 1 .. Len(t) : u[d] \in Page!Descriptor /\ u[d].next \in 0 .. Len(t)
    BY <1>1, <1>3, <2>2, <2>3, <2>5, <2>6
  <2>8. u \in Seq(Page!Descriptor) /\ Len(u) = Len(t)
    BY <1>1, <2>5, <2>7
  <2>. QED BY <1>1, <2>5, <2>7, <2>8 DEF IsTable
<1>. QED BY <1>5, <1>6, <1>7

\* What giving the first pages of a block does to the table.
TakenFrom(t, i, pages, u) == u = Page!Taken(t, i, pages)

\* Descriptors in use stay in use, and those but i stay as they are.
OthersKept(t, i, u) ==
  /\ Valid(t) \subseteq Valid(u) /\ Len(t) <= Len(u)
  /\ \A d \in Valid(t) : d # i => u[d] = t[d]
  /\ \A d \in 1 .. Len(t) : d \notin Valid(u) => u[d] = t[d]

LEMMA TakenIs ==
  ASSUME NEW t, NEW l, Sound(t, l), NEW i, \E p \in 1 .. Len(l) : l[p] = i, NEW pages \in Nat,
         Page!Fits(t, i, pages), NEW u, TakenFrom(t, i, pages, u)
  PROVE  /\ \E m :
              /\ Sound(u, m)
              /\ (t[i].pages > pages /\ Page!Place(t) = 0) \/ (Covers(t, l) => Covers(u, m))
              /\ Whole(t) /\ NoneJoinable(t, l) /\ pages # 0 /\ t[i].pages # pages =>
                   /\ Whole(u) /\ NoneJoinable(u, m)
                   /\ ComesToUse(t, i, pages, u)
         /\ OthersKept(t, i, u)
<1>1. PICK p \in 1 .. Len(l) : l[p] = i
  OBVIOUS
<1>2. /\ IsTable(t) /\ Linked(t) /\ i \in Valid(t) /\ t[i].free /\ t[i].pages >= pages
      /\ t[i].pages \in Nat /\ Valid(t) \subseteq 1 .. Len(t) /\ Len(t) \in Nat
  <2>1. IsTable(t) /\ Linked(t) /\ i \in Valid(t)
    BY <1>1, ListType DEF Sound
  <2>. QED BY <2>1, TableType DEF Page!Fits
<1>3. CASE ~(t[i].pages > pages)
  <2>1. u = t
    BY <1>3 DEF TakenFrom, Page!Taken
  <2>2. t[i].pages = pages
    BY <1>2, <1>3
  <2>. QED BY <1>2, <2>1, <2>2 DEF OthersKept
<1>4. CASE t[i].pages > pages
  <2>1. u = Page!Split(t, i, pages)
    BY <1>4 DEF TakenFrom, Page!Taken
  <2>2. \/ Page!Place(t) = 0 /\ SplitOff(t, i, pages, u)
        \/ Page!Place(t) # 0 /\ SplitInto(t, i, pages, Page!Place(t), u)
    BY <1>2, <1>4, <2>1, SplitIs
  <2>3. CASE Page!Place(t) = 0 /\ SplitOff(t, i, pages, u)
    <3>1. SplitOff(t, l[p], pages, u) /\ t[l[p]].pages > pages /\ t[l[p]].free
      BY <1>1, <1>2, <1>4, <2>3
    <3>2. Sound(u, Cut(l, p)) /\ Valid(u) = Valid(t)
      BY <3>1, SplitOffSound
    <3>3. ASSUME Whole(t), NoneJoinable(t, l), pages # 0
          PROVE  /\ Whole(u) /\ NoneJoinable(u, Cut(l, p))
                 /\ ComesToUse(t, i, pages, u)
      <4>1. pages \in Nat \ {0}
        BY <3>3
      <4>. QED BY <1>1, <3>1, <3>3, <4>1, SplitOffUse
    <3>4. Len(t) <= Len(u) /\ \A d \in 1 .. Len(t) : d # i => u[d] = t[d]
      BY <1>2, <2>3 DEF SplitOff
    <3>5. OthersKept(t, i, u)
      BY <1>2, <3>2, <3>4 DEF OthersKept
    <3>. QED BY <1>4, <2>3, <3>2, <3>3, <3>5
  <2>4. CASE Page!Place(t) # 0 /\ SplitInto(t, i, pages, Page!Place(t), u)
    <3> DEFINE k == Page!Place(t)
    <3>1. SplitInto(t, l[p], pages, k, u) /\ t[l[p]].pages > pages /\ t[l[p]].free
          /\ SplitInto(t, i, pages, k, u)
      BY <1>1, <1>2, <1>4, <2>4
    <3> HIDE DEF k
    <3>2. Sound(u, Inserted(l, p, k)) /\ (Covers(t, l) => Covers(u, Inserted(l, p, k)))
      BY <3>1, SplitIntoSound
    <3>3. ASSUME Whole(t), NoneJoinable(t, l), pages # 0
          PROVE  /\ Whole(u) /\ NoneJoinable(u, Inserted(l, p, k))
                 /\ ComesToUse(t, i, pages, u)
      <4>1. pages \in Nat \ {0}
        BY <3>3
      <4>. QED BY <1>1, <3>1, <3>3, <4>1, SplitIntoUse
    <3>4. Valid(u) = Valid(t) \cup {k} /\ \A d \in Valid(t) : d # i => u[d] = t[d]
      BY <1>2, <1>4, <3>1, SplitIntoLinked
    <3>5. Len(t) <= Len(u) /\ \A d \in 1 .. Len(t) : d # i /\ d # k => u[d] = t[d]
      BY <3>1 DEF SplitInto
    <3>6. /\ Valid(t) \subseteq Valid(u)
          /\ \A d \in 1 .. Len(t) : d \notin Valid(u) => u[d] = t[d]
      BY <1>2, <3>4, <3>5
    <3>7. OthersKept(t, i, u)
      BY <3>4, <3>5, <3>6 DEF OthersKept
    <3>. QED BY <3>2, <3>3, <3>7
  <2>. QED BY <2>2, <2>3, <2>4
<1>. QED BY <1>2, <1>3, <1>4

\* A search for a block that is held finds it again after the split of another one.
LEMMA SeekAfterTaken ==
  ASSUME NEW t, IsTable(t), NEW u, IsTable(u), Whole(u), NEW ptr, NEW i,
         Page!Seek(t, ptr) \in Valid(t), Page!Seek(t, ptr) # i, OthersKept(t, i, u)
  PROVE  /\ Page!Seek(u, ptr) \in Valid(u)
         /\ u[Page!Seek(u, ptr)].pages = t[Page!Seek(t, ptr)].pages
<1> DEFINE h == Page!Seek(t, ptr)
           s == Page!Seek(u, ptr)
<1>1. /\ h \in Valid(t) /\ h # i /\ h \in Valid(u) /\ u[h] = t[h]
      /\ Valid(t) \subseteq 1 .. Len(t) /\ Valid(u) \subseteq 1 .. Len(u)
      /\ Len(t) \in Nat /\ Len(u) \in Nat
  BY TableType DEF OthersKept
<1>2. h = 0 \/ (t[h].start = ptr /\ \A d \in 1 .. Len(t) : t[d].start = ptr => h <= d)
  BY SeekIs
<1>3. h \in 1 .. Len(t) /\ h \in 1 .. Len(u) /\ h # 0
  BY <1>1
<1>4. t[h].start = ptr /\ u[h].start = ptr
  BY <1>1, <1>2, <1>3
<1>5. /\ s \in 1 .. Len(u) /\ u[s].start = ptr
      /\ \A d \in 1 .. Len(u) : u[d].start = ptr => s <= d
  BY <1>3, <1>4, SeekIs
<1>6. s <= h
  BY <1>3, <1>4, <1>5
<1> HIDE DEF s, h
<1>7. s \in Valid(u)
  <2> SUFFICES ASSUME s \notin Valid(u) PROVE FALSE
    OBVIOUS
  <2>1. s \in 1 .. Len(t)
    BY <1>1, <1>3, <1>5, <1>6
  <2>2. u[s] = t[s]
    BY <2>1 DEF OthersKept
  <2>3. h <= s
    BY <1>2, <1>3, <1>5, <2>1, <2>2
  <2>4. s = h
    BY <1>1, <1>3, <1>6, <2>1, <2>3
  <2>. QED BY <1>1, <2>4
<1>8. s = h
  BY <1>1, <1>4, <1>5, <1>7, WholeStarts
<1>. QED BY <1>1, <1>7, <1>8 DEF s, h

-----------------------------------------------------------------------------
\* The regions that the callers hold.
Regions(r) == {r[c] : c \in {d \in Caller : r[d] # Null}}

Distinct(r) == \A c, d \in Caller : r[c] # Null /\ r[d] # Null /\ r[c] = r[d] => c = d

\* The regions are the blocks in use, and no two free blocks lie side by side.
Agrees(t, l, r) ==
  /\ Whole(t) /\ NoneJoinable(t, l)
  /\ Regions(r) = InUse(t) /\ Distinct(r)

Good(t, l, r, isLost, isAliased) ==
  /\ Sound(t, l)
  /\ isLost \/ Covers(t, l)
  /\ isAliased \/ Agrees(t, l, r)

TableInv ==
  /\ IsTable(table)
  /\ region \in [Caller -> {Null} \cup [ptr : 0 .. Pages - 1, pages : Nat]]
  /\ ret \in {Null} \cup 0 .. Pages - 1
  /\ aliased \in BOOLEAN /\ astray \in BOOLEAN /\ lost \in BOOLEAN
  /\ ~astray => \E l : Good(table, l, region, lost, aliased)

\* That holds until the table is written over; of what is left then nothing else is known.
PageInv ==
  /\ region \in [Caller -> {Null} \cup [ptr : 0 .. Pages - 1, pages : Nat]]
  /\ ret \in {Null} \cup 0 .. Pages - 1
  /\ table # <<>> => TableInv

TableGone ==
  /\ region \in [Caller -> {Null} \cup [ptr : 0 .. Pages - 1, pages : Nat]]
  /\ ret \in {Null} \cup 0 .. Pages - 1
  /\ table = <<>>

LEMMA PageCases == (TableInv \/ TableGone => PageInv) /\ (TableInv' \/ TableGone' => PageInv')
  BY DEF TableInv, TableGone, PageInv

\* s is r but for caller c, who holds region x, or the first pages of block i.
Updated(r, c, x, s) == s = [r EXCEPT ![c] = x]

GetsBlock(r, c, t, i, pages, s) == s = [r EXCEPT ![c] = [ptr |-> t[i].start, pages |-> pages]]

LEMMA RegionsChange ==
  ASSUME NEW r, DOMAIN r = Caller, NEW c \in Caller, NEW x, NEW s, Updated(r, c, x, s),
         Distinct(r)
  PROVE  /\ r[c] = Null /\ x # Null => Regions(s) = Regions(r) \cup {x}
         /\ r[c] # Null /\ x = Null => Regions(s) = Regions(r) \ {r[c]}
         /\ r[c] # Null /\ x # Null => Regions(s) = (Regions(r) \ {r[c]}) \cup {x}
         /\ (\A d \in Caller : d # c => r[d] # x) \/ x = Null => Distinct(s)
<1>1. s[c] = x /\ \A d \in Caller : d # c => s[d] = r[d]
  BY DEF Updated
<1>2. \A d \in Caller : d # c /\ r[d] # Null /\ r[c] # Null => r[d] # r[c]
  BY DEF Distinct
<1>3. r[c] = Null /\ x # Null => Regions(s) = Regions(r) \cup {x}
  BY <1>1 DEF Regions
<1>4. r[c] # Null /\ x = Null => Regions(s) = Regions(r) \ {r[c]}
  BY <1>1, <1>2 DEF Regions
<1>5. r[c] # Null /\ x # Null => Regions(s) = (Regions(r) \ {r[c]}) \cup {x}
  BY <1>1, <1>2 DEF Regions
<1>6. (\A d \in Caller : d # c => r[d] # x) \/ x = Null => Distinct(s)
  BY <1>1 DEF Distinct
<1>. QED BY <1>3, <1>4, <1>5, <1>6

\* Region x is block i, which is in use.
IsBlock(x, t, i) == ~t[i].free /\ x = [ptr |-> t[i].start, pages |-> t[i].pages]

LEMMA HeldBlock ==
  ASSUME NEW t, NEW l, Sound(t, l), NEW r, Agrees(t, l, r),
         NEW c \in Caller, r[c] # Null, NEW i \in Valid(t), t[i].start = r[c].ptr
  PROVE  IsBlock(r[c], t, i)
<1>1. r[c] \in Regions(r)
  BY DEF Regions
<1>2. r[c] \in InUse(t) /\ IsTable(t) /\ Whole(t)
  BY <1>1 DEF Agrees, Sound
<1>3. PICK j \in {d \in Valid(t) : ~t[d].free} : r[c] = [ptr |-> t[j].start, pages |-> t[j].pages]
  BY <1>2 DEF InUse
<1>4. t[j].start = t[i].start
  BY <1>3
<1>5. j = i
  BY <1>2, <1>3, <1>4, WholeStarts
<1>. QED BY <1>3, <1>5 DEF IsBlock

\* Nobody holds a region at the place of a free block.
LEMMA FreeBlock ==
  ASSUME NEW t, NEW l, Sound(t, l), NEW r, Agrees(t, l, r),
         NEW i \in Valid(t), t[i].free, NEW n
  PROVE  \A c \in Caller : r[c] # Null => r[c] # [ptr |-> t[i].start, pages |-> n]
<1> SUFFICES ASSUME NEW c \in Caller, r[c] # Null, r[c] = [ptr |-> t[i].start, pages |-> n]
             PROVE  FALSE
  OBVIOUS
<1>1. t[i].start = r[c].ptr
  OBVIOUS
<1>2. IsBlock(r[c], t, i)
  BY <1>1, HeldBlock
<1>. QED BY <1>2 DEF IsBlock

LEMMA RegionNotNull == \A p, n \in Nat : [ptr |-> p, pages |-> n] # Null
  BY PageTypes

\* What is remembered of a block that is given away.
Noted(t, i, pages, isLost, isAliased, nowLost, nowAliased) ==
  /\ isLost \/ (t[i].pages > pages /\ Page!Place(t) = 0) => nowLost
  /\ isAliased \/ t[i].pages = pages \/ pages = 0 => nowAliased

LEMMA GoodGiven ==
  ASSUME NEW t, NEW l, NEW r, DOMAIN r = Caller, NEW isLost, NEW isAliased,
         Good(t, l, r, isLost, isAliased), NEW c \in Caller, r[c] = Null,
         NEW i, \E p \in 1 .. Len(l) : l[p] = i, NEW pages \in Nat, Page!Fits(t, i, pages),
         NEW u, TakenFrom(t, i, pages, u),
         NEW s, GetsBlock(r, c, t, i, pages, s),
         NEW nowLost, NEW nowAliased, Noted(t, i, pages, isLost, isAliased, nowLost, nowAliased)
  PROVE  \E m : Good(u, m, s, nowLost, nowAliased)
<1> DEFINE x == [ptr |-> t[i].start, pages |-> pages]
<1>1. Sound(t, l) /\ (isLost \/ Covers(t, l)) /\ (isAliased \/ Agrees(t, l, r))
  BY DEF Good
<1>2. i \in Valid(t) /\ t[i].free /\ t[i].start \in Nat
  <2>1. i \in Valid(t) /\ IsTable(t)
    BY <1>1, ListType DEF Sound
  <2>. QED BY <2>1, TableType DEF Page!Fits
<1>3. PICK m :
        /\ Sound(u, m)
        /\ (t[i].pages > pages /\ Page!Place(t) = 0) \/ (Covers(t, l) => Covers(u, m))
        /\ Whole(t) /\ NoneJoinable(t, l) /\ pages # 0 /\ t[i].pages # pages =>
             Whole(u) /\ NoneJoinable(u, m) /\ ComesToUse(t, i, pages, u)
  BY <1>1, TakenIs
<1>4. ASSUME ~isAliased, t[i].pages # pages, pages # 0 PROVE Agrees(u, m, s)
  <2>1. Agrees(t, l, r) /\ Whole(t) /\ NoneJoinable(t, l) /\ Regions(r) = InUse(t) /\ Distinct(r)
    BY <1>1, <1>4 DEF Agrees
  <2>2. Whole(u) /\ NoneJoinable(u, m) /\ InUse(u) = InUse(t) \cup {x}
    BY <1>3, <1>4, <2>1 DEF ComesToUse
  <2>3. x # Null
    BY <1>2, RegionNotNull
  <2>4. \A d \in Caller : d # c => r[d] # x
    <3>1. \A d \in Caller : r[d] # Null => r[d] # x
      BY <1>1, <1>2, <2>1, FreeBlock
    <3>. QED BY <2>3, <3>1
  <2> HIDE DEF x
  <2>5. Updated(r, c, x, s)
    BY DEF x, Updated, GetsBlock
  <2>6. Regions(s) = Regions(r) \cup {x} /\ Distinct(s)
    <3>1. DOMAIN r = Caller /\ r[c] = Null /\ c \in Caller /\ Distinct(r)
      BY <2>1
    <3>2. Regions(s) = Regions(r) \cup {x} /\ Distinct(s)
      BY ONLY <2>3, <2>4, <2>5, <3>1, RegionsChange
    <3>. QED BY <3>2
  <2>. QED BY <2>1, <2>2, <2>6 DEF Agrees
<1>5. /\ isLost \/ (t[i].pages > pages /\ Page!Place(t) = 0) => nowLost
      /\ isAliased \/ t[i].pages = pages \/ pages = 0 => nowAliased
  BY DEF Noted
<1>. QED BY <1>1, <1>3, <1>4, <1>5 DEF Good

LEMMA GoodFreed ==
  ASSUME NEW t, NEW l, NEW r, DOMAIN r = Caller, NEW isLost, NEW isAliased,
         Good(t, l, r, isLost, isAliased), NEW c \in Caller, r[c] # Null,
         Page!Seek(t, r[c].ptr) \in Valid(t), NEW s, Updated(r, c, Null, s)
  PROVE  \E m : Good(Page!Freed(t, r[c].ptr), m, s, isLost, isAliased)
<1> DEFINE ptr == r[c].ptr
           u == Page!Freed(t, ptr)
           i == Page!Seek(t, ptr)
<1>1. Sound(t, l) /\ (isLost \/ Covers(t, l)) /\ (isAliased \/ Agrees(t, l, r))
  BY DEF Good
<1>2. PICK m :
        /\ Sound(u, m)
        /\ Covers(t, l) => Covers(u, m)
        /\ Whole(t) /\ i \in Valid(t) =>
             /\ Whole(u) /\ NoneJoinable(u, m)
             /\ InUse(u) = InUse(t) \ {[ptr |-> ptr, pages |-> t[i].pages]}
  BY <1>1, FreedIs
<1>3. i \in Valid(t) /\ t[i].start = ptr
  <2>1. IsTable(t) /\ i \in Valid(t) /\ i # 0
    BY <1>1, TableType DEF Sound
  <2>. QED BY <2>1, SeekIs
<1>4. ASSUME ~isAliased PROVE Agrees(u, m, s)
  <2>1. Agrees(t, l, r) /\ Whole(t) /\ Regions(r) = InUse(t) /\ Distinct(r)
    BY <1>1, <1>4 DEF Agrees
  <2>2. r[c] = [ptr |-> ptr, pages |-> t[i].pages]
    <3> HIDE DEF i
    <3>1. IsBlock(r[c], t, i)
      BY <1>1, <1>3, <2>1, HeldBlock
    <3>. QED BY <1>3, <3>1 DEF IsBlock
  <2> HIDE DEF u, i, ptr
  <2>3. Whole(u) /\ NoneJoinable(u, m) /\ InUse(u) = InUse(t) \ {r[c]}
    BY <1>2, <1>3, <2>1, <2>2
  <2>4. Regions(s) = Regions(r) \ {r[c]} /\ Distinct(s)
    BY <2>1, RegionsChange
  <2>. QED BY <2>1, <2>3, <2>4 DEF Agrees
<1> HIDE DEF u
<1>5. Good(u, m, s, isLost, isAliased)
  BY <1>1, <1>2, <1>4 DEF Good
<1>. QED BY <1>5 DEF u

LEMMA GoodGrown ==
  ASSUME NEW t, NEW l, NEW r, DOMAIN r = Caller, NEW isLost, NEW isAliased,
         Good(t, l, r, isLost, isAliased), NEW c \in Caller, r[c] # Null,
         NEW i \in Valid(t), t[i].start = r[c].ptr, NEW pages \in Nat, pages > t[i].pages,
         Page!CanGrow(t, i, pages), NEW u, GrownTo(t, i, pages, u),
         NEW s, GetsBlock(r, c, t, i, pages, s)
  PROVE  \E m : Good(u, m, s, isLost, isAliased)
<1> DEFINE x == [ptr |-> t[i].start, pages |-> pages]
           y == [ptr |-> t[i].start, pages |-> t[i].pages]
<1>1. Sound(t, l) /\ (isLost \/ Covers(t, l)) /\ (isAliased \/ Agrees(t, l, r))
  BY DEF Good
<1>2. CASE isAliased
  <2>1. PICK m : Sound(u, m) /\ (Covers(t, l) => Covers(u, m))
    BY <1>1, GrownIs
  <2>. QED BY <1>1, <1>2, <2>1 DEF Good
<1>3. CASE ~isAliased
  <2>1. /\ Agrees(t, l, r) /\ Whole(t) /\ NoneJoinable(t, l) /\ Regions(r) = InUse(t)
        /\ Distinct(r)
    BY <1>1, <1>3 DEF Agrees
  <2>2. ~t[i].free /\ r[c] = y
    <3>1. IsBlock(r[c], t, i)
      BY <1>1, <2>1, HeldBlock
    <3>. QED BY <3>1 DEF IsBlock
  <2>3. PICK m : /\ Sound(u, m) /\ (Covers(t, l) => Covers(u, m))
                 /\ Whole(u) /\ NoneJoinable(u, m)
                 /\ InUse(u) = (InUse(t) \ {y}) \cup {x}
    BY <1>1, <2>1, <2>2, GrownIs
  <2>4. x # Null
    <3>1. t[i].start \in Nat
      BY <1>1, TableType DEF Sound
    <3>. QED BY <3>1, RegionNotNull
  <2>5. \A d \in Caller : d # c => r[d] # x
    <3> SUFFICES ASSUME NEW d \in Caller, d # c, r[d] = x PROVE FALSE
      OBVIOUS
    <3>1. r[d] # Null /\ r[d].ptr = t[i].start
      BY <2>4
    <3>2. r[d] = y
      <4>1. IsBlock(r[d], t, i)
        BY <1>1, <2>1, <3>1, HeldBlock
      <4>. QED BY <4>1 DEF IsBlock
    <3>. QED BY <2>1, <2>2, <3>1, <3>2 DEF Distinct
  <2> HIDE DEF x, y
  <2>6. Updated(r, c, x, s)
    BY DEF x, Updated, GetsBlock
  <2>7. Regions(s) = (Regions(r) \ {r[c]}) \cup {x} /\ Distinct(s)
    BY <2>1, <2>4, <2>5, <2>6, RegionsChange
  <2>. QED BY <1>1, <2>1, <2>2, <2>3, <2>7 DEF Good, Agrees
<1>. QED BY <1>2, <1>3

\* A region moves: its new block is taken before its old one is freed.
LEMMA GoodMoved ==
  ASSUME NEW t, NEW l, NEW r, DOMAIN r = Caller, NEW isLost, NEW isAliased,
         Good(t, l, r, isLost, isAliased), NEW c \in Caller, r[c] # Null,
         NEW h, h = Page!Seek(t, r[c].ptr), h \in Valid(t),
         NEW i, \E p \in 1 .. Len(l) : l[p] = i, NEW pages \in Nat \ {0}, Page!Fits(t, i, pages),
         NEW u, TakenFrom(t, i, pages, u),
         NEW s, GetsBlock(r, c, t, i, pages, s),
         NEW nowLost, NEW nowAliased, Noted(t, i, pages, isLost, isAliased, nowLost, nowAliased)
  PROVE  \E m : Good(Page!Freed(u, r[c].ptr), m, s, nowLost, nowAliased)
<1> DEFINE ptr == r[c].ptr
           x == [ptr |-> t[i].start, pages |-> pages]
           v == Page!Freed(u, ptr)
           g == Page!Seek(u, ptr)
<1>1. Sound(t, l) /\ (isLost \/ Covers(t, l)) /\ (isAliased \/ Agrees(t, l, r)) /\ IsTable(t)
  BY DEF Good, Sound
<1>2. i \in Valid(t) /\ t[i].free /\ t[i].start \in Nat
  <2>1. i \in Valid(t)
    BY <1>1, ListType
  <2>. QED BY <1>1, <2>1, TableType DEF Page!Fits
<1>3. t[h].start = ptr
  <2>1. h # 0
    BY <1>1, TableType
  <2>. QED BY <1>1, <2>1, SeekIs
<1>4. PICK m :
        /\ Sound(u, m)
        /\ (t[i].pages > pages /\ Page!Place(t) = 0) \/ (Covers(t, l) => Covers(u, m))
        /\ Whole(t) /\ NoneJoinable(t, l) /\ pages # 0 /\ t[i].pages # pages =>
             Whole(u) /\ NoneJoinable(u, m) /\ ComesToUse(t, i, pages, u)
  BY <1>1, TakenIs
<1>5. PICK w :
        /\ Sound(v, w)
        /\ Covers(u, m) => Covers(v, w)
        /\ Whole(u) /\ g \in Valid(u) =>
             /\ Whole(v) /\ NoneJoinable(v, w)
             /\ InUse(v) = InUse(u) \ {[ptr |-> ptr, pages |-> u[g].pages]}
  BY <1>4, FreedIs
<1>6. ASSUME ~isAliased, t[i].pages # pages PROVE Agrees(v, w, s)
  <2>1. Agrees(t, l, r) /\ Whole(t) /\ NoneJoinable(t, l) /\ Regions(r) = InUse(t) /\ Distinct(r)
    BY <1>1, <1>6 DEF Agrees
  <2>2. Whole(u) /\ NoneJoinable(u, m) /\ InUse(u) = InUse(t) \cup {x}
    BY <1>4, <1>6, <2>1 DEF ComesToUse
  <2>3. ~t[h].free /\ r[c] = [ptr |-> ptr, pages |-> t[h].pages]
    <3>1. IsBlock(r[c], t, h)
      BY <1>1, <1>3, <2>1, HeldBlock
    <3>. QED BY <1>3, <3>1 DEF IsBlock
  <2>4. h # i
    BY <1>2, <2>3
  <2>5. g \in Valid(u) /\ u[g].pages = t[h].pages
    <3>1. OthersKept(t, i, u)
      BY <1>1, TakenIs
    <3>2. IsTable(u)
      BY <1>4 DEF Sound
    <3>. QED BY <1>1, <2>2, <2>4, <3>1, <3>2, SeekAfterTaken
  <2>6. x # Null
    BY <1>2, RegionNotNull
  <2>7. \A d \in Caller : r[d] # x
    <3>1. \A d \in Caller : r[d] # Null => r[d] # x
      BY <1>1, <1>2, <2>1, FreeBlock
    <3>. QED BY <2>6, <3>1
  <2> HIDE DEF x, g, v, ptr
  <2>8. Updated(r, c, x, s)
    BY DEF x, Updated, GetsBlock
  <2>9. Whole(v) /\ NoneJoinable(v, w) /\ InUse(v) = (InUse(t) \cup {x}) \ {r[c]}
    BY <1>5, <2>2, <2>3, <2>5
  <2>10. Regions(s) = (Regions(r) \ {r[c]}) \cup {x} /\ Distinct(s)
    <3>1. DOMAIN r = Caller /\ r[c] # Null /\ c \in Caller /\ Distinct(r)
      BY <2>1
    <3>. QED BY ONLY <2>6, <2>7, <2>8, <3>1, RegionsChange
  <2>11. Regions(s) = InUse(v)
    BY <2>1, <2>7, <2>9, <2>10
  <2>. QED BY <2>9, <2>10, <2>11 DEF Agrees
<1> HIDE DEF v
<1>7. /\ isLost \/ (t[i].pages > pages /\ Page!Place(t) = 0) => nowLost
      /\ isAliased \/ t[i].pages = pages => nowAliased
  BY DEF Noted
<1>8. Good(v, w, s, nowLost, nowAliased)
  BY <1>1, <1>4, <1>5, <1>6, <1>7 DEF Good
<1>. QED BY <1>8 DEF v

LEMMA PageStarts == Page!Init => TableInv
<1> SUFFICES ASSUME Page!Init PROVE TableInv
  OBVIOUS
<1> DEFINE d == [next |-> 0, start |-> 0, pages |-> Pages, free |-> TRUE, valid |-> TRUE]
           l == <<1>>
<1>1. /\ table = <<d>> /\ region = [c \in Caller |-> Null]
      /\ aliased = FALSE /\ astray = FALSE /\ lost = FALSE /\ ret = Null
  BY DEF Page!Init
<1>2. Pages \in Nat /\ Pages > 0 /\ Descriptors \in Nat /\ Descriptors >= 1
  BY PageTypes
<1>3. d \in Page!Descriptor
  BY <1>2 DEF Page!Descriptor
<1>4. /\ d.next = 0 /\ d.start = 0 /\ d.pages = Pages /\ d.free = TRUE /\ d.valid = TRUE
  OBVIOUS
<1> HIDE DEF d
<1>5. Len(table) = 1 /\ DOMAIN table = {1} /\ table[1] = d /\ table \in Seq(Page!Descriptor)
  BY <1>1, <1>3
<1>6. IsTable(table)
  BY <1>2, <1>4, <1>5 DEF IsTable
<1>7. Valid(table) = {1} /\ End(table, 1) = Pages
  BY <1>2, <1>4, <1>5 DEF Valid, End
<1>8. Linked(table)
  <2>1. table[1].start < Pages /\ End(table, 1) <= Pages
    BY <1>2, <1>4, <1>5, <1>7
  <2>. QED BY <1>4, <1>5, <1>7, <2>1 DEF Linked
<1>9. Len(l) = 1 /\ l[1] = 1 /\ l \in Seq({1}) /\ Len(l) \in Nat
  OBVIOUS
<1> HIDE DEF l
<1>10. IsList(table, l)
  BY <1>4, <1>5, <1>7, <1>9 DEF IsList
<1>11. Covers(table, l)
  BY <1>7, <1>9 DEF Covers
<1>12. Whole(table) /\ NoneJoinable(table, l)
  BY <1>2, <1>4, <1>5, <1>7, <1>9 DEF Whole, NoneJoinable
<1>13. Regions(region) = {} /\ Distinct(region)
  BY <1>1 DEF Regions, Distinct
<1>14. InUse(table) = {}
  BY <1>4, <1>5, <1>7 DEF InUse
<1>15. Good(table, l, region, lost, aliased)
  BY <1>6, <1>8, <1>10, <1>11, <1>12, <1>13, <1>14 DEF Good, Sound, Agrees
<1>16. region \in [Caller -> {Null} \cup [ptr : 0 .. Pages - 1, pages : Nat]]
  BY <1>1
<1>. QED BY <1>1, <1>6, <1>15, <1>16 DEF TableInv

\* The place of a block that a table of the list has
LEMMA BlockPlace ==
  ASSUME NEW t, NEW l, Sound(t, l), NEW i \in Valid(t)
  PROVE  t[i].start \in 0 .. Pages - 1 /\ t[i].start \in Nat /\ t[i].pages \in Nat
<1>1. t[i].start \in Nat /\ t[i].pages \in Nat /\ t[i].start < Pages /\ Pages \in Nat
  BY TableType, PageTypes DEF Sound, Linked
<1>. QED BY <1>1

LEMMA RegionType ==
  ASSUME NEW c \in Caller, region \in [Caller -> {Null} \cup [ptr : 0 .. Pages - 1, pages : Nat]],
         region[c] # Null
  PROVE  region[c].ptr \in 0 .. Pages - 1 /\ region[c].ptr \in Nat
         /\ region[c] = [ptr |-> region[c].ptr, pages |-> region[c].pages]
<1>1. region[c] \in [ptr : 0 .. Pages - 1, pages : Nat]
  OBVIOUS
<1>. QED BY <1>1, PageTypes

\* What FirstFit says of a table that is good.
LEMMA FoundBlock ==
  ASSUME NEW t, NEW l, Sound(t, l), NEW pages, Page!FirstFit(t, pages) # 0
  PROVE  /\ \E p \in 1 .. Len(l) : l[p] = Page!FirstFit(t, pages)
         /\ Page!Fits(t, Page!FirstFit(t, pages), pages)
         /\ Page!FirstFit(t, pages) \in Valid(t)
  BY FirstFitIs, ListType

LEMMA PageRefuse ==
  ASSUME TableInv, ~astray, Page!Refuse, astray' \in BOOLEAN
  PROVE  TableInv'
<1>1. UNCHANGED <<table, region, aliased, lost>> /\ ret' = Null
  BY DEF Page!Refuse
<1>. QED BY <1>1 DEF TableInv

LEMMA PageAlloc ==
  ASSUME TableInv, ~astray, NEW c \in Caller, NEW n \in PageBytes, Page!Alloc(c, n)
  PROVE  TableInv'
<1> DEFINE pages == Page!PagesFromSize(n)
           i == Page!FirstFit(table, pages)
           x == [ptr |-> table[i].start, pages |-> pages]
<1>1. PICK l : Good(table, l, region, lost, aliased)
  BY DEF TableInv
<1>2. pages \in Nat /\ region[c] = Null /\ astray' = astray
  BY PagesFromSizeType DEF Page!Alloc
<1>3. CASE i = 0
  <2>1. Page!Refuse
    BY <1>3 DEF Page!Alloc
  <2>2. astray' \in BOOLEAN
    BY <1>2 DEF TableInv
  <2>. QED BY <2>1, <2>2, PageRefuse
<1>4. CASE i # 0
  <2>1. Page!Give(c, i, pages)
    BY <1>4 DEF Page!Alloc
  <2> HIDE DEF pages, i
  <2>2. /\ table' = Page!Taken(table, i, pages)
        /\ region' = [region EXCEPT ![c] = x]
        /\ aliased' = (aliased \/ table[i].pages = pages \/ pages = 0)
        /\ lost' = (lost \/ (table[i].pages > pages /\ Page!Place(table) = 0))
        /\ ret' = table[i].start
    BY <2>1 DEF Page!Give
  <2>3. Sound(table, l)
    BY <1>1 DEF Good
  <2>4. /\ \E p \in 1 .. Len(l) : l[p] = i
        /\ Page!Fits(table, i, pages) /\ i \in Valid(table)
    BY <1>4, <2>3, FoundBlock DEF i
  <2>5. /\ table[i].start \in 0 .. Pages - 1
        /\ x \in [ptr : 0 .. Pages - 1, pages : Nat]
    BY <1>2, <2>3, <2>4, BlockPlace
  <2>6. region \in [Caller -> {Null} \cup [ptr : 0 .. Pages - 1, pages : Nat]]
    BY DEF TableInv
  <2>7. region' \in [Caller -> {Null} \cup [ptr : 0 .. Pages - 1, pages : Nat]]
    BY <2>2, <2>5, <2>6
  <2>8. TakenFrom(table, i, pages, table') /\ GetsBlock(region, c, table, i, pages, region')
    BY <2>2 DEF TakenFrom, GetsBlock
  <2>9. Noted(table, i, pages, lost, aliased, lost', aliased')
    BY <2>2 DEF Noted
  <2>10. PICK m : Good(table', m, region', lost', aliased')
    <3>1. region[c] = Null /\ c \in Caller /\ pages \in Nat
      BY <1>2 DEF pages
    <3>2. DOMAIN region = Caller
      BY <2>6
    <3>. QED BY <1>1, <2>4, <2>8, <2>9, <3>1, <3>2, GoodGiven
  <2>11. IsTable(table') /\ aliased' \in BOOLEAN /\ lost' \in BOOLEAN /\ astray' \in BOOLEAN
    <3>1. IsTable(table')
      BY <2>10 DEF Good, Sound
    <3>2. astray' \in BOOLEAN
      BY <1>2 DEF TableInv
    <3>. QED BY <2>2, <3>1, <3>2
  <2>. QED BY <2>2, <2>5, <2>7, <2>10, <2>11 DEF TableInv
<1>. QED BY <1>3, <1>4

\* What is remembered of a search that did not go astray.
LEMMA Searched ==
  ASSUME NEW i, Page!Search(i), IsTable(table), i = 0 \/ i \in 1 .. Len(table), ~astray
  PROVE  astray' \in BOOLEAN /\ (~astray' => i \in Valid(table))
<1>1. astray' = (astray \/ i = 0 \/ ~table[i].valid)
  BY DEF Page!Search
<1>2. DOMAIN table = 1 .. Len(table)
  BY TableType
<1>. QED BY <1>1, <1>2 DEF Valid

LEMMA PageFree ==
  ASSUME TableInv, ~astray, NEW c \in Caller, Page!Free(c)
  PROVE  TableInv'
<1> DEFINE ptr == region[c].ptr
           i == Page!Seek(table, ptr)
<1>1. PICK l : Good(table, l, region, lost, aliased)
  BY DEF TableInv
<1>2. /\ region[c] # Null /\ table' = Page!Freed(table, ptr)
      /\ region' = [region EXCEPT ![c] = Null] /\ ret' = Null
      /\ Page!Search(i) /\ UNCHANGED <<aliased, lost>>
  BY DEF Page!Free
<1>3. Sound(table, l) /\ IsTable(table)
  BY <1>1 DEF Good, Sound
<1>4. region \in [Caller -> {Null} \cup [ptr : 0 .. Pages - 1, pages : Nat]] /\ DOMAIN region = Caller
  BY DEF TableInv
<1>5. region' \in [Caller -> {Null} \cup [ptr : 0 .. Pages - 1, pages : Nat]]
  BY <1>2, <1>4
<1>6. IsTable(table')
  <2>1. PICK m : Sound(Page!Freed(table, ptr), m)
    BY <1>3, FreedIs
  <2>. QED BY <1>2, <2>1 DEF Sound
<1>7. i = 0 \/ i \in 1 .. Len(table)
  BY <1>3, SeekIs
<1> HIDE DEF i
<1>8. astray' \in BOOLEAN /\ (~astray' => i \in Valid(table))
  BY <1>2, <1>3, <1>7, Searched
<1>9. Updated(region, c, Null, region')
  BY <1>2 DEF Updated
<1>10. ASSUME ~astray' PROVE \E m : Good(table', m, region', lost', aliased')
  <2>1. Page!Seek(table, region[c].ptr) \in Valid(table)
    BY <1>8, <1>10 DEF i
  <2>2. PICK m : Good(Page!Freed(table, region[c].ptr), m, region', lost, aliased)
    BY <1>1, <1>2, <1>4, <1>9, <2>1, GoodFreed
  <2>. QED BY <1>2, <2>2
<1>11. aliased' \in BOOLEAN /\ lost' \in BOOLEAN
  BY <1>2 DEF TableInv
<1>. QED BY <1>2, <1>5, <1>6, <1>8, <1>10, <1>11 DEF TableInv

\* The next three are the cases of realloc that change the table or what is held.
LEMMA PageGrow ==
  ASSUME TableInv, ~astray, NEW c \in Caller, region[c] # Null, NEW pages \in Nat,
         NEW i, i = Page!Seek(table, region[c].ptr), Page!Search(i), i # 0,
         pages > table[i].pages, Page!CanGrow(table, i, pages),
         table' = Page!Grown(table, i, pages - table[i].pages),
         region' = [region EXCEPT ![c].pages = pages], ret' = region[c].ptr,
         UNCHANGED <<aliased, lost>>
  PROVE  TableInv'
<1>1. PICK l : Good(table, l, region, lost, aliased)
  BY DEF TableInv
<1>2. Sound(table, l) /\ IsTable(table)
  BY <1>1 DEF Good, Sound
<1>3. region \in [Caller -> {Null} \cup [ptr : 0 .. Pages - 1, pages : Nat]] /\ DOMAIN region = Caller
  BY DEF TableInv
<1>4. region[c].ptr \in 0 .. Pages - 1
      /\ region[c] = [ptr |-> region[c].ptr, pages |-> region[c].pages]
  BY <1>3, RegionType
<1>5. i \in 1 .. Len(table) /\ table[i].start = region[c].ptr
  BY <1>2, SeekIs
<1>6. GrownTo(table, i, pages, table')
  BY DEF GrownTo
<1>7. IsTable(table')
  BY <1>2, <1>5, <1>6, GrownType
<1>8. region' = [region EXCEPT ![c] = [ptr |-> table[i].start, pages |-> pages]]
  <2>1. [region[c] EXCEPT !.pages = pages] = [ptr |-> table[i].start, pages |-> pages]
    BY <1>4, <1>5
  <2>. QED BY <1>3, <2>1
<1>9. region' \in [Caller -> {Null} \cup [ptr : 0 .. Pages - 1, pages : Nat]]
  <2>1. [ptr |-> table[i].start, pages |-> pages] \in [ptr : 0 .. Pages - 1, pages : Nat]
    BY <1>4, <1>5
  <2>. QED BY <1>3, <1>8, <2>1
<1>10. astray' \in BOOLEAN /\ (~astray' => i \in Valid(table))
  BY <1>2, <1>5, Searched
<1>11. GetsBlock(region, c, table, i, pages, region')
  BY <1>8 DEF GetsBlock
<1>12. ASSUME ~astray' PROVE \E m : Good(table', m, region', lost', aliased')
  <2>1. i \in Valid(table)
    BY <1>10, <1>12
  <2>2. PICK m : Good(table', m, region', lost, aliased)
    BY <1>1, <1>3, <1>5, <1>6, <1>11, <2>1, GoodGrown
  <2>. QED BY <2>2
<1>13. aliased' \in BOOLEAN /\ lost' \in BOOLEAN
  BY DEF TableInv
<1>. QED BY <1>4, <1>7, <1>9, <1>10, <1>12, <1>13 DEF TableInv

LEMMA PageMove ==
  ASSUME TableInv, ~astray, NEW c \in Caller, region[c] # Null, NEW pages \in Nat,
         NEW i, i = Page!Seek(table, region[c].ptr), Page!Search(i), i # 0,
         pages > table[i].pages,
         NEW k, k = Page!FirstFit(table, pages), k # 0,
         table' = Page!Freed(Page!Taken(table, k, pages), region[c].ptr),
         region' = [region EXCEPT ![c] = [ptr |-> table[k].start, pages |-> pages]],
         aliased' = (aliased \/ table[k].pages = pages),
         lost' = (lost \/ (table[k].pages > pages /\ Page!Place(table) = 0)),
         ret' = table[k].start
  PROVE  TableInv'
<1> DEFINE u == Page!Taken(table, k, pages)
<1>1. PICK l : Good(table, l, region, lost, aliased)
  BY DEF TableInv
<1>2. Sound(table, l) /\ IsTable(table)
  BY <1>1 DEF Good, Sound
<1>3. region \in [Caller -> {Null} \cup [ptr : 0 .. Pages - 1, pages : Nat]] /\ DOMAIN region = Caller
  BY DEF TableInv
<1>4. i \in 1 .. Len(table)
  BY <1>2, SeekIs
<1>5. pages \in Nat \ {0}
  <2>1. table[i].pages \in Nat
    BY <1>2, <1>4, TableType
  <2>. QED BY <2>1
<1>6. /\ \E p \in 1 .. Len(l) : l[p] = k
      /\ Page!Fits(table, k, pages) /\ k \in Valid(table)
  BY <1>2, FoundBlock
<1>7. /\ table[k].start \in 0 .. Pages - 1
      /\ [ptr |-> table[k].start, pages |-> pages] \in [ptr : 0 .. Pages - 1, pages : Nat]
  BY <1>2, <1>6, BlockPlace
<1>8. region' \in [Caller -> {Null} \cup [ptr : 0 .. Pages - 1, pages : Nat]]
  BY <1>3, <1>7
<1>9. TakenFrom(table, k, pages, u)
  BY DEF TakenFrom
<1> HIDE DEF u
<1>10. table' = Page!Freed(u, region[c].ptr)
  BY DEF u
<1>11. GetsBlock(region, c, table, k, pages, region')
  BY DEF GetsBlock
<1>12. Noted(table, k, pages, lost, aliased, lost', aliased')
  BY <1>5 DEF Noted
<1>13. astray' \in BOOLEAN /\ (~astray' => i \in Valid(table))
  BY <1>2, <1>4, Searched
<1>14. IsTable(table')
  <2>1. PICK m : Sound(u, m)
    BY <1>2, <1>6, <1>9, TakenIs
  <2>2. PICK w : Sound(Page!Freed(u, region[c].ptr), w)
    BY <2>1, FreedIs
  <2>. QED BY <1>10, <2>2 DEF Sound
<1>15. ASSUME ~astray' PROVE \E m : Good(table', m, region', lost', aliased')
  <2>1. i \in Valid(table)
    BY <1>13, <1>15
  <2>2. PICK m : Good(Page!Freed(u, region[c].ptr), m, region', lost', aliased')
    BY <1>1, <1>3, <1>5, <1>6, <1>9, <1>11, <1>12, <2>1, GoodMoved
  <2>. QED BY <1>10, <2>2
<1>16. aliased' \in BOOLEAN /\ lost' \in BOOLEAN
  OBVIOUS
<1>. QED BY <1>7, <1>8, <1>13, <1>14, <1>15, <1>16 DEF TableInv

\* A region that moves may be copied over the table.
LEMMA PageMoveOver ==
  ASSUME TableInv, ~astray, NEW c \in Caller, NEW pages \in Nat,
         NEW k, k = Page!FirstFit(table, pages), k # 0, table' = <<>>,
         region' = [region EXCEPT ![c] = [ptr |-> table[k].start, pages |-> pages]],
         ret' = table[k].start
  PROVE  TableGone'
<1>1. PICK l : Good(table, l, region, lost, aliased)
  BY DEF TableInv
<1>2. Sound(table, l)
  BY <1>1 DEF Good
<1>3. k \in Valid(table)
  BY <1>2, FoundBlock
<1>4. /\ table[k].start \in 0 .. Pages - 1
      /\ [ptr |-> table[k].start, pages |-> pages] \in [ptr : 0 .. Pages - 1, pages : Nat]
  BY <1>2, <1>3, BlockPlace
<1>5. region \in [Caller -> {Null} \cup [ptr : 0 .. Pages - 1, pages : Nat]]
  BY DEF TableInv
<1>. QED BY <1>4, <1>5 DEF TableGone

LEMMA PageRealloc ==
  ASSUME TableInv, ~astray, NEW c \in Caller, NEW n \in PageBytes, Page!Realloc(c, n)
  PROVE  PageInv'
<1> DEFINE pages == Page!PagesFromSize(n)
           i == Page!Seek(table, region[c].ptr)
           k == Page!FirstFit(table, pages)
<1>1. pages \in Nat /\ region[c] # Null /\ Page!Search(i)
  BY PagesFromSizeType DEF Page!Realloc
<1>2. IsTable(table) /\ (i = 0 \/ i \in 1 .. Len(table))
  BY SeekIs DEF TableInv
<1>3. \/ i = 0 /\ Page!Refuse
      \/ /\ i # 0 /\ pages <= table[i].pages
         /\ ret' = region[c].ptr
         /\ UNCHANGED <<table, region, aliased, lost>>
      \/ /\ i # 0 /\ pages > table[i].pages /\ Page!CanGrow(table, i, pages)
         /\ table' = Page!Grown(table, i, pages - table[i].pages)
         /\ region' = [region EXCEPT ![c].pages = pages]
         /\ ret' = region[c].ptr
         /\ UNCHANGED <<aliased, lost>>
      \/ /\ i # 0 /\ pages > table[i].pages /\ ~Page!CanGrow(table, i, pages) /\ k = 0
         /\ Page!Refuse
      \/ /\ i # 0 /\ pages > table[i].pages /\ ~Page!CanGrow(table, i, pages) /\ k # 0
         /\ table' = IF Page!Destroys(table[k].start, table[i].pages) THEN <<>>
                      ELSE Page!Freed(Page!Taken(table, k, pages), region[c].ptr)
         /\ region' = [region EXCEPT ![c] = [ptr |-> table[k].start, pages |-> pages]]
         /\ aliased' = (aliased \/ table[k].pages = pages)
         /\ lost' = (lost \/ (table[k].pages > pages /\ Page!Place(table) = 0))
         /\ ret' = table[k].start
  BY DEF Page!Realloc
<1>4. i = Page!Seek(table, region[c].ptr) /\ k = Page!FirstFit(table, pages)
  OBVIOUS
<1> HIDE DEF pages, i, k
<1>5. astray' \in BOOLEAN
  BY <1>1, <1>2, Searched
<1>6. CASE Page!Refuse
  BY <1>5, <1>6, PageRefuse, PageCases
<1>7. CASE ret' = region[c].ptr /\ UNCHANGED <<table, region, aliased, lost>>
  <2>1. region[c].ptr \in 0 .. Pages - 1
    BY <1>1, RegionType DEF TableInv
  <2>2. TableInv'
    BY <1>5, <1>7, <2>1 DEF TableInv
  <2>. QED BY <2>2, PageCases
<1>8. CASE /\ i # 0 /\ pages > table[i].pages /\ Page!CanGrow(table, i, pages)
           /\ table' = Page!Grown(table, i, pages - table[i].pages)
           /\ region' = [region EXCEPT ![c].pages = pages]
           /\ ret' = region[c].ptr
           /\ UNCHANGED <<aliased, lost>>
  BY <1>1, <1>4, <1>8, PageGrow, PageCases
<1>9. CASE /\ i # 0 /\ pages > table[i].pages /\ k # 0
           /\ table' = Page!Freed(Page!Taken(table, k, pages), region[c].ptr)
           /\ region' = [region EXCEPT ![c] = [ptr |-> table[k].start, pages |-> pages]]
           /\ aliased' = (aliased \/ table[k].pages = pages)
           /\ lost' = (lost \/ (table[k].pages > pages /\ Page!Place(table) = 0))
           /\ ret' = table[k].start
  BY <1>1, <1>4, <1>9, PageMove, PageCases
<1>10. CASE /\ k # 0 /\ table' = <<>>
            /\ region' = [region EXCEPT ![c] = [ptr |-> table[k].start, pages |-> pages]]
            /\ ret' = table[k].start
  BY <1>1, <1>4, <1>10, PageMoveOver, PageCases
<1>. QED BY <1>3, <1>6, <1>7, <1>8, <1>9, <1>10

LEMMA PageKeeps == PageInv /\ [Page!Next]_pageVars => PageInv'
<1> SUFFICES ASSUME PageInv, [Page!Next]_pageVars PROVE PageInv'
  OBVIOUS
<1>1. table # <<>> => TableInv
  BY DEF PageInv
<1>2. ASSUME TableInv, ~astray, NEW c \in Caller, NEW n \in PageBytes, Page!Alloc(c, n)
      PROVE  PageInv'
  BY <1>2, PageAlloc, PageCases
<1>3. ASSUME TableInv, ~astray, NEW c \in Caller, NEW n \in PageBytes, Page!Realloc(c, n)
      PROVE  PageInv'
  BY <1>3, PageRealloc
<1>4. ASSUME TableInv, ~astray, NEW c \in Caller, Page!Free(c) PROVE PageInv'
  BY <1>4, PageFree, PageCases
<1>5. ASSUME NEW c \in Caller, Page!Use(c) PROVE PageInv'
  BY <1>5 DEF Page!Use, PageInv
<1>6. CASE UNCHANGED pageVars
  BY <1>6 DEF pageVars, PageInv, TableInv
<1>. QED BY <1>1, <1>2, <1>3, <1>4, <1>5, <1>6 DEF Page!Next

\* What a caller holds is a block in use, and what is in use somebody holds.
LEMMA HoldsBlock ==
  ASSUME NEW t, NEW l, NEW r, Agrees(t, l, r), NEW c \in Caller, r[c] # Null
  PROVE  \E i \in Valid(t) : IsBlock(r[c], t, i)
<1>1. r[c] \in InUse(t)
  BY DEF Agrees, Regions
<1>. QED BY <1>1 DEF InUse, IsBlock

LEMMA BlockIsHeld ==
  ASSUME NEW t, NEW l, NEW r, Agrees(t, l, r), NEW i \in Valid(t), ~t[i].free
  PROVE  \E c \in Caller : r[c] # Null /\ IsBlock(r[c], t, i)
<1>1. [ptr |-> t[i].start, pages |-> t[i].pages] \in InUse(t)
  BY DEF InUse
<1>2. PICK c \in {d \in Caller : r[d] # Null} : r[c] = [ptr |-> t[i].start, pages |-> t[i].pages]
  BY <1>1 DEF Agrees, Regions
<1>. QED BY <1>2 DEF IsBlock

LEMMA BlockHeldBy ==
  ASSUME NEW t, IsTable(t), NEW i \in Valid(t), NEW c, IsBlock(region[c], t, i)
  PROVE  Page!HeldBy(c) = t[i].start .. End(t, i) - 1
<1>1. t[i].start \in Nat /\ t[i].pages \in Nat
  BY TableType
<1>2. region[c].ptr = t[i].start /\ region[c].pages = t[i].pages
  BY DEF IsBlock
<1>3. t[i].start + (t[i].pages - 1) = End(t, i) - 1
  BY <1>1 DEF End
<1>4. Page!HeldBy(c) = t[i].start .. t[i].start + (t[i].pages - 1)
  BY <1>2 DEF Page!HeldBy
<1>. QED BY <1>3, <1>4

LEMMA PagesApart ==
  ASSUME PageInv
  PROVE  Page!HeldApart
<1> SUFFICES ASSUME ~aliased, ~astray, TableInv
             PROVE  /\ \A c \in Page!Holders : Page!HeldBy(c) \subseteq 0 .. Pages - 1
                    /\ \A c, d \in Page!Holders :
                         c # d => Page!HeldBy(c) \cap Page!HeldBy(d) = {}
                    /\ \A c \in Page!Holders : \E i \in DOMAIN table :
                         table[i].valid /\ ~table[i].free /\ table[i].start = region[c].ptr
                                        /\ table[i].pages >= region[c].pages
  BY DEF Page!HeldApart, Page!Intact, PageInv
<1>1. PICK l : Sound(table, l) /\ Agrees(table, l, region)
  BY DEF TableInv, Good
<1>2. /\ IsTable(table) /\ Whole(table) /\ Distinct(region)
      /\ \A i \in Valid(table) : /\ i \in DOMAIN table /\ table[i].valid
                                /\ table[i].start \in Nat /\ table[i].pages \in Nat
                                /\ End(table, i) \in Nat
  BY <1>1, TableType DEF Sound, Agrees, Valid
<1>3. \A c \in Page!Holders : c \in Caller /\ region[c] # Null
  BY DEF Page!Holders
<1>4. ASSUME NEW c \in Page!Holders, NEW d \in Page!Holders, c # d
      PROVE  Page!HeldBy(c) \cap Page!HeldBy(d) = {}
  <2>1. PICK i \in Valid(table) : IsBlock(region[c], table, i)
    BY <1>1, <1>3, HoldsBlock
  <2>2. PICK j \in Valid(table) : IsBlock(region[d], table, j)
    BY <1>1, <1>3, HoldsBlock
  <2>3. i # j
    BY <1>2, <1>3, <1>4, <2>1, <2>2 DEF Distinct, IsBlock
  <2>4. End(table, i) <= table[j].start \/ End(table, j) <= table[i].start
    BY <1>2, <2>3 DEF Whole
  <2>5. /\ Page!HeldBy(c) = table[i].start .. End(table, i) - 1
        /\ Page!HeldBy(d) = table[j].start .. End(table, j) - 1
    BY <1>2, <2>1, <2>2, BlockHeldBy
  <2>. QED BY <1>2, <2>4, <2>5
<1>5. ASSUME NEW c \in Page!Holders
      PROVE  \E i \in DOMAIN table :
               table[i].valid /\ ~table[i].free /\ table[i].start = region[c].ptr
                              /\ table[i].pages >= region[c].pages
  <2>1. PICK i \in Valid(table) : IsBlock(region[c], table, i)
    BY <1>1, <1>3, HoldsBlock
  <2>2. ~table[i].free /\ table[i].start = region[c].ptr /\ table[i].pages = region[c].pages
    BY <2>1 DEF IsBlock
  <2>3. table[i].pages >= region[c].pages
    BY <1>2, <2>2
  <2>. QED BY <1>2, <2>2, <2>3
<1>6. ASSUME NEW c \in Page!Holders PROVE Page!HeldBy(c) \subseteq 0 .. Pages - 1
  <2>1. PICK i \in Valid(table) : IsBlock(region[c], table, i)
    BY <1>1, <1>3, HoldsBlock
  <2>2. Page!HeldBy(c) = table[i].start .. End(table, i) - 1
    BY <1>2, <2>1, BlockHeldBy
  <2>3. End(table, i) <= Pages /\ Pages \in Nat
    BY <1>1, PageTypes DEF Sound, Linked
  <2>. QED BY <1>2, <2>2, <2>3
<1>. QED BY <1>4, <1>5, <1>6

LEMMA PagesTyped ==
  ASSUME PageInv
  PROVE  Page!TypeOK
<1>1. \A c \in Caller : region[c] # Null => region[c].ptr \in 0 .. Pages - 1
  BY RegionType DEF PageInv
<1>2. table \in Seq(Page!Descriptor) /\ Len(table) <= Descriptors
  <2>1. CASE table = <<>>
    <3>1. <<>> \in Seq(Page!Descriptor) /\ Len(<<>>) = 0
      OBVIOUS
    <3>. QED BY <2>1, <3>1, PageTypes
  <2>2. CASE table # <<>>
    <3>1. table \in Seq(Page!Descriptor) /\ Len(table) \in 1 .. Descriptors
      BY <2>2 DEF PageInv, TableInv, IsTable
    <3>. QED BY <3>1, PageTypes
  <2>. QED BY <2>1, <2>2
<1>3. ret = Null \/ ret \in 0 .. Pages - 1
  BY DEF PageInv
<1>. QED BY <1>1, <1>2, <1>3 DEF Page!TypeOK

LEMMA PagesInRow ==
  ASSUME PageInv
  PROVE  Page!Tiling /\ Page!NoFreeNeighbours
<1>1. ASSUME NEW l, Sound(table, l), ~lost => Covers(table, l)
      PROVE  /\ table[1].start = 0
             /\ \A k \in 1 .. Len(l) - 1 :
                  table[l[k]].start + table[l[k]].pages = table[l[k + 1]].start
             /\ table[l[Len(l)]].start + table[l[Len(l)]].pages <= Pages
             /\ ~lost => table[l[Len(l)]].start + table[l[Len(l)]].pages = Pages
             /\ ~lost => {i \in DOMAIN table : table[i].valid} = {l[k] : k \in DOMAIN l}
  <2>1. Linked(table) /\ IsList(table, l)
    BY <1>1 DEF Sound
  <2>2. /\ \A n \in 1 .. Len(l) : l[n] \in Valid(table) /\ l[n] # 0
        /\ Len(l) \in Nat \ {0} /\ DOMAIN l = 1 .. Len(l)
    <3>1. \A n \in 1 .. Len(l) : l[n] \in 1 .. Len(table)
      BY <1>1, ListType
    <3>2. 0 \notin 1 .. Len(table)
      BY <1>1, TableType DEF Sound
    <3>. QED BY <1>1, <3>1, <3>2, ListType
  <2>3. ASSUME NEW k \in 1 .. Len(l) - 1
        PROVE  table[l[k]].start + table[l[k]].pages = table[l[k + 1]].start
    <3>1. k \in 1 .. Len(l) /\ k + 1 \in 1 .. Len(l)
      BY <2>2
    <3>2. table[l[k]].next = l[k + 1] /\ l[k] \in Valid(table) /\ l[k + 1] # 0
      BY <2>1, <2>2, <3>1 DEF IsList
    <3>. QED BY <2>1, <3>2 DEF Linked, End
  <2>4. ASSUME ~lost PROVE {i \in DOMAIN table : table[i].valid} = {l[k] : k \in DOMAIN l}
    <3>1. {i \in DOMAIN table : table[i].valid} = Valid(table)
      BY DEF Valid
    <3>2. \A i \in Valid(table) : \E k \in DOMAIN l : l[k] = i
      BY <1>1, <2>2, <2>4 DEF Covers
    <3>3. \A k \in DOMAIN l : l[k] \in Valid(table)
      BY <2>2
    <3>. QED BY <3>1, <3>2, <3>3
  <2>5. l[Len(l)] \in Valid(table)
    BY <2>2
  <2>. QED BY <1>1, <2>1, <2>3, <2>4, <2>5 DEF Linked, Covers, End
<1>2. Page!Tiling
  <2> SUFFICES ASSUME ~astray, TableInv
               PROVE  /\ table[1].start = 0
                      /\ \A k \in 1 .. Len(Page!List(table)) - 1 :
                           table[Page!List(table)[k]].start + table[Page!List(table)[k]].pages
                             = table[Page!List(table)[k + 1]].start
                      /\ table[Page!List(table)[Len(Page!List(table))]].start
                           + table[Page!List(table)[Len(Page!List(table))]].pages <= Pages
                      /\ ~lost => table[Page!List(table)[Len(Page!List(table))]].start
                                    + table[Page!List(table)[Len(Page!List(table))]].pages = Pages
                      /\ ~lost => {i \in DOMAIN table : table[i].valid}
                                    = {Page!List(table)[k] : k \in DOMAIN Page!List(table)}
    BY DEF Page!Tiling, PageInv
  <2>1. PICK l : Sound(table, l) /\ (lost \/ Covers(table, l))
    BY DEF TableInv, Good
  <2>2. Page!List(table) = l
    BY <2>1, ListIs
  <2>. QED BY <1>1, <2>1, <2>2
<1>3. Page!NoFreeNeighbours
  <2> SUFFICES ASSUME ~aliased, ~astray, TableInv
               PROVE  \A k \in 1 .. Len(Page!List(table)) - 1 :
                        ~(table[Page!List(table)[k]].free /\ table[Page!List(table)[k + 1]].free)
    BY DEF Page!NoFreeNeighbours, Page!Intact, PageInv
  <2>1. PICK l : Sound(table, l) /\ NoneJoinable(table, l)
    BY DEF TableInv, Good, Agrees
  <2>2. Page!List(table) = l
    BY <2>1, ListIs
  <2>. QED BY <2>1, <2>2 DEF NoneJoinable
<1>. QED BY <1>2, <1>3

\* A row of pages that nobody holds is inside one free block.
LEMMA RoomInBlock ==
  ASSUME NEW l, Sound(table, l), Covers(table, l), Agrees(table, l, region),
         NEW pages \in 1 .. Pages, NEW p \in 0 .. Pages - pages,
         \A c \in Page!Holders : (p .. p + pages - 1) \cap Page!HeldBy(c) = {}
  PROVE  Page!FirstFit(table, pages) # 0
<1> SUFFICES ASSUME Page!FirstFit(table, pages) = 0 PROVE FALSE
  OBVIOUS
<1>1. /\ IsTable(table) /\ Linked(table) /\ Whole(table) /\ NoneJoinable(table, l)
      /\ Pages \in Nat /\ pages \in Nat /\ pages > 0 /\ p \in Nat /\ p + pages <= Pages
  BY PageTypes DEF Sound, Agrees
<1>2. /\ Len(l) \in Nat \ {0} /\ \A n \in 1 .. Len(l) : l[n] \in Valid(table) /\ l[n] \in 1 .. Len(table)
      /\ l[1] = 1 /\ \A n \in 1 .. Len(l) - 1 : table[l[n]].next = l[n + 1]
  BY ListType DEF Sound, IsList
<1>3. \A i \in Valid(table) : /\ table[i].start \in Nat /\ table[i].pages \in Nat
                             /\ table[i].pages > 0 /\ End(table, i) \in Nat
                             /\ End(table, i) = table[i].start + table[i].pages
  BY <1>1, TableType DEF Whole, End
<1>4. \A n \in 1 .. Len(l) : ~Page!Fits(table, l[n], pages)
  <2>1. \A n \in 1 .. Len(l) : l[n] # 0
    BY <1>1, <1>2, TableType
  <2>. QED BY <2>1, FirstFitIs
<1>5. ASSUME NEW i \in Valid(table), NEW q \in Nat, table[i].start <= q, q < End(table, i),
             p <= q, q < p + pages
      PROVE  table[i].free
  <2> SUFFICES ASSUME ~table[i].free PROVE FALSE
    OBVIOUS
  <2>1. PICK c \in Caller : region[c] # Null /\ IsBlock(region[c], table, i)
    BY BlockIsHeld
  <2>2. Page!HeldBy(c) = table[i].start .. End(table, i) - 1
    BY <1>1, <2>1, BlockHeldBy
  <2>3. q \in Page!HeldBy(c) /\ q \in p .. p + pages - 1
    BY <1>1, <1>3, <1>5, <2>2
  <2>4. c \in Page!Holders
    BY <2>1 DEF Page!Holders
  <2>. QED BY <2>3, <2>4
<1> DEFINE S == {n \in 1 .. Len(l) : p < End(table, l[n])}
<1>6. Len(l) \in S
  <2>1. End(table, l[Len(l)]) = Pages /\ p < Pages
    BY <1>1 DEF Covers
  <2>. QED BY <1>2, <2>1
<1>7. PICK n \in S : \A k \in S : n <= k
  <2>1. S \in SUBSET Nat
    BY <1>2
  <2> HIDE DEF S
  <2>. QED BY <1>6, <2>1, LeastOf
<1>8. n \in 1 .. Len(l) /\ p < End(table, l[n]) /\ l[n] \in Valid(table)
  BY <1>2
<1>9. table[l[n]].start <= p
  <2>1. CASE n = 1
    BY <1>1, <1>2, <2>1 DEF Linked
  <2>2. CASE n # 1
    <3>1. n - 1 \in 1 .. Len(l) /\ n - 1 \in 1 .. Len(l) - 1 /\ (n - 1) + 1 = n /\ ~(n <= n - 1)
      BY <1>2, <1>8, <2>2
    <3>2. n - 1 \notin S
      BY <1>7, <3>1
    <3>3. ~(p < End(table, l[n - 1])) /\ l[n - 1] \in Valid(table)
      BY <1>2, <3>1, <3>2
    <3>4. table[l[n - 1]].next = l[n] /\ l[n] # 0
      BY <1>1, <1>2, <1>8, <3>1, TableType
    <3>5. table[l[n]].start = End(table, l[n - 1])
      BY <1>1, <3>3, <3>4 DEF Linked
    <3>. QED BY <1>1, <1>3, <1>8, <3>3, <3>5
  <2>. QED BY <2>1, <2>2
<1> HIDE DEF S
<1>10. table[l[n]].free
  BY <1>1, <1>5, <1>8, <1>9
<1>11. End(table, l[n]) < p + pages
  <2>1. ~(table[l[n]].pages >= pages)
    BY <1>4, <1>8, <1>10 DEF Page!Fits
  <2>. QED BY <1>1, <1>3, <1>8, <1>9, <2>1
<1>12. n \in 1 .. Len(l) - 1 /\ n + 1 \in 1 .. Len(l)
  <2>1. n # Len(l)
    BY <1>1, <1>11 DEF Covers
  <2>. QED BY <1>2, <1>8, <2>1
<1>13. l[n + 1] \in Valid(table) /\ table[l[n + 1]].start = End(table, l[n])
  <2>1. table[l[n]].next = l[n + 1] /\ l[n + 1] \in Valid(table) /\ l[n + 1] # 0
    BY <1>1, <1>2, <1>12, TableType
  <2>. QED BY <1>1, <1>8, <2>1 DEF Linked
<1>14. table[l[n + 1]].free
  <2>1. End(table, l[n]) < End(table, l[n + 1]) /\ End(table, l[n]) \in Nat
    BY <1>3, <1>8, <1>13
  <2>2. /\ table[l[n + 1]].start <= End(table, l[n]) /\ p <= End(table, l[n])
    BY <1>1, <1>8, <1>13, <2>1
  <2>. QED BY <1>5, <1>11, <1>13, <2>1, <2>2
<1>. QED BY <1>1, <1>10, <1>12, <1>14 DEF NoneJoinable

LEMMA PagesFound ==
  ASSUME PageInv
  PROVE  Page!RoomIsFound
<1> SUFFICES ASSUME ~aliased, ~astray, ~lost, TableInv, NEW pages \in 1 .. Pages, Page!Room(pages)
             PROVE  Page!FirstFit(table, pages) # 0
  BY DEF Page!RoomIsFound, Page!Intact, PageInv
<1>1. PICK l : Sound(table, l) /\ Covers(table, l) /\ Agrees(table, l, region)
  BY DEF TableInv, Good
<1>2. PICK p \in 0 .. Pages - pages :
        \A c \in Page!Holders : (p .. p + pages - 1) \cap Page!HeldBy(c) = {}
  BY DEF Page!Room
<1>. QED BY <1>1, <1>2, RoomInBlock

-----------------------------------------------------------------------------
(* The group *)

AllocatorInv == PageInv /\ DebugInv /\ ArenaInv

LEMMA StepOfParts ==
  [Next]_vars => [Page!Next]_pageVars /\ [Debug!Next]_debugVars /\ [Arena!Next]_arenaVars
<1> SUFFICES ASSUME [Next]_vars
             PROVE  [Page!Next]_pageVars /\ [Debug!Next]_debugVars /\ [Arena!Next]_arenaVars
  OBVIOUS
<1>1. CASE Next
  BY <1>1 DEF Next
<1>2. CASE UNCHANGED vars
  BY <1>2 DEF vars
<1>. QED BY <1>1, <1>2

LEMMA AllocatorAlways == Spec => []AllocatorInv
<1>1. Init => AllocatorInv
  BY PageStarts, PageCases, DebugStarts, ArenaStarts DEF Init, AllocatorInv
<1>2. AllocatorInv /\ [Next]_vars => AllocatorInv'
  BY StepOfParts, PageKeeps, DebugKeeps, ArenaKeeps DEF AllocatorInv
<1>. QED BY <1>1, <1>2, PTL DEF Spec

\* As long as nobody wrote over the page allocator's table, which stands on the first page
\* it hands out: its blocks stand in a row from page 0 over every sequence of splits, joins
\* and moves, up to the last page while no descriptor was missing; and until a block is
\* handed out twice, free neighbours are one block and no request is refused that would
\* fit (kernel_page_allocator.h).
THEOREM PagesAlwaysTiled == Spec => []PagesTiled
<1>1. AllocatorInv => PagesTiled
  BY PagesTyped, PagesInRow, PagesFound DEF AllocatorInv, PagesTiled
<1>. QED BY <1>1, AllocatorAlways, PTL

\* No two callers hold the same page, and what they hold are pages of the memory, until a
\* block was handed out twice or the table was written over; nor the same byte of an
\* arena, until a block was grown over the next; what is held of an arena is inside its
\* memory and past its own state.
THEOREM HeldAlwaysApart == Spec => []HeldApart
<1>1. AllocatorInv => HeldApart
  BY PagesApart, ArenaHolds DEF AllocatorInv, HeldApart
<1>. QED BY <1>1, AllocatorAlways, PTL

\* The debug allocator's count of bytes never falls below what is held, whatever its map had
\* no memory for, and is exact while it missed nothing; its count of blocks is one too many
\* for each block that realloc got, and lower only after a free of the null pointer
\* (xstd_alloc_debug.h).
THEOREM CountsAlwaysCover == Spec => []CountsCoverHeld
<1>1. AllocatorInv => CountsCoverHeld
  BY DebugHolds DEF AllocatorInv, CountsCoverHeld
<1>. QED BY <1>1, AllocatorAlways, PTL
=============================================================================
