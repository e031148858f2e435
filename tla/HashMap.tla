-------------------------------- MODULE HashMap --------------------------------
(***************************************************************************)
(* xstd/xstd_hashmap.h: buckets of linked entries, doubled when the load      *)
(* passes three quarters, on an allocator that may refuse any request.      *)
(***************************************************************************)
EXTENDS Naturals, Sequences, FiniteSets, Ranking

CONSTANTS
  Key, Value,
  Nothing,        \* no value
  Hash,           \* __hashmap_fnv1a32 of each key
  InitialSize,    \* _X_HASHMAP_INITIAL_SIZE
  InitialCounts   \* the counts of buckets that callers ask for

ASSUME HashAssumption == Hash \in [Key -> Nat]
ASSUME SizeAssumption == InitialSize \in Nat \ {0} /\ InitialCounts \subseteq Nat

VARIABLES
  count,      \* map->_bucketCount; 0 when the map is not initialised
  buckets,    \* map->_buckets: the entries of each, the first of its list first
  size,       \* map->_size
  allocated,  \* history: how many blocks of memory the map has
  ret         \* what the last call returned: its error code, its value (for
              \* hashmap_size the size), and the entries its callback was given

vars == <<count, buckets, size, allocated, ret>>

Entry == [key : Key, value : Value]

Return(error, value) == ret' = [error |-> error, value |-> value, visited |-> <<>>]

Init == /\ count = 0 /\ buckets = <<>> /\ size = 0
        /\ allocated = 0
        /\ ret = [error |-> "ok", value |-> Nothing, visited |-> <<>>]

-----------------------------------------------------------------------------
(* Buckets *)

\* Entry p is the first in the list b with the key.  (Its hash is compared too:
\* equal keys have equal hashes.)
FirstWith(b, k, p) == b[p].key = k /\ \A q \in 1 .. p - 1 : b[q].key # k

Has(b, k) == \E p \in DOMAIN b : b[p].key = k

\* Where the entries are: their buckets and places in them, and the order in
\* which a loop over the buckets comes by.
Slots(bs) == UNION {{i} \X DOMAIN bs[i] : i \in DOMAIN bs}

EntryAt(bs, s) == bs[s[1]][s[2]]

ComesBefore(s, t) == s[1] < t[1] \/ (s[1] = t[1] /\ s[2] < t[2])

\* The entries as hashmap_for_each visits them.
Visited(bs) ==
  LET order == Ranked(Slots(bs), {p \in Slots(bs) \X Slots(bs) : ComesBefore(p[1], p[2])})
  IN  [k \in DOMAIN order |-> EntryAt(bs, order[k])]

\* Mutant: the bucket is computed with the old number of buckets.
MovedToOldIndex(bs, n) ==
  [i \in 0 .. n - 1 |-> IF i \in DOMAIN bs THEN bs[i] ELSE <<>>]

\* Mutant: of the entries that come to a bucket, the last one replaces the others.
MovedWithoutLink(bs, n) ==
  LET goes(i) == {s \in Slots(bs) : Hash[EntryAt(bs, s).key] % n = i}
  IN  [i \in 0 .. n - 1 |->
         IF goes(i) = {} THEN <<>>
         ELSE <<EntryAt(bs, CHOOSE s \in goes(i) :
                              \A t \in goes(i) : t = s \/ ComesBefore(t, s))>>]

\* What the loop of __hashmap_rehash makes of n new buckets: an entry is put
\* before those that came to its bucket earlier.
Moved(bs, n) ==
  LET goes(i)  == {s \in Slots(bs) : Hash[EntryAt(bs, s).key] % n = i}
      order(i) == Ranked(goes(i), {p \in goes(i) \X goes(i) : ComesBefore(p[2], p[1])})
  IN  [i \in 0 .. n - 1 |-> [k \in DOMAIN order(i) |-> EntryAt(bs, order(i)[k])]]

-----------------------------------------------------------------------------
(* The calls *)

\* Calls on a map that is not initialised.
Refused == /\ count = 0
           /\ Return("invalid_parameter", Nothing)
           /\ UNCHANGED <<count, buckets, size, allocated>>

NoMemory == Return("out_of_memory", Nothing) /\ UNCHANGED <<count, buckets, size, allocated>>

\* hashmap_init
Create(n) ==
  /\ count = 0
  /\ \/ NoMemory
     \/ /\ count' = IF n < InitialSize THEN InitialSize ELSE n
        /\ buckets' = [i \in 0 .. count' - 1 |-> <<>>]
        /\ size' = 0
        /\ allocated' = allocated + 1
        /\ Return("ok", Nothing)

\* Mutant: the entries are freed, their keys are not.
DeinitKeepsKeys ==
  /\ allocated' = IF count = 0 THEN allocated
                  ELSE allocated - 2 * Cardinality(Slots(buckets)) - 1
  /\ count' = 0 /\ buckets' = <<>> /\ size' = 0
  /\ Return("ok", Nothing)

\* hashmap_deinit: of each entry the key, the value and itself are freed.
Deinit ==
  /\ allocated' = IF count = 0 THEN allocated
                  ELSE allocated - 3 * Cardinality(Slots(buckets)) - 1
  /\ count' = 0 /\ buckets' = <<>> /\ size' = 0
  /\ Return("ok", Nothing)

\* Mutant: the load is compared before the new entry is counted.
GrowsLate == size * 4 > count * 3

Grows == (size + 1) * 4 > count * 3

Overwritten(b, p, v) ==
  SubSeq(b, 1, p - 1) \o <<[b[p] EXCEPT !.value = v]>> \o SubSeq(b, p + 1, Len(b))

\* __hashmap_set in the n buckets bs.  An entry takes three blocks of memory; if
\* one of them is refused the others are freed.
Put(bs, n, k, v) ==
  LET i == Hash[k] % n
  IN  \/ \E p \in DOMAIN bs[i] :
           /\ FirstWith(bs[i], k, p)
           /\ buckets' = [bs EXCEPT ![i] = Overwritten(@, p, v)]
           /\ Return("ok", Nothing)
           /\ UNCHANGED <<size, allocated>>
      \/ /\ ~Has(bs[i], k)
         /\ buckets' = bs
         /\ Return("out_of_memory", Nothing)
         /\ UNCHANGED <<size, allocated>>
      \/ /\ ~Has(bs[i], k)
         /\ buckets' = [bs EXCEPT ![i] = <<[key |-> k, value |-> v]>> \o @]
         /\ size' = size + 1
         /\ allocated' = allocated + 3
         /\ Return("ok", Nothing)

\* hashmap_set
Set(k, v) ==
  \/ Refused
  \/ count # 0 /\ ~Grows /\ Put(buckets, count, k, v) /\ UNCHANGED count
  \/ count # 0 /\ Grows /\ NoMemory
  \/ count # 0 /\ Grows /\ count' = 2 * count /\ Put(Moved(buckets, 2 * count), 2 * count, k, v)

\* hashmap_get
Get(k) ==
  \/ Refused
  \/ /\ count # 0
     /\ LET b == buckets[Hash[k] % count]
        IN  \/ \E p \in DOMAIN b : FirstWith(b, k, p) /\ Return("ok", b[p].value)
            \/ ~Has(b, k) /\ Return("failed", Nothing)
     /\ UNCHANGED <<count, buckets, size, allocated>>

Unlinked(b, p) == SubSeq(b, 1, p - 1) \o SubSeq(b, p + 1, Len(b))

\* Mutant: the bucket is pointed at what follows the entry, wherever it was.
RemoveFromHead(k) ==
  \/ Refused
  \/ /\ count # 0
     /\ LET i == Hash[k] % count
        IN  \/ \E p \in DOMAIN buckets[i] :
                 /\ FirstWith(buckets[i], k, p)
                 /\ buckets' = [buckets EXCEPT ![i] = SubSeq(@, p + 1, Len(@))]
                 /\ size' = size - 1
                 /\ allocated' = allocated - 3
                 /\ Return("ok", Nothing)
            \/ /\ ~Has(buckets[i], k)
               /\ Return("failed", Nothing)
               /\ UNCHANGED <<buckets, size, allocated>>
     /\ UNCHANGED count

\* hashmap_remove
Remove(k) ==
  \/ Refused
  \/ /\ count # 0
     /\ LET i == Hash[k] % count
        IN  \/ \E p \in DOMAIN buckets[i] :
                 /\ FirstWith(buckets[i], k, p)
                 /\ buckets' = [buckets EXCEPT ![i] = Unlinked(@, p)]
                 /\ size' = size - 1
                 /\ allocated' = allocated - 3
                 /\ Return("ok", Nothing)
            \/ /\ ~Has(buckets[i], k)
               /\ Return("failed", Nothing)
               /\ UNCHANGED <<buckets, size, allocated>>
     /\ UNCHANGED count

\* hashmap_for_each
ForEach == /\ ret' = [error |-> "ok", value |-> Nothing, visited |-> Visited(buckets)]
           /\ UNCHANGED <<count, buckets, size, allocated>>

\* hashmap_size
SizeOf == Return("ok", size) /\ UNCHANGED <<count, buckets, size, allocated>>

Next == \/ \E n \in InitialCounts : Create(n)
        \/ Deinit
        \/ \E k \in Key, v \in Value : Set(k, v)
        \/ \E k \in Key : Get(k) \/ Remove(k)
        \/ ForEach
        \/ SizeOf

Spec == Init /\ [][Next]_vars

-----------------------------------------------------------------------------
(* Properties *)

TypeOK ==
  /\ count \in Nat /\ size \in Nat /\ allocated \in Nat
  /\ buckets \in [0 .. count - 1 -> Seq(Entry)]
  /\ ret.error \in {"ok", "failed", "out_of_memory", "invalid_parameter"}

\* After any growth and any failed insertion every entry is where a lookup of its
\* key will find it, no other entry has that key, and the count is right.
EntriesFound ==
  /\ \A s \in Slots(buckets) : s[1] = Hash[EntryAt(buckets, s).key] % count
  /\ \A s, t \in Slots(buckets) :
       EntryAt(buckets, s).key = EntryAt(buckets, t).key => s = t
  /\ size = Cardinality(Slots(buckets))

\* No call leaves behind memory that is not part of the map, even one that fails
\* half way, and nothing is left when the map is gone.
NoLeak == allocated = IF count = 0 THEN 0 ELSE 3 * size + 1

\* The buckets never get fuller than three quarters, so a lookup stays short.
LoadBounded == size * 4 <= count * 3

\* One round of the loop of __hashmap_rehash: the entry e goes before those that are
\* in its bucket.
Relink(nb, n, e) == [nb EXCEPT ![Hash[e.key] % n] = <<e>> \o @]

\* What the loop makes of n empty buckets, entry by entry.
MovedOneByOne(bs, n) ==
  LET es == Visited(bs)
      made[k \in 0 .. Len(es)] ==
        IF k = 0 THEN [i \in 0 .. n - 1 |-> <<>>] ELSE Relink(made[k - 1], n, es[k])
  IN  made[Len(es)]

\* Moved leaves the buckets that the loop leaves, whatever the map holds when it grows.
MovedByLoop == \A n \in {count, 2 * count} \ {0} : Moved(buckets, n) = MovedOneByOne(buckets, n)

\* What lookups find in n buckets.
Lookup(bs, n) ==
  [k \in {x \in Key : n # 0 /\ Has(bs[Hash[x] % n], x)} |->
     LET b == bs[Hash[k] % n] IN b[CHOOSE p \in DOMAIN b : FirstWith(b, k, p)].value]

D == INSTANCE Dictionary WITH open <- count # 0, dict <- Lookup(buckets, count)

\* Callers see a map, whatever the hashes and however it grows.
ImplementsDictionary == D!Spec
=============================================================================
