---------------------------- MODULE HashMapProofs ----------------------------
(***************************************************************************)
(* The hash map keeps its buckets in order and is a dictionary, for every   *)
(* hash function, set of keys and initial size.  The argument goes by the   *)
(* set of entries: every bucket holds the entries of its hashes and no key  *)
(* twice (Good), so the entries alone decide what a lookup finds, and each  *)
(* call changes that set as a dictionary would.                             *)
(***************************************************************************)
EXTENDS HashMap, RankingProofs

Elements(b) == {b[p] : p \in 1 .. Len(b)}

\* b may be bucket i of n.
GoodBucket(b, i, n) ==
  /\ b \in Seq(Entry)
  /\ \A p \in 1 .. Len(b) : Hash[b[p].key] % n = i
  /\ \A p, q \in 1 .. Len(b) : b[p].key = b[q].key => p = q

Good(bs, n) ==
  /\ bs \in [0 .. n - 1 -> Seq(Entry)]
  /\ \A i \in 0 .. n - 1 : GoodBucket(bs[i], i, n)

Entries(bs) == {EntryAt(bs, s) : s \in Slots(bs)}

\* The entries E but for the one with key k.
Without(E, k) == {e \in E : e.key # k}

-----------------------------------------------------------------------------
(* One bucket *)

LEMMA ConcatProperties ==
  ASSUME NEW T, NEW s \in Seq(T), NEW t \in Seq(T)
  PROVE  /\ s \o t \in Seq(T)
         /\ Len(s \o t) = Len(s) + Len(t)
         /\ \A q \in 1 .. Len(s) + Len(t) :
              (s \o t)[q] = IF q <= Len(s) THEN s[q] ELSE t[q - Len(s)]
OBVIOUS

LEMMA PrependedProperties ==
  ASSUME NEW b \in Seq(Entry), NEW e \in Entry
  PROVE  /\ <<e>> \o b \in Seq(Entry)
         /\ Len(<<e>> \o b) = Len(b) + 1
         /\ (<<e>> \o b)[1] = e
         /\ \A q \in 2 .. Len(b) + 1 : (<<e>> \o b)[q] = b[q - 1]
OBVIOUS

LEMMA UnlinkedProperties ==
  ASSUME NEW b \in Seq(Entry), NEW p \in 1 .. Len(b)
  PROVE  /\ Unlinked(b, p) \in Seq(Entry)
         /\ Len(Unlinked(b, p)) = Len(b) - 1
         /\ \A q \in 1 .. Len(b) - 1 :
              Unlinked(b, p)[q] = IF q < p THEN b[q] ELSE b[q + 1]
<1> DEFINE x == SubSeq(b, 1, p - 1)
           y == SubSeq(b, p + 1, Len(b))
<1>1. x \in Seq(Entry) /\ Len(x) = p - 1 /\ \A q \in 1 .. p - 1 : x[q] = b[q]
  OBVIOUS
<1>2. y \in Seq(Entry) /\ Len(y) = Len(b) - p /\ \A q \in 1 .. Len(b) - p : y[q] = b[p + q]
  OBVIOUS
<1>3. Unlinked(b, p) = x \o y
  BY DEF Unlinked
<1> HIDE DEF x, y
<1>4. /\ x \o y \in Seq(Entry)
      /\ Len(x \o y) = Len(x) + Len(y)
      /\ \A q \in 1 .. Len(x) + Len(y) :
           (x \o y)[q] = IF q <= Len(x) THEN x[q] ELSE y[q - Len(x)]
  BY <1>1, <1>2, ConcatProperties
<1>5. \A q \in 1 .. Len(b) - 1 : (x \o y)[q] = IF q < p THEN b[q] ELSE b[q + 1]
  <2> TAKE q \in 1 .. Len(b) - 1
  <2>1. CASE q < p
    <3>1. q \in 1 .. p - 1 /\ q \in 1 .. Len(x) + Len(y) /\ q <= Len(x)
      BY <1>1, <1>2, <2>1
    <3> QED
      BY <3>1, <1>1, <1>4, <2>1
  <2>2. CASE ~(q < p)
    <3>1. /\ q - Len(x) \in 1 .. Len(b) - p /\ q \in 1 .. Len(x) + Len(y)
          /\ ~(q <= Len(x)) /\ p + (q - Len(x)) = q + 1 /\ ~(q < p)
      BY <1>1, <1>2, <2>2
    <3> QED
      BY <3>1, <1>2, <1>4
  <2> QED
    BY <2>1, <2>2
<1>6. Len(x) + Len(y) = Len(b) - 1
  BY <1>1, <1>2
<1> QED
  BY <1>3, <1>4, <1>5, <1>6

LEMMA OverwrittenProperties ==
  ASSUME NEW b \in Seq(Entry), NEW p \in 1 .. Len(b), NEW v \in Value
  PROVE  /\ Overwritten(b, p, v) \in Seq(Entry)
         /\ Len(Overwritten(b, p, v)) = Len(b)
         /\ \A q \in 1 .. Len(b) :
              Overwritten(b, p, v)[q] = IF q = p THEN [key |-> b[p].key, value |-> v] ELSE b[q]
<1> DEFINE x == SubSeq(b, 1, p - 1)
           y == SubSeq(b, p + 1, Len(b))
           e == [b[p] EXCEPT !.value = v]
<1>1. x \in Seq(Entry) /\ Len(x) = p - 1 /\ \A q \in 1 .. p - 1 : x[q] = b[q]
  OBVIOUS
<1>2. y \in Seq(Entry) /\ Len(y) = Len(b) - p /\ \A q \in 1 .. Len(b) - p : y[q] = b[p + q]
  OBVIOUS
<1>3. e = [key |-> b[p].key, value |-> v] /\ e \in Entry
  <2>1. b[p] \in Entry
    OBVIOUS
  <2> QED
    BY <2>1 DEF Entry
<1>4. Overwritten(b, p, v) = x \o <<e>> \o y
  BY DEF Overwritten
<1> HIDE DEF x, y, e
<1>5. /\ x \o <<e>> \in Seq(Entry)
      /\ Len(x \o <<e>>) = p
      /\ \A q \in 1 .. p : (x \o <<e>>)[q] = IF q = p THEN e ELSE x[q]
  BY <1>1, <1>3
<1> DEFINE z == x \o <<e>>
<1> HIDE DEF z
<1>6. /\ z \o y \in Seq(Entry)
      /\ Len(z \o y) = Len(z) + Len(y)
      /\ \A q \in 1 .. Len(z) + Len(y) :
           (z \o y)[q] = IF q <= Len(z) THEN z[q] ELSE y[q - Len(z)]
  <2>1. z \in Seq(Entry)
    BY <1>5 DEF z
  <2> QED
    BY <2>1, <1>2, ConcatProperties
<1>7. /\ Len(z) = p
      /\ \A q \in 1 .. p : z[q] = IF q = p THEN e ELSE x[q]
      /\ Overwritten(b, p, v) = z \o y
  BY <1>4, <1>5 DEF z
<1>8. \A q \in 1 .. Len(b) : (z \o y)[q] = IF q = p THEN e ELSE b[q]
  <2> TAKE q \in 1 .. Len(b)
  <2>1. CASE q <= p
    <3>1. q \in 1 .. p /\ q \in 1 .. Len(z) + Len(y) /\ q <= Len(z) /\ (q # p => q \in 1 .. p - 1)
      BY <1>2, <1>7, <2>1
    <3> QED
      BY <3>1, <1>1, <1>6, <1>7
  <2>2. CASE ~(q <= p)
    <3>1. /\ q - Len(z) \in 1 .. Len(b) - p /\ q \in 1 .. Len(z) + Len(y)
          /\ ~(q <= Len(z)) /\ p + (q - Len(z)) = q /\ q # p
      BY <1>2, <1>7, <2>2
    <3> QED
      BY <3>1, <1>2, <1>6
  <2> QED
    BY <2>1, <2>2
<1>9. Len(z) + Len(y) = Len(b)
  BY <1>2, <1>7
<1> QED
  BY <1>3, <1>6, <1>7, <1>8, <1>9

\* A new entry in front.
LEMMA PrependedGood ==
  ASSUME NEW n \in Nat, NEW i, NEW b, GoodBucket(b, i, n),
         NEW e \in Entry, Hash[e.key] % n = i, ~Has(b, e.key)
  PROVE  /\ GoodBucket(<<e>> \o b, i, n)
         /\ Elements(<<e>> \o b) = Elements(b) \cup {e}
         /\ Without(Elements(b), e.key) = Elements(b)
<1> DEFINE k == e.key
           c == <<e>> \o b
<1>1. b \in Seq(Entry) /\ e \in Entry /\ e.key = k
  BY DEF GoodBucket
<1>2. \A q \in 1 .. Len(b) : b[q].key # k
  BY <1>1 DEF Has
<1>3. /\ c \in Seq(Entry) /\ Len(c) = Len(b) + 1 /\ c[1] = e
      /\ \A q \in 2 .. Len(b) + 1 : c[q] = b[q - 1]
  BY <1>1, PrependedProperties
<1>4. Len(b) \in Nat
  BY <1>1
<1> HIDE DEF c, k
<1>5. GoodBucket(c, i, n)
  <2>1. \A q \in 1 .. Len(c) : q = 1 \/ (q - 1 \in 1 .. Len(b) /\ c[q] = b[q - 1])
    BY <1>3, <1>4
  <2>2. ASSUME NEW q \in 1 .. Len(c)
        PROVE  Hash[c[q].key] % n = i
    <3>1. CASE q = 1
      BY <1>3, <3>1
    <3>2. CASE q # 1
      <4>1. q - 1 \in 1 .. Len(b) /\ c[q] = b[q - 1]
        BY <2>1, <3>2
      <4> QED
        BY <4>1 DEF GoodBucket
    <3> QED
      BY <3>1, <3>2
  <2>3. ASSUME NEW p \in 1 .. Len(c), NEW q \in 1 .. Len(c), c[p].key = c[q].key
        PROVE  p = q
    <3>1. p = 1 <=> q = 1
      BY <1>1, <1>2, <1>3, <2>1, <2>3
    <3>2. CASE p # 1 /\ q # 1
      <4>1. /\ p - 1 \in 1 .. Len(b) /\ q - 1 \in 1 .. Len(b)
            /\ b[p - 1].key = b[q - 1].key
        BY <2>1, <2>3, <3>2
      <4>2. p - 1 = q - 1
        BY <4>1 DEF GoodBucket
      <4> QED
        BY <4>2, <1>3, <1>4
    <3> QED
      BY <3>1, <3>2
  <2> QED
    BY <1>3, <2>2, <2>3 DEF GoodBucket
<1>6. Elements(c) = Elements(b) \cup {e}
  <2>1. ASSUME NEW q \in 1 .. Len(b)
        PROVE  b[q] \in Elements(c)
    <3>1. q + 1 \in 2 .. Len(b) + 1 /\ q + 1 \in 1 .. Len(c) /\ (q + 1) - 1 = q
      BY <1>3, <1>4
    <3> QED
      BY <3>1, <1>3 DEF Elements
  <2>2. ASSUME NEW q \in 1 .. Len(c)
        PROVE  c[q] \in Elements(b) \cup {e}
    BY <1>3, <1>4 DEF Elements
  <2>3. e \in Elements(c)
    BY <1>3, <1>4 DEF Elements
  <2> QED
    BY <2>1, <2>2, <2>3 DEF Elements
<1> QED
  BY <1>2, <1>5, <1>6 DEF Elements, Without, c, k

\* A new value for an entry.
LEMMA OverwrittenGood ==
  ASSUME NEW n \in Nat, NEW i, NEW b, GoodBucket(b, i, n),
         NEW p \in 1 .. Len(b), NEW v \in Value
  PROVE  /\ GoodBucket(Overwritten(b, p, v), i, n)
         /\ Elements(Overwritten(b, p, v))
              = Without(Elements(b), b[p].key) \cup {[key |-> b[p].key, value |-> v]}
<1> DEFINE c == Overwritten(b, p, v)
           e == [key |-> b[p].key, value |-> v]
<1>1. /\ c \in Seq(Entry) /\ Len(c) = Len(b)
      /\ \A q \in 1 .. Len(b) : c[q] = IF q = p THEN e ELSE b[q]
  BY OverwrittenProperties DEF GoodBucket
<1>2. e.key = b[p].key
  OBVIOUS
<1> HIDE DEF c, e
<1>3. \A q \in 1 .. Len(b) : c[q].key = b[q].key
  BY <1>1, <1>2
<1>4. GoodBucket(c, i, n)
  BY <1>1, <1>3 DEF GoodBucket
<1>5. \A q \in 1 .. Len(b) : b[q].key = b[p].key <=> q = p
  BY DEF GoodBucket
<1>6. Elements(c) = Without(Elements(b), b[p].key) \cup {e}
  BY <1>1, <1>2, <1>5 DEF Elements, Without
<1> QED
  BY <1>4, <1>6 DEF c, e

\* An entry less.
LEMMA UnlinkedGood ==
  ASSUME NEW n \in Nat, NEW i, NEW b, GoodBucket(b, i, n), NEW p \in 1 .. Len(b)
  PROVE  /\ GoodBucket(Unlinked(b, p), i, n)
         /\ Elements(Unlinked(b, p)) = Without(Elements(b), b[p].key)
<1> DEFINE c == Unlinked(b, p)
           from(q) == IF q < p THEN q ELSE q + 1
<1>1. Len(b) \in Nat
  BY DEF GoodBucket
<1>2. /\ c \in Seq(Entry) /\ Len(c) = Len(b) - 1
      /\ \A q \in 1 .. Len(b) - 1 : c[q] = IF q < p THEN b[q] ELSE b[q + 1]
  BY UnlinkedProperties DEF GoodBucket
<1> HIDE DEF c
<1>3. \A q \in 1 .. Len(c) : from(q) \in 1 .. Len(b) /\ from(q) # p /\ c[q] = b[from(q)]
  BY <1>1, <1>2
<1>4. \A q, r \in 1 .. Len(c) : from(q) = from(r) => q = r
  BY <1>1, <1>2
<1>5. \A r \in 1 .. Len(b) : r # p => \E q \in 1 .. Len(c) : from(q) = r
  <2> TAKE r \in 1 .. Len(b)
  <2> HAVE r # p
  <2>1. CASE r < p
    <3>1. r \in 1 .. Len(c) /\ from(r) = r
      BY <1>1, <1>2, <2>1
    <3> QED
      BY <3>1
  <2>2. CASE r > p
    <3>1. r - 1 \in 1 .. Len(c) /\ from(r - 1) = r
      BY <1>1, <1>2, <2>2
    <3> QED
      BY <3>1
  <2> QED
    BY <1>1, <2>1, <2>2
<1>6. \A q \in 1 .. Len(b) : b[q].key = b[p].key <=> q = p
  BY DEF GoodBucket
<1> HIDE DEF from
<1>7. GoodBucket(c, i, n)
  <2>1. \A q \in 1 .. Len(c) : Hash[c[q].key] % n = i
    BY <1>3 DEF GoodBucket
  <2>2. ASSUME NEW q \in 1 .. Len(c), NEW r \in 1 .. Len(c), c[q].key = c[r].key
        PROVE  q = r
    <3>1. from(q) = from(r)
      BY <1>3, <2>2 DEF GoodBucket
    <3> QED
      BY <1>4, <3>1
  <2> QED
    BY <1>2, <2>1, <2>2 DEF GoodBucket
<1>8. Elements(c) = Without(Elements(b), b[p].key)
  <2>1. \A q \in 1 .. Len(c) : c[q] \in Elements(b) /\ c[q].key # b[p].key
    BY <1>3, <1>6 DEF Elements
  <2>2. ASSUME NEW r \in 1 .. Len(b), b[r].key # b[p].key
        PROVE  b[r] \in Elements(c)
    <3>1. PICK q \in 1 .. Len(c) : from(q) = r
      BY <1>5, <2>2
    <3> QED
      BY <3>1, <1>3 DEF Elements
  <2> QED
    BY <2>1, <2>2 DEF Elements, Without
<1> QED
  BY <1>7, <1>8 DEF c

-----------------------------------------------------------------------------
(* All the buckets *)

\* Slots and entries, bucket by bucket.
LEMMA SlotsProperties ==
  ASSUME NEW n \in Nat, NEW bs, Good(bs, n)
  PROVE  /\ \A i \in 0 .. n - 1 : \A p \in 1 .. Len(bs[i]) :
              <<i, p>> \in Slots(bs) /\ EntryAt(bs, <<i, p>>) = bs[i][p]
         /\ \A s \in Slots(bs) : /\ s[1] \in 0 .. n - 1
                                 /\ s[2] \in 1 .. Len(bs[s[1]])
                                 /\ s = <<s[1], s[2]>>
                                 /\ EntryAt(bs, s) = bs[s[1]][s[2]]
                                 /\ EntryAt(bs, s) \in Entry
                                 /\ s[1] = Hash[EntryAt(bs, s).key] % n
         /\ \A s, t \in Slots(bs) : EntryAt(bs, s).key = EntryAt(bs, t).key => s = t
<1>1. DOMAIN bs = 0 .. n - 1 /\ \A i \in 0 .. n - 1 : bs[i] \in Seq(Entry)
  BY DEF Good
<1>2. \A i \in 0 .. n - 1 : DOMAIN bs[i] = 1 .. Len(bs[i])
  BY <1>1
<1>3. Slots(bs) = UNION {{i} \X (1 .. Len(bs[i])) : i \in 0 .. n - 1}
  BY <1>1, <1>2 DEF Slots
<1>4. ASSUME NEW i \in 0 .. n - 1, NEW p \in 1 .. Len(bs[i])
      PROVE  <<i, p>> \in Slots(bs) /\ EntryAt(bs, <<i, p>>) = bs[i][p]
  <2>1. <<i, p>> \in {i} \X (1 .. Len(bs[i]))
    OBVIOUS
  <2> QED
    BY <2>1, <1>3 DEF EntryAt
<1>5. ASSUME NEW s \in Slots(bs)
      PROVE  /\ s[1] \in 0 .. n - 1
             /\ s[2] \in 1 .. Len(bs[s[1]])
             /\ s = <<s[1], s[2]>>
             /\ EntryAt(bs, s) = bs[s[1]][s[2]]
             /\ EntryAt(bs, s) \in Entry
             /\ s[1] = Hash[EntryAt(bs, s).key] % n
  <2>1. PICK i \in 0 .. n - 1 : s \in {i} \X (1 .. Len(bs[i]))
    BY <1>3
  <2>2. s[1] = i /\ s[2] \in 1 .. Len(bs[i]) /\ s = <<s[1], s[2]>>
    BY <2>1
  <2>3. GoodBucket(bs[i], i, n)
    BY DEF Good
  <2>4. bs[i][s[2]] \in Entry
    BY <1>1, <2>2
  <2> QED
    BY <2>2, <2>3, <2>4 DEF EntryAt, GoodBucket
<1>6. ASSUME NEW s \in Slots(bs), NEW t \in Slots(bs),
             EntryAt(bs, s).key = EntryAt(bs, t).key
      PROVE  s = t
  <2>1. s[1] = t[1]
    BY <1>5, <1>6
  <2>2. GoodBucket(bs[s[1]], s[1], n)
    BY <1>5 DEF Good
  <2>3. s[2] = t[2]
    BY <1>5, <1>6, <2>1, <2>2 DEF GoodBucket
  <2> QED
    BY <1>5, <2>1, <2>3
<1> QED
  BY <1>4, <1>5, <1>6

LEMMA EntriesProperties ==
  ASSUME NEW n \in Nat, NEW bs, Good(bs, n)
  PROVE  /\ \A e : e \in Entries(bs) <=> \E i \in 0 .. n - 1 : e \in Elements(bs[i])
         /\ \A i \in 0 .. n - 1 : \A e \in Elements(bs[i]) : Hash[e.key] % n = i
         /\ \A e \in Entries(bs) : /\ e \in Entry
                                   /\ Hash[e.key] % n \in 0 .. n - 1
                                   /\ e \in Elements(bs[Hash[e.key] % n])
         /\ \A e, f \in Entries(bs) : e.key = f.key => e = f
<1>1. ASSUME NEW e \in Entries(bs)
      PROVE  /\ e \in Entry
             /\ Hash[e.key] % n \in 0 .. n - 1
             /\ e \in Elements(bs[Hash[e.key] % n])
  <2>1. PICK s \in Slots(bs) : e = EntryAt(bs, s)
    BY DEF Entries
  <2> QED
    BY <2>1, SlotsProperties DEF Elements
<1>2. ASSUME NEW i \in 0 .. n - 1, NEW e \in Elements(bs[i])
      PROVE  e \in Entries(bs) /\ Hash[e.key] % n = i
  <2>1. PICK p \in 1 .. Len(bs[i]) : e = bs[i][p]
    BY DEF Elements
  <2>2. <<i, p>> \in Slots(bs) /\ EntryAt(bs, <<i, p>>) = e
    BY <2>1, SlotsProperties
  <2>3. GoodBucket(bs[i], i, n)
    BY DEF Good
  <2> QED
    BY <2>1, <2>2, <2>3 DEF Entries, GoodBucket
<1>3. ASSUME NEW e \in Entries(bs), NEW f \in Entries(bs), e.key = f.key
      PROVE  e = f
  <2>1. PICK s \in Slots(bs) : e = EntryAt(bs, s)
    BY DEF Entries
  <2>2. PICK t \in Slots(bs) : f = EntryAt(bs, t)
    BY DEF Entries
  <2>3. s = t
    BY <1>3, <2>1, <2>2, SlotsProperties
  <2> QED
    BY <2>1, <2>2, <2>3
<1> QED
  BY <1>1, <1>2, <1>3

\* There are as many slots as entries.
LEMMA SlotsCounted ==
  ASSUME NEW n \in Nat, NEW bs, Good(bs, n), IsFiniteSet(Entries(bs))
  PROVE  IsFiniteSet(Slots(bs)) /\ Cardinality(Slots(bs)) = Cardinality(Entries(bs))
<1> DEFINE f == [s \in Slots(bs) |-> EntryAt(bs, s)]
<1>1. f \in [Slots(bs) -> Entries(bs)]
  BY DEF Entries
<1>2. \A s, t \in Slots(bs) : f[s] = f[t] => s = t
  BY SlotsProperties
<1>3. \A e \in Entries(bs) : \E s \in Slots(bs) : f[s] = e
  BY DEF Entries
<1> HIDE DEF f
<1>4. f \in Injection(Slots(bs), Entries(bs))
  BY <1>1, <1>2, Fun_IsInj
<1>5. f \in Surjection(Slots(bs), Entries(bs))
  BY <1>1, <1>3, Fun_IsSurj
<1> QED
  BY <1>4, <1>5, FS_Injection

\* Another bucket in place of one.
LEMMA BucketReplaced ==
  ASSUME NEW n \in Nat, NEW bs, Good(bs, n), NEW i \in 0 .. n - 1,
         NEW c, GoodBucket(c, i, n)
  PROVE  /\ Good([bs EXCEPT ![i] = c], n)
         /\ \A e : e \in Entries([bs EXCEPT ![i] = c]) <=>
                     \/ e \in Elements(c)
                     \/ e \in Entries(bs) /\ Hash[e.key] % n # i
<1> DEFINE new == [bs EXCEPT ![i] = c]
<1>1. bs \in [0 .. n - 1 -> Seq(Entry)] /\ c \in Seq(Entry)
  BY DEF Good, GoodBucket
<1>2. new \in [0 .. n - 1 -> Seq(Entry)] /\ new[i] = c
      /\ \A j \in 0 .. n - 1 : j # i => new[j] = bs[j]
  BY <1>1
<1> HIDE DEF new
<1>3. Good(new, n)
  <2>1. ASSUME NEW j \in 0 .. n - 1
        PROVE  GoodBucket(new[j], j, n)
    BY <1>2 DEF Good
  <2> QED
    BY <1>2, <2>1 DEF Good
<1>4. ASSUME NEW e
      PROVE  e \in Entries(new) <=>
               \/ e \in Elements(c)
               \/ e \in Entries(bs) /\ Hash[e.key] % n # i
  <2>1. e \in Entries(new) <=> \E j \in 0 .. n - 1 : e \in Elements(new[j])
    BY <1>3, EntriesProperties
  <2>2. e \in Entries(bs) <=> \E j \in 0 .. n - 1 : e \in Elements(bs[j])
    BY EntriesProperties
  <2>3. \A j \in 0 .. n - 1 : e \in Elements(bs[j]) => Hash[e.key] % n = j
    BY EntriesProperties
  <2> QED
    BY <1>2, <2>1, <2>2, <2>3
<1> QED
  BY <1>3, <1>4 DEF new

\* Growth keeps the entries.
LEMMA MovedGood ==
  ASSUME NEW n \in Nat, NEW bs, Good(bs, n), IsFiniteSet(Entries(bs)), NEW m \in Nat \ {0}
  PROVE  Good(Moved(bs, m), m) /\ Entries(Moved(bs, m)) = Entries(bs)
<1> DEFINE goes(i)  == {s \in Slots(bs) : Hash[EntryAt(bs, s).key] % m = i}
           before(i) == {p \in goes(i) \X goes(i) : ComesBefore(p[2], p[1])}
           order(i) == Ranked(goes(i), before(i))
           bucket(i) == [k \in DOMAIN order(i) |-> EntryAt(bs, order(i)[k])]
           new == Moved(bs, m)
<1>1. new = [i \in 0 .. m - 1 |-> bucket(i)]
  BY DEF Moved
<1>2. ASSUME NEW i
      PROVE  /\ Cardinality(goes(i)) \in Nat
             /\ order(i) \in [1 .. Cardinality(goes(i)) -> goes(i)]
             /\ \A s \in goes(i) : \E k \in 1 .. Cardinality(goes(i)) : order(i)[k] = s
             /\ \A k, l \in 1 .. Cardinality(goes(i)) : order(i)[k] = order(i)[l] => k = l
  <2>1. IsFiniteSet(goes(i))
    <3>1. IsFiniteSet(Slots(bs)) /\ goes(i) \in SUBSET Slots(bs)
      BY SlotsCounted
    <3> QED
      BY <3>1, FS_Subset
  <2>2. \A s \in goes(i) : s[1] \in Int /\ s[2] \in Int /\ s = <<s[1], s[2]>>
    <3> TAKE s \in goes(i)
    <3>1. s \in Slots(bs)
      OBVIOUS
    <3>2. s[1] \in 0 .. n - 1 /\ s[2] \in 1 .. Len(bs[s[1]]) /\ s = <<s[1], s[2]>>
      BY <3>1, SlotsProperties
    <3> QED
      BY <3>2
  <2> HIDE DEF goes
  <2>3. StrictOrder(goes(i), before(i))
    BY <2>2 DEF StrictOrder, ComesBefore
  <2> HIDE DEF before
  <2>4. /\ Cardinality(goes(i)) \in Nat
        /\ order(i) \in [1 .. Cardinality(goes(i)) -> goes(i)]
        /\ \A s \in goes(i) : \E k \in 1 .. Cardinality(goes(i)) : order(i)[k] = s
        /\ \A k, l \in 1 .. Cardinality(goes(i)) :
             k < l => <<order(i)[k], order(i)[l]>> \in before(i)
    BY <2>1, <2>3, RankedProperties
  <2>5. \A s \in goes(i) : <<s, s>> \notin before(i)
    BY <2>3 DEF StrictOrder
  <2>6. \A k, l \in 1 .. Cardinality(goes(i)) : order(i)[k] = order(i)[l] => k = l
    <3> HIDE DEF order
    <3>1. \A k, l \in 1 .. Cardinality(goes(i)) : k = l \/ k < l \/ l < k
      BY <2>4
    <3> QED
      BY <2>4, <2>5, <3>1
  <2> QED
    BY <2>4, <2>6
<1> HIDE DEF order
<1>3. ASSUME NEW i \in 0 .. m - 1
      PROVE  /\ bucket(i) \in Seq(Entry)
             /\ Len(bucket(i)) = Cardinality(goes(i))
             /\ \A k \in 1 .. Cardinality(goes(i)) :
                  order(i)[k] \in goes(i) /\ bucket(i)[k] = EntryAt(bs, order(i)[k])
  <2>1. DOMAIN order(i) = 1 .. Cardinality(goes(i))
    BY <1>2
  <2>2. \A s \in goes(i) : EntryAt(bs, s) \in Entry
    BY SlotsProperties
  <2>3. \A k \in 1 .. Cardinality(goes(i)) : order(i)[k] \in goes(i)
    BY <1>2
  <2> HIDE DEF goes
  <2>4. bucket(i) \in [1 .. Cardinality(goes(i)) -> Entry]
    BY <2>1, <2>2, <2>3
  <2> QED
    BY <1>2, <2>1, <2>3, <2>4
<1> HIDE DEF bucket
<1>4. ASSUME NEW i \in 0 .. m - 1
      PROVE  GoodBucket(bucket(i), i, m)
  <2>1. \A k \in 1 .. Len(bucket(i)) : Hash[bucket(i)[k].key] % m = i
    BY <1>3
  <2>2. ASSUME NEW k \in 1 .. Len(bucket(i)), NEW l \in 1 .. Len(bucket(i)),
               bucket(i)[k].key = bucket(i)[l].key
        PROVE  k = l
    <3>1. order(i)[k] \in Slots(bs) /\ order(i)[l] \in Slots(bs)
      BY <1>3
    <3>2. EntryAt(bs, order(i)[k]).key = EntryAt(bs, order(i)[l]).key
      BY <1>3, <2>2
    <3>3. \A s, t \in Slots(bs) : EntryAt(bs, s).key = EntryAt(bs, t).key => s = t
      BY SlotsProperties
    <3>4. order(i)[k] = order(i)[l]
      BY <3>1, <3>2, <3>3
    <3> QED
      BY <1>2, <1>3, <3>4
  <2> QED
    BY <1>3, <2>1, <2>2 DEF GoodBucket
<1>5. Good(new, m)
  <2>1. new \in [0 .. m - 1 -> Seq(Entry)]
    BY <1>1, <1>3
  <2>2. \A i \in 0 .. m - 1 : new[i] = bucket(i)
    BY <1>1
  <2> HIDE DEF new
  <2> QED
    BY <1>4, <2>1, <2>2 DEF Good
<1>6. ASSUME NEW e \in Entries(new)
      PROVE  e \in Entries(bs)
  <2>1. PICK i \in 0 .. m - 1 : e \in Elements(bucket(i))
    <3>1. \A i \in 0 .. m - 1 : new[i] = bucket(i)
      BY <1>1
    <3> HIDE DEF new
    <3>2. PICK i \in 0 .. m - 1 : e \in Elements(new[i])
      BY <1>5, EntriesProperties
    <3> QED
      BY <3>1, <3>2
  <2>2. PICK k \in 1 .. Len(bucket(i)) : e = bucket(i)[k]
    BY <2>1 DEF Elements
  <2> QED
    BY <1>3, <2>2 DEF Entries
<1>7. ASSUME NEW e \in Entries(bs)
      PROVE  e \in Entries(new)
  <2>1. PICK s \in Slots(bs) : e = EntryAt(bs, s)
    BY DEF Entries
  <2> DEFINE i == Hash[e.key] % m
  <2>2. i \in 0 .. m - 1
    <3>1. e.key \in Key
      BY EntriesProperties DEF Entry
    <3>2. Hash[e.key] \in Nat
      BY <3>1, HashAssumption
    <3> QED
      BY <3>2
  <2>3. s \in goes(i)
    BY <2>1
  <2> HIDE DEF i
  <2>4. PICK k \in 1 .. Cardinality(goes(i)) : order(i)[k] = s
    BY <1>2, <2>3
  <2>5. e \in Elements(bucket(i))
    BY <1>3, <2>1, <2>2, <2>4 DEF Elements
  <2> QED
    BY <1>1, <1>5, <2>2, <2>5, EntriesProperties
<1> HIDE DEF new
<1>8. Entries(new) = Entries(bs)
  BY <1>6, <1>7
<1> QED
  BY <1>5, <1>8 DEF new

-----------------------------------------------------------------------------
(* The dictionary of a set of entries *)

DictOf(E) == [k \in {e.key : e \in E} |-> (CHOOSE e \in E : e.key = k).value]

\* No key is twice in E.
KeyedOnce(E) == \A e, f \in E : e.key = f.key => e = f

LEMMA DictOfProperties ==
  ASSUME NEW E, KeyedOnce(E)
  PROVE  /\ DOMAIN DictOf(E) = {e.key : e \in E}
         /\ \A e \in E : e.key \in DOMAIN DictOf(E) /\ DictOf(E)[e.key] = e.value
<1>1. ASSUME NEW e \in E
      PROVE  (CHOOSE f \in E : f.key = e.key) = e
  <2>1. \E f \in E : f.key = e.key
    OBVIOUS
  <2> DEFINE c == CHOOSE f \in E : f.key = e.key
  <2>2. c \in E /\ c.key = e.key
    BY <2>1
  <2> QED
    BY <2>2 DEF KeyedOnce
<1> QED
  BY <1>1 DEF DictOf

\* What becomes of the dictionary when an entry comes in or goes out.
LEMMA DictOfWith ==
  ASSUME NEW E, KeyedOnce(E), NEW e
  PROVE  DictOf(Without(E, e.key) \cup {e})
           = [x \in DOMAIN DictOf(E) \cup {e.key} |->
                IF x = e.key THEN e.value ELSE DictOf(E)[x]]
<1> DEFINE k == e.key
           v == e.value
           F == Without(E, k) \cup {e}
<1>1. e.key = k /\ e.value = v
  OBVIOUS
<1> HIDE DEF k, v
<1>2. \A f : f \in F <=> f = e \/ (f \in E /\ f.key # k)
  BY DEF Without
<1> HIDE DEF F
<1>3. KeyedOnce(F)
  BY <1>1, <1>2 DEF KeyedOnce
<1>4. /\ DOMAIN DictOf(E) = {f.key : f \in E}
      /\ DOMAIN DictOf(F) = {f.key : f \in F}
  BY <1>3, DictOfProperties
<1>5. DOMAIN DictOf(F) = DOMAIN DictOf(E) \cup {k}
  BY <1>1, <1>2, <1>4
<1>6. ASSUME NEW x \in DOMAIN DictOf(F)
      PROVE  DictOf(F)[x] = IF x = k THEN v ELSE DictOf(E)[x]
  <2>1. PICK f \in F : f.key = x
    BY <1>4
  <2>2. DictOf(F)[x] = f.value
    BY <2>1, <1>3, DictOfProperties
  <2>3. f \in E => DictOf(E)[x] = f.value
    BY <2>1, DictOfProperties
  <2> QED
    BY <1>1, <1>2, <2>1, <2>2, <2>3
<1>7. DictOf(F) = [x \in DOMAIN DictOf(F) |-> DictOf(F)[x]]
  BY DEF DictOf
<1>8. DictOf(F) = [x \in DOMAIN DictOf(E) \cup {k} |-> IF x = k THEN v ELSE DictOf(E)[x]]
  BY <1>5, <1>6, <1>7
<1> QED
  BY <1>8 DEF F, k, v

LEMMA DictOfWithout ==
  ASSUME NEW E, KeyedOnce(E), NEW k
  PROVE  DictOf(Without(E, k)) = [x \in DOMAIN DictOf(E) \ {k} |-> DictOf(E)[x]]
<1> DEFINE F == Without(E, k)
<1>1. \A f : f \in F <=> f \in E /\ f.key # k
  BY DEF Without
<1> HIDE DEF F
<1>2. KeyedOnce(F)
  BY <1>1 DEF KeyedOnce
<1>3. /\ DOMAIN DictOf(E) = {f.key : f \in E}
      /\ DOMAIN DictOf(F) = {f.key : f \in F}
  BY <1>2, DictOfProperties
<1>4. DOMAIN DictOf(F) = DOMAIN DictOf(E) \ {k}
  BY <1>1, <1>3
<1>5. ASSUME NEW x \in DOMAIN DictOf(F)
      PROVE  DictOf(F)[x] = DictOf(E)[x]
  <2>1. PICK f \in F : f.key = x
    BY <1>3
  <2>2. DictOf(F)[f.key] = f.value
    BY <1>2, DictOfProperties
  <2>3. DictOf(E)[f.key] = f.value
    BY <1>1, DictOfProperties
  <2> QED
    BY <2>1, <2>2, <2>3
<1>6. DictOf(F) = [x \in DOMAIN DictOf(F) |-> DictOf(F)[x]]
  BY DEF DictOf
<1>7. DictOf(F) = [x \in DOMAIN DictOf(E) \ {k} |-> DictOf(E)[x]]
  BY <1>4, <1>5, <1>6
<1> QED
  BY <1>7 DEF F

\* How many entries there are afterwards.
LEMMA EntriesCounted ==
  ASSUME NEW E, IsFiniteSet(E), KeyedOnce(E), NEW e \in E
  PROVE  /\ IsFiniteSet(Without(E, e.key))
         /\ Cardinality(E) \in Nat /\ Cardinality(Without(E, e.key)) \in Nat
         /\ Cardinality(Without(E, e.key)) = Cardinality(E) - 1
<1>1. Without(E, e.key) = E \ {e}
  BY DEF Without, KeyedOnce
<1>2. IsFiniteSet(E \ {e}) /\ Cardinality(E \ {e}) = Cardinality(E) - 1
  BY FS_RemoveElement
<1>3. Cardinality(E) \in Nat /\ Cardinality(E \ {e}) \in Nat
  BY <1>2, FS_CardinalityType
<1> QED
  BY <1>1, <1>2, <1>3

\* There are as many keys as entries.
LEMMA KeysCounted ==
  ASSUME NEW E, IsFiniteSet(E), KeyedOnce(E)
  PROVE  Cardinality(DOMAIN DictOf(E)) = Cardinality(E)
<1> DEFINE f == [e \in E |-> e.key]
           K == {e.key : e \in E}
<1>1. f \in [E -> K]
  OBVIOUS
<1>2. \A d, e \in E : f[d] = f[e] => d = e
  BY DEF KeyedOnce
<1>3. \A k \in K : \E e \in E : f[e] = k
  OBVIOUS
<1> HIDE DEF f
<1>4. f \in Injection(E, K)
  BY <1>1, <1>2, Fun_IsInj
<1>5. f \in Surjection(E, K)
  BY <1>1, <1>3, Fun_IsSurj
<1>6. Cardinality(K) = Cardinality(E)
  BY <1>4, <1>5, FS_Surjection
<1>7. DOMAIN DictOf(E) = K
  BY DEF DictOf
<1> QED
  BY <1>6, <1>7

-----------------------------------------------------------------------------
(* Lookup *)

\* Where key k is looked for.
LEMMA BucketOfKey ==
  ASSUME NEW n \in Nat \ {0}, NEW bs, Good(bs, n), NEW k \in Key
  PROVE  LET b == bs[Hash[k] % n]
         IN  /\ Hash[k] % n \in 0 .. n - 1
             /\ GoodBucket(b, Hash[k] % n, n)
             /\ DOMAIN b = 1 .. Len(b)
             /\ \A p \in DOMAIN b : /\ FirstWith(b, k, p) <=> b[p].key = k
                                    /\ b[p] \in Entries(bs)
             /\ \A e \in Entries(bs) : e.key = k => \E p \in DOMAIN b : b[p] = e
<1> DEFINE i == Hash[k] % n
           b == bs[i]
<1>1. Hash[k] \in Nat
  BY HashAssumption
<1>2. i \in 0 .. n - 1
  BY <1>1
<1>3. GoodBucket(b, i, n)
  BY <1>2 DEF Good
<1>4. DOMAIN b = 1 .. Len(b) /\ Len(b) \in Nat
  BY <1>3 DEF GoodBucket
<1>5. \A e \in Entries(bs) : e.key = k => e \in Elements(b)
  BY EntriesProperties
<1>6. \A e \in Elements(b) : e \in Entries(bs)
  BY <1>2, EntriesProperties
<1> HIDE DEF b
<1>7. \A p \in DOMAIN b : FirstWith(b, k, p) <=> b[p].key = k
  <2> TAKE p \in DOMAIN b
  <2>1. \A q \in 1 .. p - 1 : q \in 1 .. Len(b) /\ q # p
    BY <1>4
  <2> QED
    BY <1>3, <1>4, <2>1 DEF FirstWith, GoodBucket
<1> QED
  BY <1>2, <1>3, <1>4, <1>5, <1>6, <1>7 DEF Elements, b

\* The entries alone decide what lookups find.
LEMMA LookupIsDict ==
  ASSUME NEW n \in Nat \ {0}, NEW bs, Good(bs, n)
  PROVE  Lookup(bs, n) = DictOf(Entries(bs))
<1> DEFINE E == Entries(bs)
           b(k) == bs[Hash[k] % n]
           at(k) == CHOOSE p \in DOMAIN b(k) : FirstWith(b(k), k, p)
           found == {x \in Key : n # 0 /\ Has(b(x), x)}
<1>1. KeyedOnce(E) /\ \A e \in E : e.key \in Key
  <2>1. \A e, f \in E : e.key = f.key => e = f
    BY EntriesProperties
  <2>2. \A e \in E : e \in Entry
    BY EntriesProperties
  <2> HIDE DEF E
  <2>3. \A e \in E : e.key \in Key
    BY <2>2 DEF Entry
  <2> QED
    BY <2>1, <2>3 DEF KeyedOnce
<1>2. Lookup(bs, n) = [k \in found |-> b(k)[at(k)].value]
  BY Zenon DEF Lookup
<1>3. ASSUME NEW k \in Key
      PROVE  k \in found <=> k \in {e.key : e \in E}
  <2>1. \A p \in DOMAIN b(k) : b(k)[p] \in E
    BY BucketOfKey
  <2>2. \A e \in E : e.key = k => \E p \in DOMAIN b(k) : b(k)[p] = e
    BY BucketOfKey
  <2>3. k \in found <=> \E p \in DOMAIN b(k) : b(k)[p].key = k
    BY DEF Has
  <2> HIDE DEF found, b, E
  <2> QED
    BY <2>1, <2>2, <2>3
<1>4. found = {e.key : e \in E}
  BY <1>1, <1>3
<1>5. ASSUME NEW k \in found
      PROVE  b(k)[at(k)].value = DictOf(E)[k]
  <2>1. \E p \in DOMAIN b(k) : FirstWith(b(k), k, p)
    BY BucketOfKey DEF Has
  <2>2. at(k) \in DOMAIN b(k) /\ FirstWith(b(k), k, at(k))
    BY <2>1
  <2>3. b(k)[at(k)] \in E /\ b(k)[at(k)].key = k
    <3>1. k \in Key
      OBVIOUS
    <3>2. \A p \in DOMAIN b(k) : /\ FirstWith(b(k), k, p) <=> b(k)[p].key = k
                                 /\ b(k)[p] \in E
      BY <3>1, BucketOfKey
    <3> HIDE DEF at, b, E
    <3> QED
      BY <2>2, <3>2
  <2> HIDE DEF at, b, E
  <2> QED
    BY <2>3, <1>1, DictOfProperties
<1>6. DOMAIN DictOf(E) = found /\ DictOf(E) = [k \in DOMAIN DictOf(E) |-> DictOf(E)[k]]
  BY <1>4 DEF DictOf
<1> HIDE DEF found, at, b
<1> QED
  BY <1>2, <1>5, <1>6

\* hashmap_for_each comes by every entry once.
LEMMA VisitedProperties ==
  ASSUME NEW n \in Nat, NEW bs, Good(bs, n), IsFiniteSet(Entries(bs))
  PROVE  /\ Len(Visited(bs)) = Cardinality(Entries(bs))
         /\ \A e \in Entries(bs) : \E p \in DOMAIN Visited(bs) : Visited(bs)[p] = e
<1> DEFINE S == Slots(bs)
           before == {p \in S \X S : ComesBefore(p[1], p[2])}
           order == Ranked(S, before)
<1>1. IsFiniteSet(S) /\ Cardinality(S) = Cardinality(Entries(bs))
  BY SlotsCounted
<1>2. \A s \in S : s[1] \in Int /\ s[2] \in Int /\ s = <<s[1], s[2]>>
  <2> TAKE s \in S
  <2>1. s[1] \in 0 .. n - 1 /\ s[2] \in 1 .. Len(bs[s[1]]) /\ s = <<s[1], s[2]>>
    BY SlotsProperties
  <2> QED
    BY <2>1
<1>3. Visited(bs) = [k \in DOMAIN order |-> EntryAt(bs, order[k])]
  BY DEF Visited
<1>4. \A e \in Entries(bs) : \E s \in S : e = EntryAt(bs, s)
  BY DEF Entries
<1> HIDE DEF S
<1>5. StrictOrder(S, before)
  BY <1>2 DEF StrictOrder, ComesBefore
<1> HIDE DEF before
<1>6. /\ Cardinality(S) \in Nat
      /\ order \in [1 .. Cardinality(S) -> S]
      /\ \A s \in S : \E k \in 1 .. Cardinality(S) : order[k] = s
  BY <1>1, <1>5, RankedProperties
<1> HIDE DEF order
<1>7. DOMAIN Visited(bs) = 1 .. Cardinality(S)
  BY <1>3, <1>6
<1>8. \A e \in Entries(bs) : \E p \in DOMAIN Visited(bs) : Visited(bs)[p] = e
  BY <1>3, <1>4, <1>6, <1>7
<1>9. Len(Visited(bs)) = Cardinality(S)
  BY <1>3, <1>6, <1>7
<1> QED
  BY <1>1, <1>8, <1>9

-----------------------------------------------------------------------------
(* The loop of __hashmap_rehash *)

\* The list b has the entries of the slots I, those that the loop came by last first.
ListOf(b, bs, I) ==
  \E m \in Nat : \E f \in [1 .. m -> I] :
    /\ b \in Seq(Entry) /\ Len(b) = m
    /\ \A p \in 1 .. m : b[p] = EntryAt(bs, f[p])
    /\ \A s \in I : \E p \in 1 .. m : f[p] = s
    /\ \A p, q \in 1 .. m : p < q => ComesBefore(f[q], f[p])

LEMMA ListPrepended ==
  ASSUME NEW b, NEW bs, NEW I, ListOf(b, bs, I), NEW s, EntryAt(bs, s) \in Entry,
         \A t \in I : ComesBefore(t, s)
  PROVE  ListOf(<<EntryAt(bs, s)>> \o b, bs, I \cup {s})
<1>1. PICK m \in Nat : \E f \in [1 .. m -> I] :
        /\ b \in Seq(Entry) /\ Len(b) = m
        /\ \A p \in 1 .. m : b[p] = EntryAt(bs, f[p])
        /\ \A t \in I : \E p \in 1 .. m : f[p] = t
        /\ \A p, q \in 1 .. m : p < q => ComesBefore(f[q], f[p])
  BY DEF ListOf
<1>2. PICK f \in [1 .. m -> I] :
        /\ b \in Seq(Entry) /\ Len(b) = m
        /\ \A p \in 1 .. m : b[p] = EntryAt(bs, f[p])
        /\ \A t \in I : \E p \in 1 .. m : f[p] = t
        /\ \A p, q \in 1 .. m : p < q => ComesBefore(f[q], f[p])
  BY <1>1
<1> DEFINE e == EntryAt(bs, s)
           new == <<e>> \o b
           g == [p \in 1 .. m + 1 |-> IF p = 1 THEN s ELSE f[p - 1]]
<1>3. e \in Entry
  OBVIOUS
<1> HIDE DEF e
<1>4. /\ new \in Seq(Entry) /\ Len(new) = m + 1 /\ new[1] = e
      /\ \A q \in 2 .. m + 1 : new[q] = b[q - 1]
  BY <1>2, <1>3, PrependedProperties
<1> HIDE DEF new
<1>5. \A p \in 1 .. m + 1 : p = 1 \/ (p \in 2 .. m + 1 /\ p - 1 \in 1 .. m /\ p # 1)
  OBVIOUS
<1>6. g[1] = s /\ \A p \in 2 .. m + 1 : g[p] = f[p - 1] /\ f[p - 1] \in I
  <2>1. 1 \in 1 .. m + 1 /\ \A p \in 2 .. m + 1 : p \in 1 .. m + 1 /\ p # 1 /\ p - 1 \in 1 .. m
    OBVIOUS
  <2> QED
    BY <1>2, <2>1
<1>7. g \in [1 .. m + 1 -> I \cup {s}]
  <2>1. \A p \in 1 .. m + 1 : g[p] \in I \cup {s}
    BY <1>5, <1>6
  <2> QED
    BY <2>1
<1> HIDE DEF g
<1>8. ASSUME NEW p \in 1 .. m + 1 PROVE new[p] = EntryAt(bs, g[p])
  <2>1. CASE p = 1
    BY <1>4, <1>6, <2>1 DEF e
  <2>2. CASE p # 1
    <3>1. p \in 2 .. m + 1 /\ p - 1 \in 1 .. m
      BY <1>5, <2>2
    <3>2. new[p] = b[p - 1] /\ g[p] = f[p - 1] /\ b[p - 1] = EntryAt(bs, f[p - 1])
      BY <1>2, <1>4, <1>6, <3>1
    <3> QED
      BY <3>2
  <2> QED
    BY <2>1, <2>2
<1>9. ASSUME NEW t \in I \cup {s} PROVE \E p \in 1 .. m + 1 : g[p] = t
  <2>1. CASE t = s
    BY <1>6, <2>1
  <2>2. CASE t # s
    <3>1. PICK p \in 1 .. m : f[p] = t
      BY <1>2, <2>2
    <3>2. p + 1 \in 2 .. m + 1 /\ p + 1 \in 1 .. m + 1 /\ (p + 1) - 1 = p
      OBVIOUS
    <3> QED
      BY <1>6, <3>1, <3>2
  <2> QED
    BY <2>1, <2>2
<1>10. ASSUME NEW p \in 1 .. m + 1, NEW q \in 1 .. m + 1, p < q
       PROVE  ComesBefore(g[q], g[p])
  <2>1. q \in 2 .. m + 1 /\ q - 1 \in 1 .. m /\ g[q] = f[q - 1] /\ f[q - 1] \in I
    BY <1>6, <1>10
  <2>2. CASE p = 1
    BY <1>6, <2>1, <2>2
  <2>3. CASE p # 1
    <3>1. p \in 2 .. m + 1 /\ p - 1 \in 1 .. m /\ p - 1 < q - 1
      BY <1>10, <2>3
    <3> QED
      BY <1>2, <1>6, <2>1, <3>1
  <2> QED
    BY <2>2, <2>3
<1>11. m + 1 \in Nat
  OBVIOUS
<1>12. ListOf(new, bs, I \cup {s})
  BY <1>4, <1>7, <1>8, <1>9, <1>10, <1>11 DEF ListOf
<1> QED
  BY <1>12 DEF new, e

\* The lists of Moved are the only ones like that.
LEMMA ListUnique ==
  ASSUME NEW n \in Nat, NEW bs, Good(bs, n), IsFiniteSet(Entries(bs)),
         NEW I \in SUBSET Slots(bs), NEW b, ListOf(b, bs, I)
  PROVE  LET r == Ranked(I, {p \in I \X I : ComesBefore(p[2], p[1])})
         IN  b = [k \in DOMAIN r |-> EntryAt(bs, r[k])]
<1> DEFINE R == {p \in I \X I : ComesBefore(p[2], p[1])}
           r == Ranked(I, R)
<1>1. PICK m \in Nat : \E f \in [1 .. m -> I] :
        /\ b \in Seq(Entry) /\ Len(b) = m
        /\ \A p \in 1 .. m : b[p] = EntryAt(bs, f[p])
        /\ \A t \in I : \E p \in 1 .. m : f[p] = t
        /\ \A p, q \in 1 .. m : p < q => ComesBefore(f[q], f[p])
  BY DEF ListOf
<1>2. PICK f \in [1 .. m -> I] :
        /\ b \in Seq(Entry) /\ Len(b) = m
        /\ \A p \in 1 .. m : b[p] = EntryAt(bs, f[p])
        /\ \A t \in I : \E p \in 1 .. m : f[p] = t
        /\ \A p, q \in 1 .. m : p < q => ComesBefore(f[q], f[p])
  BY <1>1
<1>3. IsFiniteSet(I)
  <2>1. IsFiniteSet(Slots(bs))
    BY SlotsCounted
  <2> QED
    BY <2>1, FS_Subset
<1>4. StrictOrder(I, R)
  <2>1. \A s \in I : s[1] \in Int /\ s[2] \in Int /\ s = <<s[1], s[2]>>
    <3> TAKE s \in I
    <3>1. s \in Slots(bs)
      OBVIOUS
    <3>2. s[1] \in 0 .. n - 1 /\ s[2] \in 1 .. Len(bs[s[1]]) /\ s = <<s[1], s[2]>>
      BY <3>1, SlotsProperties
    <3> QED
      BY <3>2
  <2> QED
    BY <2>1 DEF StrictOrder, ComesBefore
<1>5. \A p, q \in 1 .. m : p < q => <<f[p], f[q]>> \in R
  <2> TAKE p \in 1 .. m, q \in 1 .. m
  <2> HAVE p < q
  <2>1. ComesBefore(f[q], f[p]) /\ f[p] \in I /\ f[q] \in I
    BY <1>2
  <2> QED
    BY <2>1
<1> HIDE DEF R
<1>6. f = r
  <2>1. m \in Nat /\ f \in [1 .. m -> I] /\ \A t \in I : \E p \in 1 .. m : f[p] = t
    BY <1>2
  <2> QED
    BY <1>3, <1>4, <1>5, <2>1, RankedUnique
<1>7. DOMAIN r = 1 .. m /\ DOMAIN b = 1 .. m /\ b = [k \in 1 .. m |-> b[k]]
  <2>1. DOMAIN f = 1 .. m
    OBVIOUS
  <2> HIDE DEF r
  <2> QED
    BY <1>2, <1>6, <2>1
<1> HIDE DEF r
<1>8. b = [k \in DOMAIN r |-> EntryAt(bs, r[k])]
  BY <1>2, <1>6, <1>7
<1> QED
  BY <1>8 DEF r, R

\* Of the first k slots that the list `order' has, those whose entries belong to bucket i.
Came(bs, n, order, k, i) ==
  {s \in Slots(bs) : Hash[EntryAt(bs, s).key] % n = i /\ \E l \in 1 .. k : order[l] = s}

\* The buckets nb are those after k rounds of the loop.
RehashAt(nb, bs, n, order, k) ==
  /\ nb \in [0 .. n - 1 -> Seq(Entry)]
  /\ \A i \in 0 .. n - 1 : ListOf(nb[i], bs, Came(bs, n, order, k, i))

LEMMA RehashStarts ==
  ASSUME NEW bs, NEW n \in Nat \ {0}, NEW order
  PROVE  RehashAt([i \in 0 .. n - 1 |-> <<>>], bs, n, order, 0)
<1> DEFINE nb == [i \in 0 .. n - 1 |-> <<>>]
<1>1. nb \in [0 .. n - 1 -> Seq(Entry)]
  OBVIOUS
<1>2. ASSUME NEW i \in 0 .. n - 1 PROVE ListOf(<<>>, bs, Came(bs, n, order, 0, i))
  <2>1. Came(bs, n, order, 0, i) = {}
    BY DEF Came
  <2> DEFINE f == [p \in 1 .. 0 |-> {}]
             e == <<>>
  <2>2. f \in [1 .. 0 -> {}] /\ e \in Seq(Entry) /\ Len(e) = 0 /\ 0 \in Nat /\ 1 .. 0 = {}
    OBVIOUS
  <2> HIDE DEF f, e
  <2>3. ListOf(e, bs, {})
    BY <2>2 DEF ListOf
  <2> QED
    BY <2>1, <2>3 DEF e
<1>3. \A i \in 0 .. n - 1 : nb[i] = <<>>
  OBVIOUS
<1> QED
  BY <1>1, <1>2, <1>3 DEF RehashAt

LEMMA RehashGoesOn ==
  ASSUME NEW m \in Nat, NEW bs, Good(bs, m), NEW n \in Nat \ {0},
         NEW N \in Nat, NEW order \in [1 .. N -> Slots(bs)],
         \A k, l \in 1 .. N : k < l => ComesBefore(order[k], order[l]),
         NEW k \in 0 .. N - 1, NEW nb, RehashAt(nb, bs, n, order, k)
  PROVE  RehashAt(Relink(nb, n, EntryAt(bs, order[k + 1])), bs, n, order, k + 1)
<1> DEFINE s == order[k + 1]
           e == EntryAt(bs, s)
           h == Hash[e.key] % n
           new == Relink(nb, n, e)
<1>1. k + 1 \in 1 .. N /\ s \in Slots(bs)
  OBVIOUS
<1>2. e \in Entry /\ h \in 0 .. n - 1
  <2>1. e \in Entry
    BY <1>1, SlotsProperties
  <2>2. e.key \in Key
    BY <2>1 DEF Entry
  <2>3. Hash[e.key] \in Nat
    BY <2>2, HashAssumption
  <2> QED
    BY <2>1, <2>3
<1>3. nb \in [0 .. n - 1 -> Seq(Entry)] /\ \A i \in 0 .. n - 1 : ListOf(nb[i], bs, Came(bs, n, order, k, i))
  BY DEF RehashAt
<1>4. /\ \A i \in 0 .. n - 1 : i # h => Came(bs, n, order, k + 1, i) = Came(bs, n, order, k, i)
      /\ Came(bs, n, order, k + 1, h) = Came(bs, n, order, k, h) \cup {s}
  <2>1. \A l : l \in 1 .. k + 1 <=> l \in 1 .. k \/ l = k + 1
    BY <1>1
  <2>2. \A t : (\E l \in 1 .. k + 1 : order[l] = t) <=> (\E l \in 1 .. k : order[l] = t) \/ t = s
    BY <2>1
  <2>3. Hash[EntryAt(bs, s).key] % n = h
    OBVIOUS
  <2> HIDE DEF s, h, e
  <2>4. \A i \in 0 .. n - 1 : i # h => Came(bs, n, order, k + 1, i) = Came(bs, n, order, k, i)
    BY <2>2, <2>3 DEF Came
  <2>5. Came(bs, n, order, k + 1, h) = Came(bs, n, order, k, h) \cup {s}
    BY <1>1, <2>2, <2>3 DEF Came
  <2> QED
    BY <2>4, <2>5
<1>5. \A t \in Came(bs, n, order, k, h) : ComesBefore(t, s)
  <2> TAKE t \in Came(bs, n, order, k, h)
  <2>1. PICK l \in 1 .. k : order[l] = t
    BY DEF Came
  <2>2. l \in 1 .. N /\ l < k + 1
    BY <1>1
  <2> QED
    BY <1>1, <2>1, <2>2
<1> DEFINE b == <<e>> \o nb[h]
<1>6. ListOf(b, bs, Came(bs, n, order, k, h) \cup {s})
  <2>1. ListOf(nb[h], bs, Came(bs, n, order, k, h)) /\ EntryAt(bs, s) \in Entry
    BY <1>2, <1>3
  <2> HIDE DEF s, h
  <2> QED
    BY <1>5, <2>1, ListPrepended
<1>7. b \in Seq(Entry)
  <2>1. nb[h] \in Seq(Entry)
    BY <1>2, <1>3
  <2> HIDE DEF e, h
  <2> QED
    BY <1>2, <2>1, PrependedProperties
<1>8. new = [nb EXCEPT ![h] = b]
  <2> HIDE DEF e
  <2> QED
    BY DEF Relink
<1> HIDE DEF new, b, h, s, e
<1>9. /\ new \in [0 .. n - 1 -> Seq(Entry)]
      /\ new[h] = b /\ \A i \in 0 .. n - 1 : i # h => new[i] = nb[i]
  BY <1>2, <1>3, <1>7, <1>8
<1>10. \A i \in 0 .. n - 1 : ListOf(new[i], bs, Came(bs, n, order, k + 1, i))
  BY <1>3, <1>4, <1>6, <1>9
<1>11. RehashAt(new, bs, n, order, k + 1)
  BY <1>9, <1>10 DEF RehashAt
<1> QED
  BY <1>11 DEF new, e, s

\* The loop of __hashmap_rehash makes of n empty buckets what Moved does at once.
LEMMA LoopMoves ==
  ASSUME NEW m \in Nat, NEW bs, Good(bs, m), IsFiniteSet(Entries(bs)), NEW n \in Nat \ {0}
  PROVE  MovedOneByOne(bs, n) = Moved(bs, n)
<1> DEFINE S == Slots(bs)
           before == {p \in S \X S : ComesBefore(p[1], p[2])}
           order == Ranked(S, before)
           N == Cardinality(S)
           es == Visited(bs)
           fresh == [i \in 0 .. n - 1 |-> <<>>]
           Round(h) == [k \in 0 .. Len(es) |-> IF k = 0 THEN fresh ELSE Relink(h[k - 1], n, es[k])]
           made == CHOOSE h : h = Round(h)
<1>1. MovedOneByOne(bs, n) = made[Len(es)]
  BY DEF MovedOneByOne
<1>2. \A s \in S : /\ s[1] \in Int /\ s[2] \in Int /\ s = <<s[1], s[2]>>
                   /\ EntryAt(bs, s) \in Entry
  <2> TAKE s \in S
  <2>1. /\ s[1] \in 0 .. m - 1 /\ s[2] \in 1 .. Len(bs[s[1]]) /\ s = <<s[1], s[2]>>
        /\ EntryAt(bs, s) \in Entry
    BY SlotsProperties
  <2> QED
    BY <2>1
<1>3. IsFiniteSet(S)
  BY SlotsCounted
<1>4. es = [k \in DOMAIN order |-> EntryAt(bs, order[k])]
  BY DEF Visited
<1>5. \A p, q \in S : <<p, q>> \in before => ComesBefore(p, q)
  OBVIOUS
<1> HIDE DEF S
<1>6. StrictOrder(S, before)
  BY <1>2 DEF StrictOrder, ComesBefore
<1> HIDE DEF before
<1>7. /\ N \in Nat /\ order \in [1 .. N -> S]
      /\ \A s \in S : \E k \in 1 .. N : order[k] = s
      /\ \A k, l \in 1 .. N : k < l => <<order[k], order[l]>> \in before
  BY <1>3, <1>6, RankedProperties
<1> HIDE DEF order
<1>8. \A k, l \in 1 .. N : k < l => ComesBefore(order[k], order[l])
  <2> TAKE k \in 1 .. N, l \in 1 .. N
  <2> HAVE k < l
  <2>1. order[k] \in S /\ order[l] \in S /\ <<order[k], order[l]>> \in before
    BY <1>7
  <2> QED
    BY <1>5, <2>1
<1> HIDE DEF N
<1>9. Len(es) = N /\ \A k \in 1 .. N : es[k] = EntryAt(bs, order[k]) /\ es[k] \in Entry
  <2>1. DOMAIN order = 1 .. N
    BY <1>7
  <2>2. es = [k \in 1 .. N |-> EntryAt(bs, order[k])]
    BY <1>4, <2>1
  <2> HIDE DEF es
  <2> QED
    BY <1>2, <1>7, <2>2
<1>10. \E h : h = Round(h)
  <2> DEFINE X == [0 .. n - 1 -> Seq(Entry)]
             F == [k \in 1 .. N |-> [nb \in X |-> Relink(nb, n, es[k])]]
  <2>1. ASSUME NEW k \in 1 .. N, NEW nb \in X PROVE Relink(nb, n, es[k]) \in X
    <3> DEFINE e == es[k]
               i == Hash[e.key] % n
    <3>1. e \in Entry
      BY <1>9
    <3> HIDE DEF e
    <3>2. e.key \in Key
      BY <3>1 DEF Entry
    <3>3. Hash[e.key] \in Nat
      BY <3>2, HashAssumption
    <3>4. i \in 0 .. n - 1
      BY <3>3
    <3> HIDE DEF i
    <3>5. nb[i] \in Seq(Entry)
      BY <3>4
    <3> DEFINE b == <<e>> \o nb[i]
    <3>6. b \in Seq(Entry)
      BY <3>1, <3>5, PrependedProperties
    <3>7. Relink(nb, n, e) = [nb EXCEPT ![i] = b]
      BY DEF Relink, i
    <3> HIDE DEF b
    <3>8. [nb EXCEPT ![i] = b] \in X
      BY <3>4, <3>6
    <3> QED
      BY <3>7, <3>8 DEF e
  <2>2. fresh \in X
    OBVIOUS
  <2> HIDE DEF X, fresh, es
  <2>3. F \in Rounds(N, X)
    BY <2>1 DEF Rounds
  <2>4. \A k \in 1 .. N, nb \in X : F[k][nb] = Relink(nb, n, es[k])
    OBVIOUS
  <2> HIDE DEF F
  <2>5. PICK h : IsCourse(h, N, X, fresh, F)
    BY <1>7, <2>2, <2>3, CourseExists
  <2>6. /\ h \in [0 .. N -> X] /\ h[0] = fresh
        /\ \A k \in 1 .. N : h[k] = F[k][h[k - 1]]
    BY <2>5 DEF IsCourse
  <2>7. \A k \in 1 .. N : h[k] = Relink(h[k - 1], n, es[k])
    <3> TAKE k \in 1 .. N
    <3>1. k - 1 \in 0 .. N
      BY <1>7
    <3>2. h[k - 1] \in X
      BY <2>6, <3>1
    <3> QED
      BY <2>4, <2>6, <3>2
  <2>8. \A k \in 0 .. N : h[k] = IF k = 0 THEN fresh ELSE Relink(h[k - 1], n, es[k])
    BY <1>7, <2>6, <2>7
  <2>9. h = Round(h)
    BY <1>9, <2>6, <2>8
  <2> QED
    BY <2>9
<1>11. made = Round(made)
  <2> HIDE DEF Round
  <2> QED
    BY <1>10
<1> HIDE DEF made, es, fresh
<1>12. made[0] = fresh /\ \A k \in 1 .. N : made[k] = Relink(made[k - 1], n, es[k])
  BY <1>7, <1>9, <1>11
<1> HIDE DEF Round
<1> DEFINE T == {k \in 0 .. N : RehashAt(made[k], bs, n, order, k)}
<1>13. 0 \in T
  <2>1. RehashAt(fresh, bs, n, order, 0)
    BY RehashStarts DEF fresh
  <2> QED
    BY <1>7, <1>12, <2>1
<1>14. ASSUME NEW k \in 0 .. N - 1, k \in T PROVE k + 1 \in T
  <2>1. k + 1 \in 1 .. N /\ k + 1 \in 0 .. N /\ (k + 1) - 1 = k
    BY <1>7
  <2>2. made[k + 1] = Relink(made[k], n, EntryAt(bs, order[k + 1]))
    BY <1>9, <1>12, <2>1
  <2>3. order \in [1 .. N -> Slots(bs)] /\ RehashAt(made[k], bs, n, order, k)
    BY <1>7, <1>14 DEF S
  <2>4. RehashAt(Relink(made[k], n, EntryAt(bs, order[k + 1])), bs, n, order, k + 1)
    BY <1>7, <1>8, <2>3, RehashGoesOn
  <2> QED
    BY <2>1, <2>2, <2>4
<1> HIDE DEF T
<1>15. N \in T
  <2>1. 0 .. N \subseteq T
    BY <1>7, <1>13, <1>14, InductionUpTo
  <2> QED
    BY <1>7, <2>1
<1> DEFINE nb == made[N]
           goes(i) == {s \in Slots(bs) : Hash[EntryAt(bs, s).key] % n = i}
           r(i) == Ranked(goes(i), {p \in goes(i) \X goes(i) : ComesBefore(p[2], p[1])})
<1>16. RehashAt(nb, bs, n, order, N)
  BY <1>15 DEF T
<1>17. Moved(bs, n) = [i \in 0 .. n - 1 |-> [k \in DOMAIN r(i) |-> EntryAt(bs, r(i)[k])]]
  BY DEF Moved
<1> HIDE DEF nb
<1>18. ASSUME NEW i \in 0 .. n - 1
       PROVE  nb[i] = [k \in DOMAIN r(i) |-> EntryAt(bs, r(i)[k])]
  <2> DEFINE I == goes(i)
  <2>1. Came(bs, n, order, N, i) = I
    BY <1>7 DEF Came, S
  <2>2. I \in SUBSET Slots(bs)
    OBVIOUS
  <2>3. ListOf(nb[i], bs, I)
    <3> HIDE DEF I
    <3> QED
      BY <1>16, <2>1 DEF RehashAt
  <2>4. LET x == Ranked(I, {p \in I \X I : ComesBefore(p[2], p[1])})
        IN  nb[i] = [k \in DOMAIN x |-> EntryAt(bs, x[k])]
    <3> HIDE DEF I
    <3> QED
      BY <2>2, <2>3, ListUnique
  <2> QED
    BY <2>4
<1> HIDE DEF r
<1>19. nb = [i \in 0 .. n - 1 |-> [k \in DOMAIN r(i) |-> EntryAt(bs, r(i)[k])]]
  BY <1>16, <1>18 DEF RehashAt
<1> QED
  BY <1>1, <1>9, <1>17, <1>19 DEF nb

-----------------------------------------------------------------------------
(* The invariant *)

HInv ==
  /\ TypeOK
  /\ Good(buckets, count)
  /\ IsFiniteSet(Entries(buckets)) /\ size = Cardinality(Entries(buckets))
  /\ NoLeak
  /\ LoadBounded

\* The dictionary counts as the map does.
LEMMA SameCardinality ==
  ASSUME NEW S
  PROVE  D!Cardinality(S) = Cardinality(S)
BY DEF D!Cardinality, Cardinality

\* Without buckets there is nothing.
LEMMA ClosedIsEmpty ==
  ASSUME NEW bs, Good(bs, 0)
  PROVE  Entries(bs) = {} /\ Lookup(bs, 0) = D!Empty
<1>1. 0 .. 0 - 1 = {}
  OBVIOUS
<1>2. Entries(bs) = {}
  BY <1>1, EntriesProperties
<1>3. Lookup(bs, 0) = D!Empty
  BY DEF Lookup, D!Empty
<1> QED
  BY <1>2, <1>3

\* New buckets are empty.
LEMMA FreshIsEmpty ==
  ASSUME NEW n \in Nat
  PROVE  LET bs == [i \in 0 .. n - 1 |-> <<>>]
         IN  Good(bs, n) /\ Entries(bs) = {} /\ IsFiniteSet(Entries(bs))
             /\ Cardinality(Entries(bs)) = 0 /\ Lookup(bs, n) = D!Empty
<1> DEFINE bs == [i \in 0 .. n - 1 |-> <<>>]
<1>1. \A i \in 0 .. n - 1 : GoodBucket(bs[i], i, n)
  BY DEF GoodBucket
<1>2. bs \in [0 .. n - 1 -> Seq(Entry)]
  OBVIOUS
<1>3. Good(bs, n)
  BY <1>1, <1>2 DEF Good
<1>4. \A i \in 0 .. n - 1 : Elements(bs[i]) = {}
  BY DEF Elements
<1>5. Entries(bs) = {}
  BY <1>3, <1>4, EntriesProperties
<1>6. Lookup(bs, n) = D!Empty
  <2>1. ASSUME NEW x \in Key, n # 0
        PROVE  ~Has(bs[Hash[x] % n], x)
    <3>1. Hash[x] \in Nat
      BY HashAssumption
    <3>2. Hash[x] % n \in 0 .. n - 1
      BY <2>1, <3>1
    <3>3. bs[Hash[x] % n] = <<>>
      BY <3>2
    <3> QED
      BY <3>3 DEF Has
  <2> HIDE DEF bs
  <2>2. {x \in Key : n # 0 /\ Has(bs[Hash[x] % n], x)} = {}
    BY <2>1
  <2> QED
    BY <2>2 DEF Lookup, D!Empty
<1> QED
  BY <1>3, <1>5, <1>6, FS_EmptySet

\* What Put does to the n buckets bs.
PutOutcome(bs, n, k, v) ==
  /\ Good(buckets', n)
  /\ IsFiniteSet(Entries(buckets')) /\ size' = Cardinality(Entries(buckets'))
  /\ size' \in Nat /\ size' <= size + 1 /\ allocated' = 3 * size' + 1
  /\ \/ /\ Return("out_of_memory", Nothing)
        /\ Lookup(buckets', n) = Lookup(bs, n)
     \/ /\ Return("ok", Nothing)
        /\ Lookup(buckets', n)
             = [x \in DOMAIN Lookup(bs, n) \cup {k} |->
                  IF x = k THEN v ELSE Lookup(bs, n)[x]]

\* What Put does to n buckets that have room for one entry more.
LEMMA PutEffect ==
  ASSUME NEW n \in Nat \ {0}, NEW bs, Good(bs, n), IsFiniteSet(Entries(bs)),
         size = Cardinality(Entries(bs)), size \in Nat, allocated = 3 * size + 1,
         NEW k \in Key, NEW v \in Value, Put(bs, n, k, v)
  PROVE  PutOutcome(bs, n, k, v)
<1> USE DEF PutOutcome
<1> DEFINE E == Entries(bs)
           i == Hash[k] % n
           b == bs[i]
           e == [key |-> k, value |-> v]
<1>1. KeyedOnce(E) /\ \A f \in E : f \in Entry
  BY EntriesProperties DEF KeyedOnce
<1>2. /\ i \in 0 .. n - 1 /\ GoodBucket(b, i, n)
      /\ DOMAIN b = 1 .. Len(b)
      /\ \A p \in DOMAIN b : /\ FirstWith(b, k, p) <=> b[p].key = k
                             /\ b[p] \in Entries(bs)
      /\ \A f \in Entries(bs) : f.key = k => \E p \in DOMAIN b : b[p] = f
  <2>1. i \in 0 .. n - 1 /\ GoodBucket(b, i, n) /\ DOMAIN b = 1 .. Len(b)
    BY BucketOfKey
  <2>2. \A p \in DOMAIN b : /\ FirstWith(b, k, p) <=> b[p].key = k
                            /\ b[p] \in Entries(bs)
    BY BucketOfKey
  <2>3. \A f \in Entries(bs) : f.key = k => \E p \in DOMAIN b : b[p] = f
    BY BucketOfKey
  <2> QED
    BY <2>1, <2>2, <2>3
<1>3. Elements(b) \subseteq E
  BY <1>2 DEF Elements
<1>4. \A f : f \in E /\ Hash[f.key] % n # i => f \in Without(E, k)
  BY DEF Without
<1>5. \A f \in E : Hash[f.key] % n = i => f \in Elements(b)
  BY EntriesProperties
<1>6. \A f \in Elements(b) : Hash[f.key] % n = i
  BY <1>2, EntriesProperties
<1>7. e.key = k /\ Hash[e.key] % n = i
  OBVIOUS
<1> HIDE DEF e, b
\* A bucket with e for what had key k leaves the entries with e for what had key k.
<1>8. ASSUME NEW c, GoodBucket(c, i, n), Elements(c) = Without(Elements(b), k) \cup {e},
             buckets' = [bs EXCEPT ![i] = c]
      PROVE  /\ Good(buckets', n)
             /\ Entries(buckets') = Without(E, k) \cup {e}
             /\ Lookup(buckets', n)
                  = [x \in DOMAIN Lookup(bs, n) \cup {k} |->
                       IF x = k THEN v ELSE Lookup(bs, n)[x]]
  <2>1. /\ Good(buckets', n)
        /\ \A f : f \in Entries(buckets') <=>
                    f \in Elements(c) \/ (f \in E /\ Hash[f.key] % n # i)
    <3> DEFINE new == [bs EXCEPT ![i] = c]
    <3>1. i \in 0 .. n - 1
      BY <1>2
    <3> HIDE DEF i
    <3>2. /\ Good(new, n)
          /\ \A f : f \in Entries(new) <=>
                      f \in Elements(c) \/ (f \in E /\ Hash[f.key] % n # i)
      BY <3>1, <1>8, BucketReplaced
    <3>3. buckets' = new
      BY <1>8
    <3> HIDE DEF new, E
    <3> QED
      BY <3>2, <3>3
  <2>2. Entries(buckets') = Without(E, k) \cup {e}
    <3> HIDE DEF i, E
    <3> QED
      BY <1>3, <1>4, <1>5, <1>8, <2>1 DEF Without
  <2>3. DictOf(Without(E, k) \cup {e})
          = [x \in DOMAIN DictOf(E) \cup {k} |-> IF x = k THEN v ELSE DictOf(E)[x]]
    <3>1. e.key = k /\ e.value = v
      BY DEF e
    <3>2. DictOf(Without(E, e.key) \cup {e})
            = [x \in DOMAIN DictOf(E) \cup {e.key} |->
                 IF x = e.key THEN e.value ELSE DictOf(E)[x]]
      BY <1>1, DictOfWith
    <3> HIDE DEF E
    <3> QED
      BY <3>1, <3>2
  <2>4. Lookup(bs, n) = DictOf(E) /\ Lookup(buckets', n) = DictOf(Entries(buckets'))
    BY <2>1, LookupIsDict
  <2> QED
    BY <2>1, <2>2, <2>3, <2>4
<1>9. CASE \E p \in DOMAIN b : /\ FirstWith(b, k, p)
                               /\ buckets' = [bs EXCEPT ![i] = Overwritten(@, p, v)]
                               /\ Return("ok", Nothing)
                               /\ UNCHANGED <<size, allocated>>
  <2>1. PICK p \in DOMAIN b : /\ FirstWith(b, k, p)
                              /\ buckets' = [bs EXCEPT ![i] = Overwritten(@, p, v)]
                              /\ Return("ok", Nothing)
                              /\ UNCHANGED <<size, allocated>>
    BY <1>9
  <2> DEFINE c == Overwritten(b, p, v)
  <2>2. b[p].key = k /\ b[p] \in E /\ p \in 1 .. Len(b)
    BY <1>2, <2>1
  <2>3. GoodBucket(c, i, n) /\ Elements(c) = Without(Elements(b), k) \cup {e}
    BY <1>2, <2>2, OverwrittenGood DEF e
  <2>4. buckets' = [bs EXCEPT ![i] = c]
    BY <1>2, <2>1 DEF Good, b
  <2> HIDE DEF c
  <2>5. /\ Good(buckets', n)
        /\ Entries(buckets') = Without(E, k) \cup {e}
        /\ Lookup(buckets', n)
             = [x \in DOMAIN Lookup(bs, n) \cup {k} |->
                  IF x = k THEN v ELSE Lookup(bs, n)[x]]
    BY <1>8, <2>3, <2>4
  <2>6. /\ IsFiniteSet(Without(E, k)) /\ Cardinality(Without(E, k)) \in Nat
        /\ Cardinality(Without(E, k)) = Cardinality(E) - 1
    BY <1>1, <2>2, EntriesCounted
  <2>7. e \notin Without(E, k)
    BY <1>7 DEF Without
  <2>8. /\ IsFiniteSet(Without(E, k) \cup {e})
        /\ Cardinality(Without(E, k) \cup {e}) = Cardinality(Without(E, k)) + 1
    BY <2>6, <2>7, FS_AddElement
  <2> HIDE DEF E, i
  <2>9. size = Cardinality(E)
    BY DEF E
  <2>10. size' = Cardinality(E) /\ IsFiniteSet(Entries(buckets'))
         /\ Cardinality(Entries(buckets')) = Cardinality(E)
    <3>1. Cardinality(E) \in Nat /\ Cardinality(E) - 1 + 1 = Cardinality(E)
      BY <2>9
    <3>2. Cardinality(Without(E, k) \cup {e}) = Cardinality(E)
      BY <2>6, <2>8, <3>1
    <3> QED
      BY <2>1, <2>5, <2>8, <2>9, <3>2
  <2>11. size' = size /\ allocated' = allocated
    BY <2>1
  <2> QED
    BY <2>1, <2>5, <2>10, <2>11
<1>10. CASE ~Has(b, k) /\ buckets' = bs /\ Return("out_of_memory", Nothing)
            /\ UNCHANGED <<size, allocated>>
  BY <1>10
<1>11. CASE /\ ~Has(b, k)
            /\ buckets' = [bs EXCEPT ![i] = <<[key |-> k, value |-> v]>> \o @]
            /\ size' = size + 1
            /\ allocated' = allocated + 3
            /\ Return("ok", Nothing)
  <2> DEFINE c == <<e>> \o b
  <2>1. /\ GoodBucket(c, i, n) /\ Elements(c) = Elements(b) \cup {e}
        /\ Without(Elements(b), k) = Elements(b)
    <3>1. e \in Entry
      BY DEF e, Entry
    <3>2. GoodBucket(b, i, n) /\ Hash[e.key] % n = i /\ ~Has(b, e.key) /\ n \in Nat
      BY <1>2, <1>7, <1>11
    <3> HIDE DEF i
    <3>3. /\ GoodBucket(c, i, n) /\ Elements(c) = Elements(b) \cup {e}
          /\ Without(Elements(b), e.key) = Elements(b)
      BY <3>1, <3>2, PrependedGood
    <3> QED
      BY <1>7, <3>3
  <2>2. buckets' = [bs EXCEPT ![i] = c]
    <3>1. DOMAIN bs = 0 .. n - 1
      BY DEF Good
    <3>2. buckets' = [bs EXCEPT ![i] = <<e>> \o bs[i]]
      BY <1>2, <1>11, <3>1 DEF e
    <3> QED
      BY <3>2 DEF b
  <2> HIDE DEF c
  <2>3. /\ Good(buckets', n)
        /\ Entries(buckets') = Without(E, k) \cup {e}
        /\ Lookup(buckets', n)
             = [x \in DOMAIN Lookup(bs, n) \cup {k} |->
                  IF x = k THEN v ELSE Lookup(bs, n)[x]]
    BY <1>8, <2>1, <2>2
  <2>4. \A f \in E : f.key # k
    BY <1>2, <1>11 DEF Has
  <2>5. Without(E, k) = E /\ e \notin E
    BY <1>7, <2>4 DEF Without
  <2>6. IsFiniteSet(E \cup {e}) /\ Cardinality(E \cup {e}) = Cardinality(E) + 1
    BY <2>5, FS_AddElement
  <2>7. size' \in Nat /\ allocated' = 3 * size' + 1
    BY <1>11
  <2>8. size = Cardinality(E)
    OBVIOUS
  <2> HIDE DEF E, i
  <2>9. size' = Cardinality(E) + 1 /\ IsFiniteSet(Entries(buckets'))
         /\ Cardinality(Entries(buckets')) = Cardinality(E) + 1
    BY <1>11, <2>3, <2>5, <2>6, <2>8
  <2> QED
    BY <1>11, <2>3, <2>7, <2>9
<1> QED
  BY <1>9, <1>10, <1>11 DEF Put, b

-----------------------------------------------------------------------------
(* The calls *)

\* What HInv says of an initialised map, and of one that is not.
LEMMA OpenOrClosed ==
  ASSUME HInv
  PROVE  /\ count \in Nat /\ size \in Nat
         /\ size = Cardinality(Entries(buckets)) /\ IsFiniteSet(Entries(buckets))
         /\ KeyedOnce(Entries(buckets))
         /\ count # 0 => /\ count \in Nat \ {0}
                         /\ allocated = 3 * size + 1
                         /\ Lookup(buckets, count) = DictOf(Entries(buckets))
         /\ count = 0 => Entries(buckets) = {} /\ Lookup(buckets, count) = D!Empty
<1>1. /\ count \in Nat /\ size \in Nat /\ Good(buckets, count)
      /\ size = Cardinality(Entries(buckets)) /\ IsFiniteSet(Entries(buckets))
      /\ count # 0 => allocated = 3 * size + 1
  BY DEF HInv, TypeOK, NoLeak
<1>2. KeyedOnce(Entries(buckets))
  BY <1>1, EntriesProperties DEF KeyedOnce
<1>3. count # 0 => Lookup(buckets, count) = DictOf(Entries(buckets))
  BY <1>1, LookupIsDict
<1>4. count = 0 => Entries(buckets) = {} /\ Lookup(buckets, count) = D!Empty
  BY <1>1, ClosedIsEmpty
<1> QED
  BY <1>1, <1>2, <1>3, <1>4

\* A call that leaves the map alone.
LEMMA UnchangedKeepsHInv ==
  ASSUME HInv, UNCHANGED <<count, buckets, size, allocated>>,
         ret'.error \in {"ok", "failed", "out_of_memory", "invalid_parameter"}
  PROVE  HInv'
BY DEF HInv, TypeOK, NoLeak, LoadBounded

LEMMA CreateStep ==
  ASSUME HInv, NEW n \in InitialCounts, Create(n)
  PROVE  HInv' /\ D!Create
<1>1. count = 0 /\ Lookup(buckets, count) = D!Empty
  BY OpenOrClosed DEF Create
<1>2. CASE NoMemory
  <2>1. HInv'
    BY <1>2, UnchangedKeepsHInv DEF NoMemory, Return
  <2> QED
    BY <1>1, <1>2, <2>1 DEF NoMemory, Return, D!Create, D!NoMemory, D!Return
<1>3. CASE /\ count' = IF n < InitialSize THEN InitialSize ELSE n
           /\ buckets' = [i \in 0 .. count' - 1 |-> <<>>]
           /\ size' = 0
           /\ allocated' = allocated + 1
           /\ Return("ok", Nothing)
  <2>1. count' \in Nat /\ count' # 0
    BY <1>3, SizeAssumption
  <2>2. /\ Good(buckets', count') /\ IsFiniteSet(Entries(buckets'))
        /\ Cardinality(Entries(buckets')) = 0 /\ Lookup(buckets', count') = D!Empty
    <3> DEFINE m == count'
    <3> HIDE DEF m
    <3>1. m \in Nat /\ buckets' = [i \in 0 .. m - 1 |-> <<>>]
      BY <1>3, <2>1 DEF m
    <3>2. /\ Good(buckets', m) /\ IsFiniteSet(Entries(buckets'))
          /\ Cardinality(Entries(buckets')) = 0 /\ Lookup(buckets', m) = D!Empty
      BY <3>1, FreshIsEmpty
    <3> QED
      BY <3>2 DEF m
  <2>3. allocated' = 1
    BY <1>1, <1>3 DEF HInv, NoLeak
  <2>4. HInv'
    <3>1. TypeOK'
      BY <1>3, <2>1, <2>2, <2>3 DEF TypeOK, Return, Good
    <3>2. NoLeak' /\ LoadBounded'
      BY <1>3, <2>1, <2>3 DEF NoLeak, LoadBounded
    <3>3. size' = Cardinality(Entries(buckets'))
      BY <1>3, <2>2
    <3> QED
      BY <2>2, <3>1, <3>2, <3>3 DEF HInv
  <2> QED
    BY <1>1, <1>3, <2>1, <2>2, <2>4 DEF Return, D!Create, D!Return
<1> QED
  BY <1>2, <1>3 DEF Create

LEMMA DeinitStep ==
  ASSUME HInv, Deinit
  PROVE  HInv' /\ D!Deinit
<1>1. count' = 0 /\ buckets' = <<>> /\ size' = 0 /\ Return("ok", Nothing)
  BY DEF Deinit
<1>2. allocated' = 0
  <2>1. CASE count = 0
    BY <2>1 DEF HInv, NoLeak, Deinit
  <2>2. CASE count # 0
    <3>1. count \in Nat /\ Good(buckets, count) /\ IsFiniteSet(Entries(buckets))
      BY DEF HInv, TypeOK
    <3>2. Cardinality(Slots(buckets)) = size
      BY <3>1, SlotsCounted DEF HInv
    <3>3. size \in Nat /\ allocated = 3 * size + 1
      BY <2>2, OpenOrClosed
    <3>4. allocated' = allocated - 3 * size - 1
      BY <2>2, <3>2 DEF Deinit
    <3> QED
      BY <3>3, <3>4
  <2> QED
    BY <2>1, <2>2
<1>3. Good(buckets', 0)
  <2>1. 0 .. 0 - 1 = {}
    OBVIOUS
  <2>2. <<>> \in [{} -> Seq(Entry)]
    OBVIOUS
  <2> QED
    BY <1>1, <2>1, <2>2 DEF Good
<1>4. Entries(buckets') = {} /\ Lookup(buckets', 0) = D!Empty
  BY <1>3, ClosedIsEmpty
<1>5. IsFiniteSet(Entries(buckets')) /\ Cardinality(Entries(buckets')) = 0
  BY <1>4, FS_EmptySet
<1>6. HInv'
  BY <1>1, <1>2, <1>3, <1>5 DEF HInv, TypeOK, NoLeak, LoadBounded, Return, Good
<1> QED
  BY <1>1, <1>4, <1>6 DEF Return, D!Deinit, D!Return

LEMMA RefusedStep ==
  ASSUME HInv, Refused
  PROVE  HInv' /\ D!Refused
<1>1. HInv'
  BY UnchangedKeepsHInv DEF Refused, Return
<1> QED
  BY <1>1 DEF Refused, Return, D!Refused, D!Return

LEMMA SetStep ==
  ASSUME HInv, NEW k \in Key, NEW v \in Value, Set(k, v)
  PROVE  HInv' /\ D!Set(k, v)
<1>1. CASE Refused
  BY <1>1, RefusedStep DEF D!Set
<1>2. CASE count # 0 /\ Grows /\ NoMemory
  <2>1. HInv'
    BY <1>2, UnchangedKeepsHInv DEF NoMemory, Return
  <2> QED
    BY <1>2, <2>1 DEF NoMemory, Return, D!Set, D!NoMemory, D!Return
\* An insertion into n buckets with the same entries and with room for one more.
<1>3. ASSUME NEW n \in Nat \ {0}, NEW bs, count # 0, count' = n, Good(bs, n),
             Entries(bs) = Entries(buckets), (size + 1) * 4 <= n * 3, Put(bs, n, k, v)
      PROVE  HInv' /\ D!Set(k, v)
  <2>1. /\ IsFiniteSet(Entries(bs)) /\ size = Cardinality(Entries(bs))
        /\ size \in Nat /\ allocated = 3 * size + 1
    BY <1>3, OpenOrClosed
  <2>2. Lookup(bs, n) = Lookup(buckets, count)
    BY <1>3, LookupIsDict, OpenOrClosed
  <2>3. /\ Good(buckets', n)
        /\ IsFiniteSet(Entries(buckets')) /\ size' = Cardinality(Entries(buckets'))
        /\ size' \in Nat /\ size' <= size + 1 /\ allocated' = 3 * size' + 1
        /\ \/ /\ Return("out_of_memory", Nothing)
              /\ Lookup(buckets', n) = Lookup(bs, n)
           \/ /\ Return("ok", Nothing)
              /\ Lookup(buckets', n)
                   = [x \in DOMAIN Lookup(bs, n) \cup {k} |->
                        IF x = k THEN v ELSE Lookup(bs, n)[x]]
    <3>1. PutOutcome(bs, n, k, v)
      BY <1>3, <2>1, PutEffect
    <3> QED
      BY <3>1 DEF PutOutcome
  <2>4. TypeOK'
    BY <1>3, <2>3 DEF TypeOK, Good, Return
  <2>5. LoadBounded' /\ NoLeak'
    BY <1>3, <2>1, <2>3 DEF LoadBounded, NoLeak
  <2>6. HInv'
    BY <1>3, <2>3, <2>4, <2>5 DEF HInv
  <2>7. CASE Return("out_of_memory", Nothing) /\ Lookup(buckets', n) = Lookup(bs, n)
    BY <1>3, <2>2, <2>6, <2>7 DEF Return, D!Set, D!NoMemory, D!Return
  <2>8. CASE /\ Return("ok", Nothing)
             /\ Lookup(buckets', n)
                  = [x \in DOMAIN Lookup(bs, n) \cup {k} |->
                       IF x = k THEN v ELSE Lookup(bs, n)[x]]
    BY <1>3, <2>2, <2>6, <2>8 DEF Return, D!Set, D!Return
  <2> QED
    BY <2>3, <2>7, <2>8
<1>4. CASE count # 0 /\ ~Grows /\ Put(buckets, count, k, v) /\ UNCHANGED count
  <2>1. count \in Nat \ {0} /\ Good(buckets, count) /\ size \in Nat
    BY <1>4 DEF HInv, TypeOK
  <2>2. (size + 1) * 4 <= count * 3
    BY <1>4, <2>1 DEF Grows
  <2> QED
    BY <1>3, <1>4, <2>1, <2>2
<1>5. CASE /\ count # 0 /\ Grows
           /\ count' = 2 * count /\ Put(Moved(buckets, 2 * count), 2 * count, k, v)
  <2>1. count \in Nat \ {0} /\ Good(buckets, count) /\ size \in Nat
        /\ IsFiniteSet(Entries(buckets)) /\ size * 4 <= count * 3
    BY <1>5 DEF HInv, TypeOK, LoadBounded
  <2>2. 2 * count \in Nat \ {0} /\ (size + 1) * 4 <= (2 * count) * 3
    <3>1. CASE count = 1
      <4>1. size = 0
        BY <2>1, <3>1
      <4> QED
        BY <3>1, <4>1
    <3>2. CASE count >= 2
      BY <2>1, <3>2
    <3> QED
      BY <2>1, <3>1, <3>2
  <2>3. /\ Good(Moved(buckets, 2 * count), 2 * count)
        /\ Entries(Moved(buckets, 2 * count)) = Entries(buckets)
    BY <2>1, <2>2, MovedGood
  <2> QED
    BY <1>3, <1>5, <2>2, <2>3
<1> QED
  BY <1>1, <1>2, <1>4, <1>5 DEF Set

LEMMA GetStep ==
  ASSUME HInv, NEW k \in Key, Get(k)
  PROVE  HInv' /\ D!Get(k)
<1>1. CASE Refused
  BY <1>1, RefusedStep DEF D!Get
<1>2. CASE count # 0
  <2> DEFINE b == buckets[Hash[k] % count]
             E == Entries(buckets)
  <2>1. count \in Nat \ {0} /\ Good(buckets, count)
    BY <1>2 DEF HInv, TypeOK
  <2>2. /\ \A p \in DOMAIN b : FirstWith(b, k, p) <=> b[p].key = k
        /\ \A p \in DOMAIN b : b[p] \in E
        /\ \A e \in E : e.key = k => \E p \in DOMAIN b : b[p] = e
    <3>1. /\ Hash[k] % count \in 0 .. count - 1 /\ GoodBucket(b, Hash[k] % count, count)
          /\ DOMAIN b = 1 .. Len(b)
      BY <2>1, BucketOfKey
    <3>2. \A p \in DOMAIN b : /\ FirstWith(b, k, p) <=> b[p].key = k
                              /\ b[p] \in E
      BY <2>1, BucketOfKey
    <3>3. \A e \in E : e.key = k => \E p \in DOMAIN b : b[p] = e
      BY <2>1, BucketOfKey
    <3> QED
      BY <3>1, <3>2, <3>3
  <2>3. Lookup(buckets, count) = DictOf(E) /\ KeyedOnce(E)
    BY <1>2, OpenOrClosed
  <2>4. /\ UNCHANGED <<count, buckets, size, allocated>>
        /\ \/ \E p \in DOMAIN b : FirstWith(b, k, p) /\ Return("ok", b[p].value)
           \/ ~Has(b, k) /\ Return("failed", Nothing)
    BY <1>2 DEF Get, Refused
  <2> HIDE DEF b, E
  <2>5. /\ DOMAIN DictOf(E) = {e.key : e \in E}
        /\ \A e \in E : e.key \in DOMAIN DictOf(E) /\ DictOf(E)[e.key] = e.value
    BY <2>3, DictOfProperties
  <2>6. HInv'
    BY <2>4, UnchangedKeepsHInv DEF Return
  <2>7. CASE \E p \in DOMAIN b : FirstWith(b, k, p) /\ Return("ok", b[p].value)
    <3>1. PICK p \in DOMAIN b : FirstWith(b, k, p) /\ Return("ok", b[p].value)
      BY <2>7
    <3>2. b[p] \in E /\ b[p].key = k
      BY <2>2, <3>1
    <3>3. k \in DOMAIN DictOf(E) /\ DictOf(E)[k] = b[p].value
      BY <2>5, <3>2
    <3> QED
      BY <1>2, <2>3, <2>4, <2>6, <3>1, <3>3 DEF Return, D!Get, D!Return
  <2>8. CASE ~Has(b, k) /\ Return("failed", Nothing)
    <3>1. k \notin DOMAIN DictOf(E)
      BY <2>2, <2>5, <2>8 DEF Has
    <3> QED
      BY <1>2, <2>3, <2>4, <2>6, <2>8, <3>1 DEF Return, D!Get, D!Return
  <2> QED
    BY <2>4, <2>7, <2>8
<1> QED
  BY <1>1, <1>2 DEF Get

LEMMA RemoveStep ==
  ASSUME HInv, NEW k \in Key, Remove(k)
  PROVE  HInv' /\ D!Remove(k)
<1>1. CASE Refused
  BY <1>1, RefusedStep DEF D!Remove
<1>2. CASE count # 0
  <2> DEFINE i == Hash[k] % count
             b == buckets[i]
             E == Entries(buckets)
  <2>1. count \in Nat \ {0} /\ Good(buckets, count) /\ size \in Nat /\ allocated \in Nat
        /\ size * 4 <= count * 3
    BY <1>2 DEF HInv, TypeOK, LoadBounded
  <2>2. /\ i \in 0 .. count - 1 /\ GoodBucket(b, i, count) /\ DOMAIN b = 1 .. Len(b)
        /\ \A p \in DOMAIN b : FirstWith(b, k, p) <=> b[p].key = k
        /\ \A p \in DOMAIN b : b[p] \in E
        /\ \A e \in E : e.key = k => \E p \in DOMAIN b : b[p] = e
    <3>1. /\ Hash[k] % count \in 0 .. count - 1 /\ GoodBucket(b, Hash[k] % count, count)
          /\ DOMAIN b = 1 .. Len(b)
      BY <2>1, BucketOfKey
    <3>2. \A p \in DOMAIN b : /\ FirstWith(b, k, p) <=> b[p].key = k
                              /\ b[p] \in E
      BY <2>1, BucketOfKey
    <3>3. \A e \in E : e.key = k => \E p \in DOMAIN b : b[p] = e
      BY <2>1, BucketOfKey
    <3> QED
      BY <3>1, <3>2, <3>3
  <2>3. /\ Lookup(buckets, count) = DictOf(E) /\ KeyedOnce(E)
        /\ IsFiniteSet(E) /\ size = Cardinality(E) /\ allocated = 3 * size + 1
    BY <1>2, OpenOrClosed
  <2>4. /\ \A e \in E : Hash[e.key] % count = i => e \in Elements(b)
        /\ \A e \in Elements(b) : e \in E /\ Hash[e.key] % count = i
    BY <2>1, <2>2, EntriesProperties
  <2>5. DictOf(Without(E, k)) = [x \in DOMAIN DictOf(E) \ {k} |-> DictOf(E)[x]]
        /\ DOMAIN DictOf(E) = {e.key : e \in E}
    BY <2>3, DictOfWithout, DictOfProperties
  <2>6. count' = count
    BY <1>2 DEF Remove, Refused
  <2>7. CASE \E p \in DOMAIN b : /\ FirstWith(b, k, p)
                                 /\ buckets' = [buckets EXCEPT ![i] = Unlinked(@, p)]
                                 /\ size' = size - 1
                                 /\ allocated' = allocated - 3
                                 /\ Return("ok", Nothing)
    <3>1. PICK p \in DOMAIN b : /\ FirstWith(b, k, p)
                                /\ buckets' = [buckets EXCEPT ![i] = Unlinked(@, p)]
                                /\ size' = size - 1
                                /\ allocated' = allocated - 3
                                /\ Return("ok", Nothing)
      BY <2>7
    <3> DEFINE c == Unlinked(b, p)
               new == [buckets EXCEPT ![i] = c]
    <3>2. b[p].key = k /\ b[p] \in E /\ p \in 1 .. Len(b)
      BY <2>2, <3>1
    <3>3. buckets' = new
      BY <2>1, <2>2, <3>1 DEF Good
    <3> HIDE DEF b, E
    <3>4. GoodBucket(c, i, count) /\ Elements(c) = Without(Elements(b), k)
      BY <2>1, <2>2, <3>2, UnlinkedGood
    <3> HIDE DEF c, i
    <3>5. /\ Good(new, count)
          /\ \A f : f \in Entries(new) <=>
                      f \in Elements(c) \/ (f \in E /\ Hash[f.key] % count # i)
      BY <2>1, <2>2, <3>4, BucketReplaced DEF E
    <3> HIDE DEF new
    <3>6. Entries(new) = Without(E, k)
      <4>1. \A f \in E : Hash[f.key] % count # i => f.key # k
        BY DEF i
      <4> QED
        BY <2>4, <3>4, <3>5, <4>1 DEF Without
    <3>7. /\ IsFiniteSet(Without(E, k)) /\ Cardinality(E) \in Nat
          /\ Cardinality(Without(E, k)) \in Nat
          /\ Cardinality(Without(E, k)) = Cardinality(E) - 1
      BY <2>3, <3>2, EntriesCounted
    <3>8. Good(buckets', count') /\ IsFiniteSet(Entries(buckets'))
          /\ size' = Cardinality(Entries(buckets')) /\ size' \in Nat
      BY <2>3, <2>6, <3>1, <3>3, <3>5, <3>6, <3>7
    <3>9. TypeOK'
      <4>1. allocated' = 3 * size' + 1 /\ size' \in Nat
        BY <2>1, <2>3, <3>1, <3>8
      <4>2. \A x \in Nat : 3 * x + 1 \in Nat
        OBVIOUS
      <4> QED
        BY <2>1, <2>6, <3>1, <3>8, <4>1, <4>2 DEF TypeOK, Good, Return
    <3>10. NoLeak' /\ LoadBounded'
      BY <1>2, <2>1, <2>3, <2>6, <3>1 DEF NoLeak, LoadBounded
    <3>11. HInv'
      BY <3>8, <3>9, <3>10 DEF HInv
    <3>12. Lookup(buckets', count') = [x \in DOMAIN DictOf(E) \ {k} |-> DictOf(E)[x]]
      BY <2>1, <2>5, <2>6, <3>3, <3>5, <3>6, LookupIsDict
    <3>13. k \in DOMAIN DictOf(E)
      BY <2>5, <3>2
    <3> QED
      BY <1>2, <2>3, <2>6, <3>1, <3>11, <3>12, <3>13 DEF Return, D!Remove, D!Return
  <2>8. CASE /\ ~Has(b, k)
             /\ Return("failed", Nothing)
             /\ UNCHANGED <<buckets, size, allocated>>
    <3>1. \A e \in E : e.key # k
      BY <2>2, <2>8 DEF Has
    <3>2. Without(E, k) = E /\ k \notin DOMAIN DictOf(E)
      BY <2>5, <3>1 DEF Without
    <3>3. HInv'
      BY <2>6, <2>8, UnchangedKeepsHInv DEF Return
    <3>4. DictOf(E) = [x \in DOMAIN DictOf(E) \ {k} |-> DictOf(E)[x]]
      BY <2>5, <3>2
    <3> HIDE DEF E
    <3> QED
      BY <1>2, <2>3, <2>6, <2>8, <3>2, <3>3, <3>4 DEF Return, D!Remove, D!Return
  <2> QED
    BY <1>2, <2>7, <2>8 DEF Remove, Refused
<1> QED
  BY <1>1, <1>2 DEF Remove

LEMMA ForEachStep ==
  ASSUME HInv, ForEach
  PROVE  HInv' /\ D!ForEach
<1> DEFINE E == Entries(buckets)
           s == Visited(buckets)
<1>1. HInv'
  BY UnchangedKeepsHInv DEF ForEach
<1>2. /\ count \in Nat /\ Good(buckets, count) /\ IsFiniteSet(E) /\ KeyedOnce(E)
  BY OpenOrClosed DEF HInv
<1>3. Lookup(buckets, count) = DictOf(E)
  <2>1. CASE count = 0
    <3>1. E = {} /\ Lookup(buckets, count) = D!Empty
      BY <2>1, OpenOrClosed
    <3> QED
      BY <3>1 DEF DictOf, D!Empty
  <2>2. CASE count # 0
    BY <2>2, OpenOrClosed
  <2> QED
    BY <2>1, <2>2
<1>4. /\ Len(s) = Cardinality(E)
      /\ \A e \in E : \E p \in DOMAIN s : s[p] = e
  BY <1>2, VisitedProperties
<1>5. \A e \in E : e = [key |-> e.key, value |-> e.value]
  <2>1. \A e \in E : e \in Entry
    BY <1>2, EntriesProperties
  <2> QED
    BY <2>1 DEF Entry
<1> HIDE DEF E, s
<1>6. Cardinality(DOMAIN DictOf(E)) = Cardinality(E)
  BY <1>2, KeysCounted
<1>7. ASSUME NEW k \in DOMAIN DictOf(E)
      PROVE  \E p \in DOMAIN s : s[p] = [key |-> k, value |-> DictOf(E)[k]]
  <2>1. PICK e \in E : e.key = k
    BY DEF DictOf
  <2>2. DictOf(E)[k] = e.value
    BY <1>2, <2>1, DictOfProperties
  <2> QED
    BY <1>4, <1>5, <2>1, <2>2
<1>8. ret' = [error |-> "ok", value |-> Nothing, visited |-> s]
      /\ UNCHANGED <<count, buckets>>
  BY DEF ForEach, s
<1>9. D!Enumerates(s)
  BY <1>3, <1>4, <1>6, <1>7, SameCardinality DEF D!Enumerates
<1> QED
  BY <1>1, <1>8, <1>9 DEF D!ForEach

LEMMA SizeOfStep ==
  ASSUME HInv, SizeOf
  PROVE  HInv' /\ D!SizeOf
<1> DEFINE E == Entries(buckets)
<1>1. HInv'
  BY UnchangedKeepsHInv DEF SizeOf, Return
<1>2. IsFiniteSet(E) /\ KeyedOnce(E) /\ size = Cardinality(E)
  BY OpenOrClosed
<1>3. Lookup(buckets, count) = DictOf(E)
  <2>1. CASE count = 0
    <3>1. E = {} /\ Lookup(buckets, count) = D!Empty
      BY <2>1, OpenOrClosed
    <3> QED
      BY <3>1 DEF DictOf, D!Empty
  <2>2. CASE count # 0
    BY <2>2, OpenOrClosed
  <2> QED
    BY <2>1, <2>2
<1>4. size = Cardinality(DOMAIN Lookup(buckets, count))
  BY <1>2, <1>3, KeysCounted
<1> QED
  BY <1>1, <1>4, SameCardinality DEF SizeOf, Return, D!SizeOf, D!Return

-----------------------------------------------------------------------------
(* Results *)

LEMMA InitHInv == Init => HInv /\ D!Init
<1> SUFFICES ASSUME Init PROVE HInv /\ D!Init
  OBVIOUS
<1>1. /\ count = 0 /\ buckets = <<>> /\ size = 0 /\ allocated = 0
      /\ ret = [error |-> "ok", value |-> Nothing, visited |-> <<>>]
  BY DEF Init
<1>2. Good(buckets, 0)
  <2>1. 0 .. 0 - 1 = {} /\ <<>> \in [{} -> Seq(Entry)]
    OBVIOUS
  <2> QED
    BY <1>1, <2>1 DEF Good
<1>3. Entries(buckets) = {} /\ Lookup(buckets, 0) = D!Empty
  BY <1>2, ClosedIsEmpty
<1>4. IsFiniteSet(Entries(buckets)) /\ Cardinality(Entries(buckets)) = 0
  BY <1>3, FS_EmptySet
<1>5. HInv
  BY <1>1, <1>2, <1>4 DEF HInv, TypeOK, NoLeak, LoadBounded, Good
<1> QED
  BY <1>1, <1>3, <1>5 DEF D!Init

LEMMA StepHInv == HInv /\ [Next]_vars => HInv' /\ [D!Next]_(D!vars)
<1> SUFFICES ASSUME HInv, [Next]_vars PROVE HInv' /\ [D!Next]_(D!vars)
  OBVIOUS
<1>1. CASE \E n \in InitialCounts : Create(n)
  BY <1>1, CreateStep DEF D!Next
<1>2. CASE Deinit
  BY <1>2, DeinitStep DEF D!Next
<1>3. CASE \E k \in Key, v \in Value : Set(k, v)
  BY <1>3, SetStep DEF D!Next
<1>4. CASE \E k \in Key : Get(k)
  BY <1>4, GetStep DEF D!Next
<1>5. CASE \E k \in Key : Remove(k)
  BY <1>5, RemoveStep DEF D!Next
<1>6. CASE ForEach
  BY <1>6, ForEachStep DEF D!Next
<1>7. CASE SizeOf
  BY <1>7, SizeOfStep DEF D!Next
<1>8. CASE UNCHANGED vars
  BY <1>8 DEF vars, D!vars, HInv, TypeOK, NoLeak, LoadBounded
<1> QED
  BY <1>1, <1>2, <1>3, <1>4, <1>5, <1>6, <1>7, <1>8 DEF Next

\* The invariant of all calls in any order, with any of them out of memory.
THEOREM HashMapInvariant == Spec => []HInv
BY InitHInv, StepHInv, PTL DEF Spec

\* The map's fields have their types, and as many buckets as it says.
THEOREM HashMapTypeCorrect == Spec => []TypeOK
<1>1. HInv => TypeOK
  BY DEF HInv
<1> QED
  BY <1>1, HashMapInvariant, PTL

\* After any growth and any failed insertion every entry is where a lookup of
\* its key will find it, no key is twice in the map, and the count is right.
THEOREM AllEntriesFound == Spec => []EntriesFound
<1>1. HInv => EntriesFound
  <2> SUFFICES ASSUME HInv PROVE EntriesFound
    OBVIOUS
  <2>1. count \in Nat /\ Good(buckets, count) /\ IsFiniteSet(Entries(buckets))
    BY DEF HInv, TypeOK
  <2>2. size = Cardinality(Slots(buckets))
    BY <2>1, SlotsCounted DEF HInv
  <2>3. /\ \A s \in Slots(buckets) : s[1] = Hash[EntryAt(buckets, s).key] % count
        /\ \A s, t \in Slots(buckets) :
             EntryAt(buckets, s).key = EntryAt(buckets, t).key => s = t
    BY <2>1, SlotsProperties
  <2> QED
    BY <2>2, <2>3 DEF EntriesFound
<1> QED
  BY <1>1, HashMapInvariant, PTL

\* No call leaves behind memory that is not part of the map.
THEOREM NothingLeaked == Spec => []NoLeak
<1>1. HInv => NoLeak
  BY DEF HInv
<1> QED
  BY <1>1, HashMapInvariant, PTL

\* The buckets never get fuller than three quarters.
THEOREM LoadStaysBounded == Spec => []LoadBounded
<1>1. HInv => LoadBounded
  BY DEF HInv
<1> QED
  BY <1>1, HashMapInvariant, PTL

\* Moving all the entries at once, as the model does when the map grows, leaves the
\* buckets that the loop of __hashmap_rehash leaves, in the same order.
THEOREM LoopMovesEntries == Spec => []MovedByLoop
<1>1. HInv => MovedByLoop
  <2> SUFFICES ASSUME HInv, NEW n \in {count, 2 * count} \ {0}
               PROVE  Moved(buckets, n) = MovedOneByOne(buckets, n)
    BY DEF MovedByLoop
  <2>1. count \in Nat /\ Good(buckets, count) /\ IsFiniteSet(Entries(buckets))
    BY DEF HInv, TypeOK
  <2>2. n \in Nat \ {0}
    BY <2>1
  <2> QED
    BY <2>1, <2>2, LoopMoves
<1> QED
  BY <1>1, HashMapInvariant, PTL

\* Callers see a dictionary, whatever the hashes, however the map grows and
\* whenever memory runs out.
THEOREM DictionaryImplemented == Spec => ImplementsDictionary
<1>1. Init => D!Init
  BY InitHInv
<1>2. HInv /\ [Next]_vars => [D!Next]_(D!vars)
  BY StepHInv
<1> QED
  BY <1>1, <1>2, HashMapInvariant, PTL DEF Spec, ImplementsDictionary, D!Spec
=============================================================================
