----------------------------- MODULE InputProofs -----------------------------
(***************************************************************************)
(* Safety of Input for every size of the buffers and of the table and every *)
(* number of keys and apps: listeners never point to apps that have          *)
(* returned, and the keys an app gets are in order and, while its buffer     *)
(* suffices, complete.                                                       *)
(***************************************************************************)
EXTENDS MCInput, RankingProofs, SequenceTheorems

\* The valid slots are the first ones, one for each app that listens, in the
\* order of the stack.
SlotsFollowStack ==
  Running =>
    /\ Listening <= Len(listeners)
    /\ \A i \in 1 .. Len(listeners) : listeners[i].valid <=> i <= Listening
    /\ \A i \in 1 .. Listening : listeners[i].frame = i
    /\ \A i \in 1 .. Listening : stack[i].id <= ids
    /\ \A i, j \in 1 .. Listening : stack[i].id = stack[j].id => i = j

\* What is in the driver's buffer has been accepted.
DriverAccepted == Len(driver) <= Len(accepted)

SInv == TypeOK /\ SlotsFollowStack /\ DriverAccepted

-----------------------------------------------------------------------------
(* The callback over a batch of keys *)

\* What is left of m after taking off its remainder by b is at least b.
LEMMA WholeLaps ==
  ASSUME NEW b \in Nat \ {0}, NEW m \in Nat
  PROVE  /\ m % b \in 0 .. b - 1
         /\ m < b => m % b = m
         /\ m >= b => m - (m % b) >= b
<1>1. m % b \in 0 .. b - 1
  OBVIOUS
<1>2. m < b => m % b = m
  OBVIOUS
<1>3. ASSUME m >= b PROVE m - (m % b) >= b
  <2> DEFINE q == m \div b
             r == m % b
  <2>1. q \in Nat /\ r \in 0 .. b - 1 /\ m = b * q + r
    OBVIOUS
  <2> HIDE DEF q, r
  <2>2. q # 0
    BY <1>3, <2>1
  <2>3. PICK p \in Nat : q = p + 1
    BY <2>1, <2>2
  <2>4. b * q = b * p + b /\ b * p \in Nat
    BY <2>3
  <2>5. m - r >= b
    BY <2>1, <2>4
  <2> QED
    BY <2>5 DEF r
<1> QED
  BY <1>1, <1>2, <1>3

\* Counting on by one from a remainder.
LEMMA NextRemainder ==
  ASSUME NEW b \in Nat \ {0}, NEW m \in Nat
  PROVE  /\ m % b \in 0 .. b - 1
         /\ m % b = b - 1 => (m + 1) % b = 0
         /\ m % b < b - 1 => (m + 1) % b = (m % b) + 1
<1> DEFINE q == m \div b
           r == m % b
           p == (m + 1) \div b
           t == (m + 1) % b
<1>1. q \in Nat /\ r \in 0 .. b - 1 /\ m = b * q + r
  OBVIOUS
<1>2. p \in Nat /\ t \in 0 .. b - 1 /\ m + 1 = b * p + t
  OBVIOUS
<1> HIDE DEF q, r, p, t
<1>3. CASE p = q
  BY <1>1, <1>2, <1>3 DEF r, t
<1>4. CASE p > q
  <2>1. PICK d \in Nat : p = q + d + 1
    <3>1. p - q - 1 \in Nat /\ p = q + (p - q - 1) + 1
      BY <1>1, <1>2, <1>4
    <3> QED
      BY <3>1
  <2>2. b * p = b * q + b * d + b /\ b * d \in Nat
    BY <1>1, <2>1
  <2>3. r + 1 = b * d + b + t
    BY <1>1, <1>2, <2>2
  <2>4. r = b - 1 /\ t = 0
    BY <1>1, <1>2, <2>2, <2>3
  <2> QED
    BY <1>1, <2>4 DEF r, t
<1>5. CASE p < q
  <2>1. PICK d \in Nat : q = p + d + 1
    <3>1. q - p - 1 \in Nat /\ q = p + (q - p - 1) + 1
      BY <1>1, <1>2, <1>5
    <3> QED
      BY <3>1
  <2>2. b * q = b * p + b * d + b /\ b * d \in Nat
    BY <1>2, <2>1
  <2>3. b * d + b + r + 1 = t
    BY <1>1, <1>2, <2>2
  <2> QED
    BY <1>1, <1>2, <2>2, <2>3
<1> QED
  BY <1>1, <1>2, <1>3, <1>4, <1>5

\* The last k elements of a sequence.
LEMMA LastElements ==
  ASSUME NEW T, NEW s \in Seq(T), NEW n \in Nat, n = Len(s), NEW k \in Nat, k <= n
  PROVE  /\ SubSeq(s, n - k + 1, n) \in Seq(T)
         /\ Len(SubSeq(s, n - k + 1, n)) = k
         /\ \A i \in 1 .. k : SubSeq(s, n - k + 1, n)[i] = s[n - k + i]
<1>1. \A i \in n - k + 1 .. n : s[i] \in T
  OBVIOUS
<1>2. /\ SubSeq(s, n - k + 1, n) \in Seq(T)
      /\ Len(SubSeq(s, n - k + 1, n)) = IF n - k + 1 <= n THEN n - (n - k + 1) + 1 ELSE 0
      /\ \A i \in 1 .. n - (n - k + 1) + 1 :
           SubSeq(s, n - k + 1, n)[i] = s[n - k + 1 + i - 1]
  <2> DEFINE m == n - k + 1
  <2>1. m \in Int /\ n \in Int
    OBVIOUS
  <2>2. \A i \in m .. n : s[i] \in T
    BY <1>1
  <2> HIDE DEF m
  <2>3. /\ SubSeq(s, m, n) \in Seq(T)
        /\ Len(SubSeq(s, m, n)) = IF m <= n THEN n - m + 1 ELSE 0
        /\ \A i \in 1 .. n - m + 1 : SubSeq(s, m, n)[i] = s[m + i - 1]
    BY <2>1, <2>2, SubSeqProperties
  <2> QED
    BY <2>3 DEF m
<1>3. \A i \in 1 .. k : n - k + 1 + i - 1 = n - k + i
  OBVIOUS
<1>4. n - (n - k + 1) + 1 = k /\ (n - k + 1 <= n \/ k = 0)
  OBVIOUS
<1> QED
  BY <1>2, <1>3, <1>4

\* A batch that fits is appended; of one that does not, only keys of the batch
\* stay, its last ones.
LEMMA DeliveredProperties ==
  ASSUME NEW b \in Seq(Key), Len(b) <= BuffSize, NEW ks \in Seq(Key)
  PROVE  /\ Delivered(b, ks) \in Seq(Key)
         /\ Len(Delivered(b, ks)) <= BuffSize
         /\ Len(b) + Len(ks) <= BuffSize => Delivered(b, ks) = b \o ks
         /\ Len(b) + Len(ks) > BuffSize =>
              /\ Len(Delivered(b, ks)) <= Len(ks)
              /\ \A i \in 1 .. Len(Delivered(b, ks)) :
                   Delivered(b, ks)[i] = ks[Len(ks) - Len(Delivered(b, ks)) + i]
<1> DEFINE all == b \o ks
           n == Len(all)
           r == (n - 1) % BuffSize
           kept == IF n = 0 THEN 0 ELSE r + 1
<1>1. all \in Seq(Key) /\ n = Len(b) + Len(ks) /\ n \in Nat /\ BuffSize \in Nat \ {0}
      /\ Len(b) \in Nat /\ Len(ks) \in Nat
  BY SizesAssumption
<1>2. \A i \in 1 .. Len(ks) : all[Len(b) + i] = ks[i]
  OBVIOUS
<1>3. Delivered(b, ks) = SubSeq(all, n - kept + 1, n)
  BY DEF Delivered
<1> HIDE DEF all
<1>4. CASE n = 0
  <2>1. SubSeq(all, n - kept + 1, n) = <<>>
    BY <1>1, <1>4
  <2>2. all = <<>> /\ b \o ks = <<>>
    BY <1>1, <1>4 DEF all
  <2> QED
    BY <1>1, <1>3, <1>4, <2>1, <2>2
<1>5. CASE n # 0
  <2> DEFINE m == n - 1
  <2>1. m \in Nat
    BY <1>1, <1>5
  <2> HIDE DEF m
  <2>2. /\ m % BuffSize \in 0 .. BuffSize - 1
        /\ m < BuffSize => m % BuffSize = m
        /\ m >= BuffSize => m - (m % BuffSize) >= BuffSize
    BY <1>1, <2>1, WholeLaps
  <2>3. /\ r \in 0 .. BuffSize - 1
        /\ n <= BuffSize => r = n - 1
        /\ n > BuffSize => n - 1 - r >= BuffSize
    BY <1>1, <2>2 DEF m
  <2> HIDE DEF r
  <2>4. kept = r + 1 /\ kept \in 1 .. BuffSize /\ kept \in Nat /\ kept <= n
    BY <1>1, <1>5, <2>3
  <2> HIDE DEF kept
  <2>5. /\ SubSeq(all, n - kept + 1, n) \in Seq(Key)
        /\ Len(SubSeq(all, n - kept + 1, n)) = kept
        /\ \A i \in 1 .. kept : SubSeq(all, n - kept + 1, n)[i] = all[n - kept + i]
    <3>1. all \in Seq(Key) /\ n \in Nat /\ n = Len(all) /\ kept \in Nat /\ kept <= n
      BY <1>1, <2>4
    <3> HIDE DEF n
    <3> QED
      BY <3>1, LastElements
  <2> DEFINE last == SubSeq(all, n - kept + 1, n)
  <2> HIDE DEF last, n
  <2>6. CASE n <= BuffSize
    <3>4. kept = n /\ n \in Nat
      BY <1>1, <2>3, <2>4, <2>6
    <3>5. n - kept + 1 = 1
      BY <3>4
    <3>1. SubSeq(all, n - kept + 1, n) = SubSeq(all, 1, n)
      BY <3>5
    <3>2. SubSeq(all, 1, n) = all
      BY <1>1, SubSeqFull DEF n
    <3>3. Delivered(b, ks) = all
      BY <1>3, <3>1, <3>2
    <3> QED
      BY <1>1, <2>6, <3>3 DEF all
  <2>7. CASE n > BuffSize
    <3>1. kept <= Len(ks)
      BY <1>1, <2>3, <2>4, <2>7
    <3>2. \A i \in 1 .. kept : all[n - kept + i] = ks[Len(ks) - kept + i]
      <4> TAKE i \in 1 .. kept
      <4>1. Len(ks) - kept + i \in 1 .. Len(ks)
        BY <1>1, <2>4, <3>1
      <4>2. n - kept + i = Len(b) + (Len(ks) - kept + i)
        BY <1>1, <2>4
      <4> QED
        BY <1>2, <4>1, <4>2
    <3>3. /\ Delivered(b, ks) = last /\ last \in Seq(Key) /\ Len(last) = kept
          /\ \A i \in 1 .. kept : last[i] = ks[Len(ks) - kept + i]
      BY <1>3, <2>5, <3>2 DEF last
    <3> QED
      BY <1>1, <2>4, <2>7, <3>1, <3>3
  <2> QED
    BY <1>1, <2>6, <2>7
<1> QED
  BY <1>4, <1>5

\* Handing over one key more is one more call of the callback.
LEMMA DeliveredOneMore ==
  ASSUME NEW b \in Seq(Key), NEW s \in Seq(Key), NEW c \in Key
  PROVE  Delivered(b, Append(s, c)) = KeypressCallback(Delivered(b, s), c)
<1> DEFINE all == b \o s
           n == Len(all)
           kept == IF n = 0 THEN 0 ELSE ((n - 1) % BuffSize) + 1
           kept1 == (n % BuffSize) + 1
           old == SubSeq(all, n - kept + 1, n)
           new == SubSeq(Append(all, c), n + 1 - kept1 + 1, n + 1)
<1>1. /\ all \in Seq(Key) /\ n \in Nat /\ BuffSize \in Nat \ {0}
      /\ Append(all, c) \in Seq(Key) /\ Len(Append(all, c)) = n + 1
      /\ \A i \in 1 .. n : Append(all, c)[i] = all[i]
      /\ Append(all, c)[n + 1] = c
  BY SizesAssumption
<1>2. b \o Append(s, c) = Append(all, c)
  OBVIOUS
<1>3. Delivered(b, s) = old
  BY DEF Delivered
<1>4. Delivered(b, Append(s, c)) = new
  <2> DEFINE w == Append(all, c)
             m == Len(w)
             k == IF m = 0 THEN 0 ELSE ((m - 1) % BuffSize) + 1
  <2>1. Delivered(b, Append(s, c)) = SubSeq(w, m - k + 1, m)
    BY <1>2 DEF Delivered
  <2>2. m = n + 1 /\ n \in Nat
    BY <1>1
  <2>3. k = kept1
    <3> HIDE DEF m, n
    <3>1. m # 0 /\ m - 1 = n
      BY <2>2
    <3> QED
      BY <3>1
  <2>4. m - k + 1 = n + 1 - kept1 + 1
    <3>1. kept1 \in Nat
      BY <1>1, NextRemainder
    <3> HIDE DEF m, k, kept1, n
    <3> QED
      BY <2>2, <2>3, <3>1
  <2> HIDE DEF k, m, kept1, n
  <2> QED
    BY <2>1, <2>2, <2>4
<1> HIDE DEF all
<1>5. /\ kept \in 0 .. BuffSize /\ kept \in Nat /\ kept <= n
      /\ kept = BuffSize => kept1 = 1
      /\ kept # BuffSize => kept1 = kept + 1
      /\ kept1 \in Nat /\ kept1 <= n + 1
  <2>1. CASE n = 0
    BY <1>1, <2>1, NextRemainder
  <2>2. CASE n # 0
    <3> DEFINE m == n - 1
    <3>1. m \in Nat /\ n = m + 1
      BY <1>1, <2>2
    <3> HIDE DEF m
    <3>2. /\ m % BuffSize \in 0 .. BuffSize - 1
          /\ m % BuffSize = BuffSize - 1 => (m + 1) % BuffSize = 0
          /\ m % BuffSize < BuffSize - 1 => (m + 1) % BuffSize = (m % BuffSize) + 1
      BY <1>1, <3>1, NextRemainder
    <3>3. kept = (m % BuffSize) + 1 /\ kept1 = ((m + 1) % BuffSize) + 1
      BY <1>1, <2>2, <3>1 DEF m
    <3>4. m % BuffSize <= m
      BY <1>1, <3>1
    <3> HIDE DEF n, kept, kept1
    <3> QED
      BY <1>1, <3>1, <3>2, <3>3, <3>4
  <2> QED
    BY <2>1, <2>2
<1> HIDE DEF kept, kept1
<1>6. /\ old \in Seq(Key) /\ Len(old) = kept
      /\ \A i \in 1 .. kept : old[i] = all[n - kept + i]
  <2>1. all \in Seq(Key) /\ n \in Nat /\ n = Len(all) /\ kept \in Nat /\ kept <= n
    BY <1>1, <1>5
  <2> HIDE DEF n
  <2>2. /\ SubSeq(all, n - kept + 1, n) \in Seq(Key)
        /\ Len(SubSeq(all, n - kept + 1, n)) = kept
        /\ \A i \in 1 .. kept : SubSeq(all, n - kept + 1, n)[i] = all[n - kept + i]
    BY <2>1, LastElements
  <2> QED
    BY <2>2
<1>7. /\ new \in Seq(Key) /\ Len(new) = kept1
      /\ \A i \in 1 .. kept1 : new[i] = Append(all, c)[n + 1 - kept1 + i]
  <2>5. new = SubSeq(Append(all, c), n + 1 - kept1 + 1, n + 1)
    OBVIOUS
  <2> HIDE DEF new, n
  <2> DEFINE w == Append(all, c)
             m == n + 1
  <2>1. w \in Seq(Key) /\ m \in Nat /\ m = Len(w) /\ kept1 <= m /\ kept1 \in Nat
    BY <1>1, <1>5
  <2>3. new = SubSeq(w, m - kept1 + 1, m)
    <3>1. w = Append(all, c)
      OBVIOUS
    <3>2. m = n + 1
      OBVIOUS
    <3>3. kept1 \in Nat /\ n \in Nat
      BY <1>1, <1>5
    <3>4. m - kept1 + 1 = n + 1 - kept1 + 1
      BY <3>2, <3>3
    <3> HIDE DEF w, m
    <3> QED
      BY <2>5, <3>1, <3>2, <3>4
  <2> HIDE DEF w, m
  <2>2. /\ SubSeq(w, m - kept1 + 1, m) \in Seq(Key)
        /\ Len(SubSeq(w, m - kept1 + 1, m)) = kept1
        /\ \A i \in 1 .. kept1 : SubSeq(w, m - kept1 + 1, m)[i] = w[m - kept1 + i]
    BY <2>1, LastElements
  <2>4. /\ Len(new) = kept1 /\ new \in Seq(Key)
        /\ \A i \in 1 .. kept1 : new[i] = w[m - kept1 + i]
    BY <2>2, <2>3
  <2>6. \A i \in 1 .. kept1 : w[m - kept1 + i] = Append(all, c)[n + 1 - kept1 + i]
    <3> TAKE i \in 1 .. kept1
    <3>1. m - kept1 + i = n + 1 - kept1 + i
      BY <1>1, <1>5 DEF m
    <3> QED
      BY <3>1 DEF w
  <2> QED
    BY <2>4, <2>6
<1> HIDE DEF old, new, n
<1>8. CASE kept = BuffSize
  <2>1. new \in Seq(Key) /\ Len(new) = 1 /\ new[1] = c
    <3>1. kept1 = 1 /\ 1 \in 1 .. kept1 /\ n + 1 - kept1 + 1 = n + 1
      BY <1>1, <1>5, <1>8
    <3> QED
      BY <1>1, <1>7, <3>1
  <2>2. new = <<c>>
    BY <2>1
  <2>3. Len(old) >= BuffSize
    BY <1>1, <1>5, <1>6, <1>8
  <2> QED
    BY <1>3, <1>4, <2>2, <2>3 DEF KeypressCallback
<1>9. CASE kept # BuffSize
  <2>1. Len(new) = Len(old) + 1 /\ ~(Len(old) >= BuffSize)
    BY <1>1, <1>5, <1>6, <1>7, <1>9
  <2>2. \A i \in 1 .. kept : new[i] = old[i]
    <3> TAKE i \in 1 .. kept
    <3>1. /\ i \in 1 .. kept1 /\ n + 1 - kept1 + i = n - kept + i
          /\ n - kept + i \in 1 .. n
      BY <1>1, <1>5, <1>9
    <3>2. new[i] = Append(all, c)[n - kept + i] /\ old[i] = all[n - kept + i]
      BY <1>6, <1>7, <3>1
    <3> QED
      BY <1>1, <3>1, <3>2
  <2>3. new[kept + 1] = c
    <3>1. kept + 1 \in 1 .. kept1 /\ n + 1 - kept1 + (kept + 1) = n + 1
      BY <1>1, <1>5, <1>9
    <3> QED
      BY <1>1, <1>7, <3>1
  <2>4. /\ Append(old, c) \in Seq(Key) /\ Len(Append(old, c)) = kept + 1
        /\ \A i \in 1 .. kept : Append(old, c)[i] = old[i]
        /\ Append(old, c)[kept + 1] = c
    BY <1>5, <1>6
  <2>5. new = Append(old, c)
    <3>1. \A i \in 1 .. kept + 1 : new[i] = Append(old, c)[i]
      BY <1>5, <2>2, <2>3, <2>4
    <3>2. Len(new) = kept + 1
      BY <1>6, <2>1
    <3> QED
      BY <1>5, <1>7, <2>4, <3>1, <3>2, SeqEqual
  <2> QED
    BY <1>3, <1>4, <2>1, <2>5 DEF KeypressCallback
<1> QED
  BY <1>8, <1>9

\* Handing over no key changes nothing.
LEMMA DeliveredNone ==
  ASSUME NEW b \in Seq(Key), Len(b) <= BuffSize
  PROVE  Delivered(b, <<>>) = b
<1>1. <<>> \in Seq(Key) /\ Len(<<>>) = 0 /\ b \o <<>> = b /\ Len(b) + 0 <= BuffSize
  OBVIOUS
<1> QED
  BY <1>1, DeliveredProperties

\* One call for each key is a hand-over of them all.
LEMMA OneByOneIsDelivered ==
  ASSUME NEW b \in Seq(Key), Len(b) <= BuffSize, NEW ks \in Seq(Key)
  PROVE  OneByOne(b, ks) = Delivered(b, ks)
<1> DEFINE n == Len(ks)
           Step(f) == [k \in 0 .. n |-> IF k = 0 THEN b ELSE KeypressCallback(f[k - 1], ks[k])]
           g == [k \in 0 .. n |-> Delivered(b, SubSeq(ks, 1, k))]
           after == CHOOSE f : f = Step(f)
<1>1. n \in Nat
  OBVIOUS
<1>2. g = Step(g)
  <2>1. Delivered(b, SubSeq(ks, 1, 0)) = b
    <3>1. SubSeq(ks, 1, 0) = <<>>
      OBVIOUS
    <3> QED
      BY <3>1, DeliveredNone
  <2>2. ASSUME NEW k \in 0 .. n, k # 0
        PROVE  Delivered(b, SubSeq(ks, 1, k)) = KeypressCallback(g[k - 1], ks[k])
    <3>1. k - 1 \in 0 .. n
      BY <1>1, <2>2
    <3>2. SubSeq(ks, 1, k - 1) \in Seq(Key) /\ ks[k] \in Key
      BY <2>2
    <3>3. SubSeq(ks, 1, k) = Append(SubSeq(ks, 1, k - 1), ks[k])
      BY <2>2
    <3>4. g[k - 1] = Delivered(b, SubSeq(ks, 1, k - 1))
      BY <3>1
    <3> DEFINE s == SubSeq(ks, 1, k - 1)
               c == ks[k]
    <3>5. s \in Seq(Key) /\ c \in Key /\ SubSeq(ks, 1, k) = Append(s, c) /\ g[k - 1] = Delivered(b, s)
      BY <3>2, <3>3, <3>4
    <3> HIDE DEF g, s, c
    <3>6. Delivered(b, Append(s, c)) = KeypressCallback(Delivered(b, s), c)
      BY <3>5, DeliveredOneMore
    <3> QED
      BY <3>5, <3>6 DEF c
  <2> QED
    BY <2>1, <2>2
<1>3. after = Step(after)
  <2> HIDE DEF g, Step
  <2> QED
    BY <1>2
<1>4. OneByOne(b, ks) = after[n]
  BY DEF OneByOne
<1> HIDE DEF after
<1>5. 0 .. n \subseteq {k \in 0 .. n : after[k] = g[k]}
  <2> DEFINE S == {k \in 0 .. n : after[k] = g[k]}
  <2>1. 0 \in S
    <3>1. after[0] = b /\ 0 \in 0 .. n
      BY <1>1, <1>3
    <3>2. g[0] = b
      <4> HIDE DEF g
      <4> QED
        BY <1>2, <3>1
    <3> QED
      BY <3>1, <3>2
  <2>2. ASSUME NEW k \in 0 .. n - 1, k \in S
        PROVE  k + 1 \in S
    <3>1. k + 1 \in 0 .. n /\ k + 1 # 0 /\ k + 1 - 1 = k /\ k \in 0 .. n
      BY <1>1, <2>2
    <3>2. after[k + 1] = KeypressCallback(after[k], ks[k + 1])
      BY <1>3, <3>1
    <3>3. g[k + 1] = KeypressCallback(g[k], ks[k + 1])
      <4> HIDE DEF g
      <4> QED
        BY <1>2, <3>1
    <3> HIDE DEF g
    <3> QED
      BY <2>2, <3>1, <3>2, <3>3
  <2> HIDE DEF S
  <2>3. 0 .. n \subseteq S
    BY <1>1, <2>1, <2>2, InductionUpTo
  <2> QED
    BY <2>3 DEF S
<1>6. after[n] = g[n] /\ g[n] = Delivered(b, SubSeq(ks, 1, n))
  BY <1>1, <1>5
<1>7. SubSeq(ks, 1, n) = ks
  BY SubSeqFull
<1> QED
  BY <1>4, <1>6, <1>7

-----------------------------------------------------------------------------
(* Every step *)

\* Keys are known by their numbers.
LEMMA KeysAreNumbers ==
  ASSUME NEW s \in Seq(Key)
  PROVE  Len(s) \in Nat /\ \A i \in 1 .. Len(s) : s[i] \in Nat
<1>1. \A k \in Key : k \in Nat
  BY DEF Key
<1>2. \A i \in 1 .. Len(s) : s[i] \in Key
  OBVIOUS
<1> QED
  BY <1>1, <1>2

\* What the type invariant says of one app on the stack.
LEMMA AppTypes ==
  ASSUME TypeOK, NEW d \in 1 .. Len(stack)
  PROVE  /\ stack[d] \in App
         /\ stack[d].buff \in Seq(Key) /\ stack[d].got \in Seq(Key)
         /\ Len(stack[d].buff) \in Nat /\ Len(stack[d].got) \in Nat
         /\ stack[d].consumed \in Nat /\ stack[d].since \in Nat
         /\ stack[d].id \in Nat /\ stack[d].overrun \in BOOLEAN
         /\ Len(stack[d].buff) <= BuffSize /\ stack[d].consumed <= BuffSize
         /\ \A i \in 1 .. Len(stack[d].got) : stack[d].got[i] \in Nat
         /\ \A i \in 1 .. Len(stack[d].buff) : stack[d].buff[i] \in Nat
<1>1. stack[d] \in App
  BY DEF TypeOK
<1>2. /\ stack[d].buff \in Seq(Key) /\ stack[d].got \in Seq(Key)
      /\ stack[d].consumed \in Nat /\ stack[d].since \in Nat
      /\ stack[d].id \in Nat /\ stack[d].overrun \in BOOLEAN
  BY <1>1 DEF App
<1>3. Len(stack[d].buff) <= BuffSize /\ stack[d].consumed <= BuffSize
  BY DEF TypeOK
<1>4. /\ Len(stack[d].buff) \in Nat /\ Len(stack[d].got) \in Nat
      /\ \A i \in 1 .. Len(stack[d].got) : stack[d].got[i] \in Nat
      /\ \A i \in 1 .. Len(stack[d].buff) : stack[d].buff[i] \in Nat
  BY <1>2, KeysAreNumbers
<1> QED
  BY <1>1, <1>2, <1>3, <1>4

\* An app on the stack replaced by one of the same types.
LEMMA StackReplaced ==
  ASSUME TypeOK, NEW app \in App, Len(app.buff) <= BuffSize, app.consumed <= BuffSize,
         stack # <<>>, stack' = [stack EXCEPT ![Len(stack)] = app]
  PROVE  /\ stack' \in Seq(App) /\ Len(stack') = Len(stack) /\ stack' # <<>>
         /\ stack'[Len(stack)] = app
         /\ \A d \in 1 .. Len(stack) : d # Len(stack) => stack'[d] = stack[d]
         /\ \A d \in DOMAIN stack' : Len(stack'[d].buff) <= BuffSize /\ stack'[d].consumed <= BuffSize
<1>1. stack \in Seq(App) /\ Len(stack) \in Nat /\ Len(stack) # 0
  BY DEF TypeOK
<1>2. /\ stack' \in Seq(App) /\ Len(stack') = Len(stack) /\ stack' # <<>>
      /\ stack'[Len(stack)] = app
      /\ \A d \in 1 .. Len(stack) : d # Len(stack) => stack'[d] = stack[d]
  BY <1>1
<1>3. \A d \in 1 .. Len(stack) : Len(stack'[d].buff) <= BuffSize /\ stack'[d].consumed <= BuffSize
  BY <1>2, AppTypes
<1>4. DOMAIN stack' = 1 .. Len(stack)
  BY <1>1
<1> QED
  BY <1>2, <1>3, <1>4

\* Every app that listens has a slot.
LEMMA AllHear ==
  ASSUME SInv, Running
  PROVE  \A d \in 1 .. Listening : Hears(d)
<1>1. Listening \in Nat /\ Len(listeners) \in Nat /\ DOMAIN listeners = 1 .. Len(listeners)
  <2>1. stack \in Seq(App) /\ Len(stack) \in Nat /\ (pc = "request" => Len(stack) # 0)
    BY DEF SInv, TypeOK
  <2>2. listeners \in Seq(Listener)
    BY DEF SInv, TypeOK
  <2> QED
    BY <2>1, <2>2 DEF Listening
<1>2. /\ Listening <= Len(listeners)
      /\ \A i \in 1 .. Len(listeners) : listeners[i].valid <=> i <= Listening
      /\ \A i \in 1 .. Listening : listeners[i].frame = i
  BY DEF SInv, SlotsFollowStack
<1>3. \A d \in 1 .. Listening : d \in 1 .. Len(listeners) /\ listeners[d].valid
  BY <1>1, <1>2
<1> HIDE DEF Listening
<1> QED
  BY <1>1, <1>2, <1>3 DEF Hears

\* The one shell that is about to ask for input has no slot yet.
LEMMA InitSInv == Init => SInv
<1> SUFFICES ASSUME Init PROVE SInv
  OBVIOUS
<1> DEFINE app == [kind |-> "shell", id |-> 0, buff |-> <<>>, consumed |-> 0,
                   got |-> <<>>, since |-> 0, overrun |-> FALSE]
<1>1. app \in App
  BY DEF App
<1>2. /\ app.buff = <<>> /\ app.got = <<>> /\ app.consumed = 0 /\ app.since = 0
      /\ stack = <<app>>
  BY DEF Init
<1> HIDE DEF app
<1>3. Len(stack) = 1 /\ stack[1] = app /\ stack \in Seq(App)
  BY <1>1, <1>2
<1>4. TypeOK
  <2>1. Len(app.buff) <= BuffSize /\ app.consumed <= BuffSize
    BY <1>2, SizesAssumption
  <2>2. \A d \in DOMAIN stack : Len(stack[d].buff) <= BuffSize /\ stack[d].consumed <= BuffSize
    BY <1>3, <2>1
  <2>3. driver \in Seq(Key) /\ Len(driver) <= DriverSize
    BY SizesAssumption DEF Init
  <2>4. listeners \in Seq(Listener) /\ Len(listeners) <= ListenersSize
    BY SizesAssumption DEF Init
  <2>5. accepted \in Seq(Key) /\ presses \in 0 .. MaxPresses /\ ids \in Nat
    BY BoundsAssumption DEF Init
  <2>6. pc \in PC /\ stack # <<>>
    BY <1>2 DEF Init, PC
  <2> QED
    BY <1>3, <2>2, <2>3, <2>4, <2>5, <2>6 DEF TypeOK
<1>5. SlotsFollowStack
  BY <1>3 DEF Init, SlotsFollowStack, Listening
<1>6. DriverAccepted
  BY DEF Init, DriverAccepted
<1> QED
  BY <1>4, <1>5, <1>6 DEF SInv

\* What a key press does, whether the driver has room for it or not.
LEMMA KeyPressEffect ==
  ASSUME TypeOK, KeyPress
  PROVE  /\ Running /\ presses' = presses + 1 /\ UNCHANGED <<listeners, stack, ids>>
         /\ presses' \in Key /\ presses \in Nat /\ presses' \in 0 .. MaxPresses
         /\ \/ pc' = pc
            \/ pc = "hlt" /\ stack = <<>> /\ pc' = "yield"
            \/ pc = "hlt" /\ stack # <<>> /\ pc' = "poll"
         /\ driver \in Seq(Key) /\ accepted \in Seq(Key)
         /\ Len(accepted) \in Nat /\ Len(driver) \in Nat
         /\ \/ UNCHANGED <<driver, accepted>>
            \/ /\ driver' \in Seq(Key) /\ Len(driver') = Len(driver) + 1
               /\ Len(driver') <= DriverSize
               /\ \A i \in 1 .. Len(driver) : driver'[i] = driver[i]
               /\ driver'[Len(driver) + 1] = presses'
               /\ accepted' \in Seq(Key) /\ Len(accepted') = Len(accepted) + 1
               /\ \A i \in 1 .. Len(accepted) : accepted'[i] = accepted[i]
               /\ accepted'[Len(accepted) + 1] = presses'
<1>1. /\ Running /\ presses' = presses + 1 /\ UNCHANGED <<listeners, stack, ids>>
      /\ presses' \in Key /\ presses \in Nat /\ presses' \in 0 .. MaxPresses
      /\ \/ pc' = pc
         \/ pc = "hlt" /\ stack = <<>> /\ pc' = "yield"
         \/ pc = "hlt" /\ stack # <<>> /\ pc' = "poll"
  BY BoundsAssumption DEF KeyPress, TypeOK, Key, AfterHlt
<1>2. /\ driver \in Seq(Key) /\ accepted \in Seq(Key)
      /\ Len(accepted) \in Nat /\ Len(driver) \in Nat
  BY DEF TypeOK
<1>3. CASE UNCHANGED <<driver, accepted>>
  BY <1>1, <1>2, <1>3
<1>4. CASE /\ Len(driver) < DriverSize
           /\ driver' = Append(driver, presses')
           /\ accepted' = Append(accepted, presses')
  <2>1. /\ driver' \in Seq(Key) /\ Len(driver') = Len(driver) + 1
        /\ \A i \in 1 .. Len(driver) : driver'[i] = driver[i]
        /\ driver'[Len(driver) + 1] = presses'
    BY <1>1, <1>2, <1>4
  <2>2. /\ accepted' \in Seq(Key) /\ Len(accepted') = Len(accepted) + 1
        /\ \A i \in 1 .. Len(accepted) : accepted'[i] = accepted[i]
        /\ accepted'[Len(accepted) + 1] = presses'
    BY <1>1, <1>2, <1>4
  <2>3. Len(driver') <= DriverSize
    BY <1>2, <1>4, <2>1, SizesAssumption
  <2> QED
    BY <1>1, <1>2, <2>1, <2>2, <2>3
<1> QED
  BY <1>3, <1>4 DEF KeyPress

\* The keyboard's interrupt leaves the table and the stack alone.
LEMMA KeyPressSInv == SInv /\ KeyPress => SInv'
<1> SUFFICES ASSUME SInv, KeyPress PROVE SInv'
  OBVIOUS
<1>1. TypeOK
  BY DEF SInv
<1>2. /\ Running /\ presses' = presses + 1 /\ UNCHANGED <<listeners, stack, ids>>
      /\ presses' \in 0 .. MaxPresses
      /\ \/ pc' = pc
         \/ pc = "hlt" /\ stack = <<>> /\ pc' = "yield"
         \/ pc = "hlt" /\ stack # <<>> /\ pc' = "poll"
  BY <1>1, KeyPressEffect
<1>3. /\ driver' \in Seq(Key) /\ Len(driver') <= DriverSize /\ accepted' \in Seq(Key)
  BY <1>1, KeyPressEffect DEF TypeOK
<1>4. TypeOK'
  BY <1>1, <1>2, <1>3 DEF TypeOK, PC
<1>5. SlotsFollowStack'
  BY <1>2 DEF SInv, SlotsFollowStack, Running, Listening
<1>6. DriverAccepted'
  BY <1>1, KeyPressEffect DEF SInv, DriverAccepted
<1> QED
  BY <1>4, <1>5, <1>6 DEF SInv

\* So does any other interrupt, which only ends the hlt.
LEMMA OtherInterruptSInv == SInv /\ OtherInterrupt => SInv'
<1> SUFFICES ASSUME SInv, OtherInterrupt PROVE SInv'
  OBVIOUS
<1>1. /\ pc = "hlt" /\ UNCHANGED <<driver, listeners, stack, presses, accepted, ids>>
      /\ \/ stack = <<>> /\ pc' = "yield"
         \/ stack # <<>> /\ pc' = "poll"
  BY DEF OtherInterrupt, AfterHlt
<1>2. TypeOK'
  BY <1>1 DEF SInv, TypeOK, PC
<1>3. SlotsFollowStack'
  BY <1>1 DEF SInv, SlotsFollowStack, Running, Listening
<1>20. DriverAccepted'
  BY <1>1 DEF SInv, DriverAccepted
<1> QED
  BY <1>20, <1>2, <1>3 DEF SInv

\* What a hand-over leaves of an app.
LEMMA DeliverTypes ==
  ASSUME TypeOK, NEW d \in 1 .. Len(stack)
  PROVE  /\ Deliver(stack[d], driver) \in App
         /\ Len(Deliver(stack[d], driver).buff) <= BuffSize
         /\ Deliver(stack[d], driver).consumed = stack[d].consumed
         /\ Deliver(stack[d], driver).got = stack[d].got
         /\ Deliver(stack[d], driver).since = stack[d].since
         /\ Deliver(stack[d], driver).id = stack[d].id
         /\ Deliver(stack[d], driver).buff = Delivered(stack[d].buff, driver)
         /\ Deliver(stack[d], driver).overrun =
              (stack[d].overrun \/ Len(stack[d].buff) + Len(driver) > BuffSize)
<1> DEFINE r == Deliver(stack[d], driver)
<1>1. stack[d] \in App /\ stack[d].buff \in Seq(Key) /\ Len(stack[d].buff) <= BuffSize
  BY AppTypes
<1>2. driver \in Seq(Key)
  BY DEF TypeOK
<1>3. /\ Delivered(stack[d].buff, driver) \in Seq(Key)
      /\ Len(Delivered(stack[d].buff, driver)) <= BuffSize
  BY <1>1, <1>2, DeliveredProperties
<1>4. (stack[d].overrun \/ Len(stack[d].buff) + Len(driver) > BuffSize) \in BOOLEAN
  OBVIOUS
<1>5. /\ r \in App
      /\ r.consumed = stack[d].consumed /\ r.got = stack[d].got
      /\ r.since = stack[d].since /\ r.id = stack[d].id
      /\ r.buff = Delivered(stack[d].buff, driver)
  BY <1>1, <1>3, <1>4 DEF Deliver, App
<1>6. r.overrun = (stack[d].overrun \/ Len(stack[d].buff) + Len(driver) > BuffSize)
  BY <1>1 DEF Deliver, App
<1> QED
  BY <1>3, <1>5, <1>6

\* The hand-over changes buffers, not who listens.
LEMMA YieldSInv == SInv /\ Yield => SInv'
<1> SUFFICES ASSUME SInv, Yield PROVE SInv'
  OBVIOUS
<1>1. /\ pc = "yield" /\ driver' = <<>> /\ (pc' = "hlt" \/ pc' = "off")
      /\ UNCHANGED <<listeners, presses, accepted, ids>>
  BY DEF Yield
<1>2. stack \in Seq(App) /\ Len(stack) \in Nat /\ TypeOK /\ DOMAIN stack = 1 .. Len(stack)
  BY DEF SInv, TypeOK
<1>3. stack' = [d \in 1 .. Len(stack) |-> IF Hears(d) THEN Deliver(stack[d], driver)
                                                      ELSE stack[d]]
  BY <1>2 DEF Yield
<1>4. \A d \in 1 .. Len(stack) :
        /\ stack'[d] \in App /\ stack'[d].id = stack[d].id
        /\ Len(stack'[d].buff) <= BuffSize /\ stack'[d].consumed <= BuffSize
  BY <1>2, <1>3, AppTypes, DeliverTypes
<1>5. stack' \in Seq(App) /\ Len(stack') = Len(stack) /\ DOMAIN stack' = 1 .. Len(stack)
  <2>1. stack' \in [1 .. Len(stack) -> App]
    BY <1>3, <1>4
  <2> QED
    BY <1>2, <2>1
<1>6. TypeOK'
  BY <1>1, <1>2, <1>4, <1>5, SizesAssumption DEF TypeOK, PC
<1>7. SlotsFollowStack'
  BY <1>1, <1>2, <1>4, <1>5 DEF SInv, SlotsFollowStack, Running, Listening
<1>20. DriverAccepted'
  BY <1>1, <1>2 DEF SInv, DriverAccepted
<1> QED
  BY <1>20, <1>6, <1>7 DEF SInv

\* The first free slot, or the new one, is the one after those of the apps below.
LEMMA RequestInputEventsSInv == SInv /\ RequestInputEvents => SInv'
<1> SUFFICES ASSUME SInv, RequestInputEvents PROVE SInv'
  OBVIOUS
<1>1. /\ pc = "request" /\ UNCHANGED <<driver, presses, accepted>>
      /\ TypeOK /\ Running /\ stack # <<>>
  BY DEF RequestInputEvents, SInv, TypeOK, Running
<1>2. CASE pc' = "panic" /\ UNCHANGED <<listeners, stack, ids>>
  <2>1. TypeOK'
    BY <1>1, <1>2 DEF TypeOK, PC
  <2>2. SlotsFollowStack'
    BY <1>2 DEF SlotsFollowStack, Running
  <2>3. DriverAccepted'
    BY <1>1, <1>2 DEF SInv, DriverAccepted
  <2> QED
    BY <2>1, <2>2, <2>3 DEF SInv
<1> DEFINE n == Len(stack)
           new == [frame |-> n, valid |-> TRUE]
           free == {i \in DOMAIN listeners : ~listeners[i].valid}
           app == [stack[n] EXCEPT !.id = ids + 1]
<1>3. CASE /\ Len(listeners) < ListenersSize
           /\ ids' = ids + 1
           /\ stack' = [stack EXCEPT ![n].id = ids + 1]
           /\ listeners' = IF free = {} THEN Append(listeners, new)
                           ELSE [i \in DOMAIN listeners |->
                                   IF i \in free /\ \A j \in free : i <= j
                                   THEN new ELSE listeners[i]]
           /\ pc' = "poll" \/ pc' = "exit"
  <2>1. /\ n \in Nat /\ n # 0 /\ n \in 1 .. n /\ ids \in Nat
        /\ listeners \in Seq(Listener) /\ Len(listeners) \in Nat
        /\ DOMAIN listeners = 1 .. Len(listeners)
    BY <1>1 DEF TypeOK
  <2>13. Len(listeners) < ListenersSize /\ ids' = ids + 1 /\ (pc' = "poll" \/ pc' = "exit")
    BY <1>3
  <2>2. /\ app \in App /\ app.id = ids + 1
        /\ Len(app.buff) <= BuffSize /\ app.consumed <= BuffSize
    <3>1. /\ stack[n] \in App /\ Len(stack[n].buff) <= BuffSize /\ stack[n].consumed <= BuffSize
      BY <1>1, <2>1, AppTypes
    <3>2. ids + 1 \in Nat
      BY <2>1
    <3> QED
      BY <3>1, <3>2 DEF App
  <2>3. stack' = [stack EXCEPT ![n] = app]
    BY <1>3, <2>1
  <2>4. /\ n - 1 <= Len(listeners)
        /\ \A i \in 1 .. Len(listeners) : listeners[i].valid <=> i <= n - 1
        /\ \A i \in 1 .. n - 1 : listeners[i].frame = i
        /\ \A i \in 1 .. n - 1 : stack[i].id <= ids
        /\ \A i, j \in 1 .. n - 1 : stack[i].id = stack[j].id => i = j
    BY <1>1 DEF SInv, SlotsFollowStack, Listening
  <2>5. new \in Listener /\ new.frame = n /\ new.valid = TRUE
    BY <2>1 DEF Listener
  <2> HIDE DEF new, app
  <2>6. /\ stack' \in Seq(App) /\ Len(stack') = n /\ stack' # <<>> /\ stack'[n] = app
        /\ \A d \in 1 .. n : d # n => stack'[d] = stack[d]
        /\ \A d \in DOMAIN stack' : Len(stack'[d].buff) <= BuffSize /\ stack'[d].consumed <= BuffSize
    BY <1>1, <2>2, <2>3, StackReplaced
  <2>7. /\ listeners' \in Seq(Listener) /\ Len(listeners') <= ListenersSize
        /\ n <= Len(listeners')
        /\ listeners'[n] = new
        /\ \A i \in 1 .. Len(listeners') : i # n => i \in 1 .. Len(listeners) /\ listeners'[i] = listeners[i]
    <3>1. CASE free = {}
      <4>1. Len(listeners) = n - 1
        BY <2>1, <2>4, <3>1
      <4>2. listeners' = Append(listeners, new)
        BY <1>3, <3>1
      <4>3. /\ listeners' \in Seq(Listener) /\ Len(listeners') = n
            /\ listeners'[n] = new
            /\ \A i \in 1 .. Len(listeners) : listeners'[i] = listeners[i]
        BY <2>1, <2>5, <4>1, <4>2
      <4>4. Len(listeners') <= ListenersSize
        BY <1>3, <2>1, <4>1, <4>3, SizesAssumption
      <4> QED
        BY <2>1, <4>1, <4>3, <4>4
    <3>2. CASE free # {}
      <4>1. free = {i \in 1 .. Len(listeners) : i > n - 1}
        BY <2>1, <2>4
      <4>2. n \in 1 .. Len(listeners)
        BY <2>1, <3>2, <4>1
      <4> HIDE DEF free
      <4>3. \A i \in 1 .. Len(listeners) : (i \in free /\ \A j \in free : i <= j) <=> i = n
        BY <2>1, <4>1, <4>2
      <4>4. listeners' = [i \in 1 .. Len(listeners) |-> IF i = n THEN new ELSE listeners[i]]
        BY <1>3, <2>1, <3>2, <4>3
      <4>5. listeners' \in [1 .. Len(listeners) -> Listener]
        BY <2>1, <2>5, <4>4
      <4>6. listeners' \in Seq(Listener) /\ Len(listeners') = Len(listeners)
        BY <2>1, <4>5
      <4>7. Len(listeners') <= ListenersSize
        BY <2>1, <2>13, <4>6, SizesAssumption
      <4> QED
        BY <2>1, <4>2, <4>4, <4>6, <4>7
    <3> QED
      BY <3>1, <3>2
  <2>8. TypeOK'
    <3>1. pc' \in PC /\ ids' \in Nat
      BY <2>1, <2>13 DEF PC
    <3> QED
      BY <1>1, <2>6, <2>7, <3>1 DEF TypeOK
  <2>9. /\ \A i \in 1 .. Len(listeners') : listeners'[i].valid <=> i <= n
        /\ \A i \in 1 .. n : listeners'[i].frame = i
    <3>1. Len(listeners') \in Nat
      BY <2>7
    <3>2. ASSUME NEW i \in 1 .. Len(listeners') PROVE listeners'[i].valid <=> i <= n
      BY <2>1, <2>4, <2>5, <2>7, <3>1
    <3>3. ASSUME NEW i \in 1 .. n PROVE listeners'[i].frame = i
      <4>1. i \in 1 .. Len(listeners')
        BY <2>1, <2>7, <3>1
      <4>2. CASE i = n
        BY <2>5, <2>7, <4>2
      <4>3. CASE i # n
        BY <2>1, <2>4, <2>7, <4>1, <4>3
      <4> QED
        BY <4>2, <4>3
    <3> QED
      BY <3>2, <3>3
  <2>10. /\ \A i \in 1 .. n : stack'[i].id <= ids'
         /\ \A i, j \in 1 .. n : stack'[i].id = stack'[j].id => i = j
    <3>1. \A i \in 1 .. n - 1 : stack'[i].id = stack[i].id /\ stack[i].id \in Nat
      BY <1>1, <2>1, <2>6, AppTypes
    <3>2. stack'[n].id = ids + 1 /\ ids' = ids + 1
      BY <1>3, <2>2, <2>6
    <3>3. \A i \in 1 .. n : i = n \/ i \in 1 .. n - 1
      BY <2>1
    <3>4. \A i \in 1 .. n - 1 : stack'[i].id <= ids /\ stack'[i].id \in Nat
      BY <2>4, <3>1
    <3>5. \A i, j \in 1 .. n - 1 : stack'[i].id = stack'[j].id => i = j
      BY <2>4, <3>1
    <3>6. ASSUME NEW i \in 1 .. n PROVE stack'[i].id <= ids'
      BY <2>1, <3>2, <3>3, <3>4
    <3>7. ASSUME NEW i \in 1 .. n, NEW j \in 1 .. n, stack'[i].id = stack'[j].id PROVE i = j
      <4>1. \A k \in 1 .. n - 1 : stack'[k].id # stack'[n].id
        BY <2>1, <3>2, <3>4
      <4>2. (i = n \/ i \in 1 .. n - 1) /\ (j = n \/ j \in 1 .. n - 1)
        BY <3>3
      <4> QED
        BY <3>5, <3>7, <4>1, <4>2
    <3> QED
      BY <3>6, <3>7
  <2>11. Listening' = n
    BY <1>3, <2>6 DEF Listening
  <2>12. SlotsFollowStack'
    BY <2>7, <2>9, <2>10, <2>11 DEF SlotsFollowStack
  <2>14. DriverAccepted'
    BY <1>1 DEF SInv, DriverAccepted
  <2> QED
    BY <2>8, <2>12, <2>14 DEF SInv
<1> QED
  BY <1>2, <1>3 DEF RequestInputEvents

\* What the two outcomes of kapp_input_get_key() do to the app that calls it.
LEMMA GetNoKeyEffect ==
  ASSUME TypeOK, GetNoKey
  PROVE  LET app == [Top EXCEPT !.consumed = 0, !.buff = <<>>]
         IN  /\ app \in App /\ Len(app.buff) <= BuffSize /\ app.consumed <= BuffSize
             /\ app.id = Top.id /\ app.got = Top.got /\ app.since = Top.since
             /\ app.overrun = Top.overrun /\ app.buff = <<>> /\ app.consumed = 0
             /\ stack' = [stack EXCEPT ![Len(stack)] = app]
<1>1. stack # <<>> /\ Len(stack) \in 1 .. Len(stack) /\ stack \in Seq(App)
  BY DEF TypeOK, GetNoKey
<1>2. Top \in App
  BY <1>1 DEF Top
<1>3. stack' = [stack EXCEPT ![Len(stack)] = [Top EXCEPT !.consumed = 0, !.buff = <<>>]]
  BY <1>1 DEF GetNoKey, Top
<1>4. <<>> \in Seq(Key) /\ Len(<<>>) = 0 /\ 0 <= BuffSize
  BY SizesAssumption
<1> QED
  BY <1>2, <1>3, <1>4 DEF App

\* A call that finds a key takes it out of the buffer.
LEMMA GetKeyEffect ==
  ASSUME TypeOK, GetKey
  PROVE  LET app == [Top EXCEPT !.consumed = @ + 1, !.got = Append(@, Top.buff[Top.consumed + 1])]
         IN  /\ app \in App /\ Len(app.buff) <= BuffSize /\ app.consumed <= BuffSize
             /\ app.id = Top.id /\ app.got = Append(Top.got, Top.buff[Top.consumed + 1])
             /\ app.since = Top.since /\ app.overrun = Top.overrun
             /\ app.buff = Top.buff /\ app.consumed = Top.consumed + 1
             /\ stack' = [stack EXCEPT ![Len(stack)] = app]
<1>1. stack # <<>> /\ Len(stack) \in 1 .. Len(stack) /\ stack \in Seq(App)
  BY DEF TypeOK, GetKey
<1>2. /\ Top \in App /\ Top.consumed < Len(Top.buff) /\ Len(Top.buff) <= BuffSize
      /\ Top.consumed \in Nat /\ Top.buff \in Seq(Key) /\ Top.got \in Seq(Key)
      /\ Len(Top.buff) \in Nat
  BY <1>1, AppTypes DEF Top, GetKey
<1>3. stack' = [stack EXCEPT ![Len(stack)] =
                  [Top EXCEPT !.consumed = @ + 1, !.got = Append(@, Top.buff[Top.consumed + 1])]]
  BY <1>1 DEF GetKey, Top
<1>4. /\ Top.buff[Top.consumed + 1] \in Key
      /\ Append(Top.got, Top.buff[Top.consumed + 1]) \in Seq(Key)
      /\ Top.consumed + 1 \in Nat /\ Top.consumed + 1 <= BuffSize
  BY <1>2, SizesAssumption
<1> QED
  BY <1>2, <1>3, <1>4 DEF App

\* Both leave the slots alone, and the id of the app.
LEMMA GetKeySInv == SInv /\ (GetNoKey \/ GetKey) => SInv'
<1> SUFFICES ASSUME SInv, GetNoKey \/ GetKey PROVE SInv'
  OBVIOUS
<1>1. /\ TypeOK /\ pc = "poll" /\ pc' \in {"yield", "exit", "handle"}
      /\ UNCHANGED <<driver, listeners, presses, accepted, ids>>
  BY DEF SInv, GetNoKey, GetKey
<1>2. stack # <<>> /\ Len(stack) \in 1 .. Len(stack) /\ Len(stack) \in Nat
  BY <1>1 DEF TypeOK
<1>3. PICK app \in App : /\ Len(app.buff) <= BuffSize /\ app.consumed <= BuffSize
                         /\ app.id = Top.id
                         /\ stack' = [stack EXCEPT ![Len(stack)] = app]
  <2>1. CASE GetNoKey
    BY <1>1, <2>1, GetNoKeyEffect
  <2>2. CASE GetKey
    BY <1>1, <2>2, GetKeyEffect
  <2> QED
    BY <2>1, <2>2
<1>4. /\ stack' \in Seq(App) /\ Len(stack') = Len(stack) /\ stack' # <<>>
      /\ stack'[Len(stack)] = app
      /\ \A d \in 1 .. Len(stack) : d # Len(stack) => stack'[d] = stack[d]
      /\ \A d \in DOMAIN stack' : Len(stack'[d].buff) <= BuffSize /\ stack'[d].consumed <= BuffSize
  BY <1>1, <1>2, <1>3, StackReplaced
<1>5. TypeOK'
  BY <1>1, <1>4 DEF TypeOK, PC
<1>6. \A d \in 1 .. Len(stack) : stack'[d].id = stack[d].id
  BY <1>2, <1>3, <1>4 DEF Top
<1>7. Listening' = Listening /\ Listening = Len(stack) /\ Running
  BY <1>1, <1>4 DEF Listening, Running
<1>8. SlotsFollowStack'
  BY <1>1, <1>2, <1>6, <1>7 DEF SInv, SlotsFollowStack
<1>20. DriverAccepted'
  BY <1>1 DEF SInv, DriverAccepted
<1> QED
  BY <1>20, <1>5, <1>8 DEF SInv

\* Handling a key changes nothing that listeners see.
LEMMA HandleKeySInv == SInv /\ (HandleKey \/ Quit) => SInv'
<1> SUFFICES ASSUME SInv, HandleKey \/ Quit PROVE SInv'
  OBVIOUS
<1>1. /\ pc = "handle" /\ pc' \in {"yield", "poll", "exit"} /\ stack # <<>>
      /\ UNCHANGED <<driver, listeners, stack, presses, accepted, ids>>
  BY DEF SInv, TypeOK, HandleKey, Quit
<1>2. TypeOK'
  BY <1>1 DEF SInv, TypeOK, PC
<1>3. SlotsFollowStack'
  BY <1>1 DEF SInv, SlotsFollowStack, Running, Listening
<1>20. DriverAccepted'
  BY <1>1 DEF SInv, DriverAccepted
<1> QED
  BY <1>20, <1>2, <1>3 DEF SInv

\* An app starts with an empty buffer.
LEMMA NewAppTypes ==
  ASSUME SInv, NEW kind \in {"shell", "hang"}
  PROVE  /\ NewApp(kind) \in App
         /\ Len(NewApp(kind).buff) <= BuffSize /\ NewApp(kind).consumed <= BuffSize
<1>1. Len(accepted) \in Nat /\ Len(driver) \in Nat /\ Len(driver) <= Len(accepted)
  BY DEF SInv, TypeOK, DriverAccepted
<1>2. Len(accepted) - Len(driver) \in Nat
  BY <1>1
<1>3. <<>> \in Seq(Key) /\ Len(<<>>) = 0 /\ BuffSize \in Nat
  BY SizesAssumption
<1> QED
  BY <1>2, <1>3 DEF NewApp, App

\* An app that is started does not listen until it asks.
LEMMA RunAppSInv == SInv /\ (\E kind \in {"shell", "hang"} : RunApp(kind)) => SInv'
<1> SUFFICES ASSUME SInv, NEW kind \in {"shell", "hang"}, RunApp(kind) PROVE SInv'
  OBVIOUS
<1> DEFINE app == NewApp(kind)
<1>1. /\ pc = "handle" /\ stack' = Append(stack, app) /\ pc' = "request"
      /\ UNCHANGED <<driver, listeners, presses, accepted, ids>> /\ TypeOK
  BY DEF SInv, RunApp
<1>2. stack \in Seq(App) /\ Len(stack) \in Nat
  BY <1>1 DEF TypeOK
<1>3. /\ app \in App /\ Len(app.buff) <= BuffSize /\ app.consumed <= BuffSize
  BY NewAppTypes
<1> HIDE DEF app
<1>4. /\ stack' \in Seq(App) /\ Len(stack') = Len(stack) + 1 /\ stack' # <<>>
      /\ \A d \in 1 .. Len(stack) : stack'[d] = stack[d]
      /\ stack'[Len(stack) + 1] = app
  BY <1>1, <1>2, <1>3
<1>5. \A d \in 1 .. Len(stack') : Len(stack'[d].buff) <= BuffSize /\ stack'[d].consumed <= BuffSize
  <2>1. \A d \in 1 .. Len(stack) : Len(stack[d].buff) <= BuffSize /\ stack[d].consumed <= BuffSize
    BY <1>1, AppTypes
  <2>2. \A d \in 1 .. Len(stack') : d \in 1 .. Len(stack) \/ d = Len(stack) + 1
    BY <1>2, <1>4
  <2> QED
    BY <1>3, <1>4, <2>1, <2>2
<1>6. DOMAIN stack' = 1 .. Len(stack')
  BY <1>4
<1>7. TypeOK'
  BY <1>1, <1>4, <1>5, <1>6 DEF TypeOK, PC
<1>8. Listening' = Listening /\ Listening = Len(stack) /\ Running
  BY <1>1, <1>2, <1>4 DEF Listening, Running
<1>9. SlotsFollowStack'
  BY <1>1, <1>4, <1>8 DEF SInv, SlotsFollowStack
<1>20. DriverAccepted'
  BY <1>1 DEF SInv, DriverAccepted
<1> QED
  BY <1>20, <1>7, <1>9 DEF SInv

\* The removal frees the slot of the app that returns, whatever ids the free slots
\* seem to hold.
LEMMA RemoveInputEventsEffect ==
  ASSUME SInv, RemoveInputEvents
  PROVE  /\ Len(stack) \in 1 .. Len(listeners)
         /\ listeners' = [i \in 1 .. Len(listeners) |->
                            IF i = Len(stack) THEN [listeners[i] EXCEPT !.valid = FALSE]
                                              ELSE listeners[i]]
<1>1. /\ pc = "exit" /\ stack # <<>> /\ Running /\ stack \in Seq(App)
      /\ listeners \in Seq(Listener) /\ Len(listeners) \in Nat
  BY DEF RemoveInputEvents, SInv, TypeOK, Running
<1> DEFINE n == Len(stack)
<1>2. n \in Nat /\ n # 0 /\ n \in 1 .. n /\ DOMAIN listeners = 1 .. Len(listeners)
  BY <1>1
<1>3. /\ n <= Len(listeners)
      /\ \A i \in 1 .. Len(listeners) : listeners[i].valid <=> i <= n
      /\ \A i \in 1 .. n : listeners[i].frame = i
      /\ \A i, j \in 1 .. n : stack[i].id = stack[j].id => i = j
  BY <1>1 DEF SInv, SlotsFollowStack, Listening
<1>4. PICK stale \in SUBSET {i \in DOMAIN listeners : ~listeners[i].valid} :
        LET same == {i \in DOMAIN listeners :
                       \/ i \in stale
                       \/ listeners[i].valid /\ stack[listeners[i].frame].id = stack[n].id}
        IN  listeners' = [i \in DOMAIN listeners |->
                            IF i \in same /\ \A j \in same : i <= j
                            THEN [listeners[i] EXCEPT !.valid = FALSE] ELSE listeners[i]]
  BY Zenon DEF RemoveInputEvents, Top
<1> DEFINE same == {i \in DOMAIN listeners :
                      \/ i \in stale
                      \/ listeners[i].valid /\ stack[listeners[i].frame].id = stack[n].id}
<1>5. n \in same
  BY <1>2, <1>3
<1>6. \A i \in same : n <= i
  <2>1. ASSUME NEW i \in same PROVE n <= i
    <3>1. CASE i \in stale
      BY <1>1, <1>2, <1>3, <3>1
    <3>2. CASE listeners[i].valid /\ stack[listeners[i].frame].id = stack[n].id
      <4>1. i \in 1 .. n /\ listeners[i].frame = i
        BY <1>1, <1>2, <1>3, <3>2
      <4>2. stack[i].id = stack[n].id
        BY <3>2, <4>1
      <4> QED
        BY <1>2, <1>3, <4>1, <4>2
    <3> QED
      BY <3>1, <3>2
  <2> QED
    BY <2>1
<1>7. \A i \in 1 .. Len(listeners) : (i \in same /\ \A j \in same : i <= j) <=> i = n
  <2>1. same \subseteq 1 .. Len(listeners)
    BY <1>2
  <2> HIDE DEF same
  <2> QED
    BY <1>1, <1>2, <1>5, <1>6, <2>1
<1>8. listeners' = [i \in DOMAIN listeners |->
                      IF i \in same /\ \A j \in same : i <= j
                      THEN [listeners[i] EXCEPT !.valid = FALSE] ELSE listeners[i]]
  BY <1>4, Zenon
<1> HIDE DEF same
<1>9. listeners' = [i \in 1 .. Len(listeners) |->
                      IF i = n THEN [listeners[i] EXCEPT !.valid = FALSE] ELSE listeners[i]]
  BY <1>2, <1>7, <1>8
<1> QED
  BY <1>1, <1>2, <1>3, <1>9

\* The slot that is freed is that of the app that returns, the last one.
LEMMA RemoveInputEventsSInv == SInv /\ RemoveInputEvents => SInv'
<1> SUFFICES ASSUME SInv, RemoveInputEvents PROVE SInv'
  OBVIOUS
<1> DEFINE n == Len(stack)
<1>1. /\ pc = "exit" /\ TypeOK /\ Running /\ UNCHANGED <<driver, presses, accepted, ids>>
      /\ stack' = SubSeq(stack, 1, n - 1)
      /\ pc' = (IF n = 1 THEN "yield" ELSE "poll") \/ pc' \in {"off", "panic"}
  BY DEF SInv, RemoveInputEvents, Running
<1>2. /\ stack \in Seq(App) /\ stack # <<>> /\ n \in Nat /\ n # 0
      /\ listeners \in Seq(Listener) /\ Len(listeners) \in Nat /\ Len(listeners) <= ListenersSize
  BY <1>1 DEF TypeOK
<1>3. /\ n <= Len(listeners)
      /\ \A i \in 1 .. Len(listeners) : listeners[i].valid <=> i <= n
      /\ \A i \in 1 .. n : listeners[i].frame = i
      /\ \A i \in 1 .. n : stack[i].id <= ids
      /\ \A i, j \in 1 .. n : stack[i].id = stack[j].id => i = j
  BY <1>1 DEF SInv, SlotsFollowStack, Listening
<1>4. /\ stack' \in Seq(App) /\ Len(stack') = n - 1
      /\ \A d \in 1 .. n - 1 : stack'[d] = stack[d]
  <2>1. stack' = SubSeq(stack, 1, n - 1) /\ n - 1 \in Nat /\ 1 <= n - 1 + 1
    BY <1>1, <1>2
  <2>2. \A d \in 1 .. n - 1 : stack[d] \in App
    BY <1>2
  <2> DEFINE m == n - 1
  <2>3. m \in Int /\ 1 \in Int /\ \A d \in 1 .. m : stack[d] \in App
    BY <2>1, <2>2
  <2> HIDE DEF m
  <2>4. /\ SubSeq(stack, 1, m) \in Seq(App)
        /\ Len(SubSeq(stack, 1, m)) = IF 1 <= m THEN m - 1 + 1 ELSE 0
        /\ \A i \in 1 .. m - 1 + 1 : SubSeq(stack, 1, m)[i] = stack[1 + i - 1]
    BY <2>3, SubSeqProperties
  <2>5. m \in Nat
    BY <2>1 DEF m
  <2>6. /\ SubSeq(stack, 1, m) \in Seq(App)
        /\ Len(SubSeq(stack, 1, m)) = m
        /\ \A i \in 1 .. m : SubSeq(stack, 1, m)[i] = stack[i]
    BY <2>4, <2>5
  <2> QED
    BY <2>1, <2>6 DEF m
<1>5. listeners' = [i \in 1 .. Len(listeners) |->
                      IF i = n THEN [listeners[i] EXCEPT !.valid = FALSE] ELSE listeners[i]]
  BY RemoveInputEventsEffect
<1>6. \A i \in 1 .. Len(listeners) :
        /\ listeners'[i] \in Listener /\ listeners'[i].frame = listeners[i].frame
        /\ listeners'[i].valid <=> i <= n - 1
  <2> TAKE i \in 1 .. Len(listeners)
  <2>1. listeners[i] \in Listener
    BY <1>2
  <2>2. CASE i = n
    <3>1. listeners'[i] = [listeners[i] EXCEPT !.valid = FALSE]
      BY <1>5, <2>2
    <3>2. /\ listeners'[i] \in Listener /\ listeners'[i].frame = listeners[i].frame
          /\ ~listeners'[i].valid
      BY <2>1, <3>1 DEF Listener
    <3>3. ~(i <= n - 1)
      BY <1>2, <2>2
    <3> QED
      BY <3>2, <3>3
  <2>3. CASE i # n
    BY <1>2, <1>3, <1>5, <2>1, <2>3
  <2> QED
    BY <2>2, <2>3
<1>7. listeners' \in Seq(Listener) /\ Len(listeners') = Len(listeners)
  <2>1. listeners' \in [1 .. Len(listeners) -> Listener]
    BY <1>5, <1>6
  <2> QED
    BY <1>2, <2>1
<1>8. \A d \in DOMAIN stack' : Len(stack'[d].buff) <= BuffSize /\ stack'[d].consumed <= BuffSize
  <2>1. \A d \in 1 .. n : Len(stack[d].buff) <= BuffSize /\ stack[d].consumed <= BuffSize
    BY <1>1, AppTypes
  <2>2. DOMAIN stack' = 1 .. n - 1 /\ \A d \in 1 .. n - 1 : d \in 1 .. n
    BY <1>2, <1>4
  <2> QED
    BY <1>4, <2>1, <2>2
<1>9. TypeOK'
  <2>1. pc' \in {"request", "poll", "handle", "exit"} => stack' # <<>>
    <3>1. n = 1 => pc' \in {"yield", "off", "panic"}
      BY <1>1
    <3>2. n # 1 => Len(stack') # 0
      BY <1>2, <1>4
    <3> QED
      BY <3>1, <3>2
  <2>2. pc' \in PC
    BY <1>1 DEF PC
  <2>3. listeners' \in Seq(Listener) /\ Len(listeners') <= ListenersSize
    BY <1>2, <1>7
  <2> QED
    BY <1>1, <1>4, <1>8, <2>1, <2>2, <2>3 DEF TypeOK
<1>10. Listening' = n - 1
  BY <1>1, <1>4 DEF Listening
<1>11. SlotsFollowStack'
  <2>1. \A i \in 1 .. n - 1 : i \in 1 .. n /\ i \in 1 .. Len(listeners)
    BY <1>2, <1>3
  <2>2. n - 1 <= Len(listeners')
    BY <1>2, <1>3, <1>7
  <2>3. \A i \in 1 .. n - 1 : stack'[i] = stack[i] /\ listeners'[i].frame = i
    BY <1>3, <1>4, <1>6, <2>1
  <2>4. \A i \in 1 .. n - 1 : stack'[i].id <= ids'
    BY <1>1, <1>3, <2>1, <2>3
  <2>5. ASSUME NEW i \in 1 .. n - 1, NEW j \in 1 .. n - 1, stack'[i].id = stack'[j].id
        PROVE  i = j
    <3>1. i \in 1 .. n /\ j \in 1 .. n /\ stack'[i] = stack[i] /\ stack'[j] = stack[j]
      BY <2>1, <2>3
    <3>2. stack[i].id = stack[j].id
      BY <2>5, <3>1
    <3> QED
      BY <1>3, <3>1, <3>2
  <2>6. \A i \in 1 .. Len(listeners') : listeners'[i].valid <=> i <= n - 1
    BY <1>6, <1>7
  <2> QED
    BY <1>10, <2>2, <2>3, <2>4, <2>5, <2>6 DEF SlotsFollowStack
<1>20. DriverAccepted'
  BY <1>1 DEF SInv, DriverAccepted
<1> QED
  BY <1>20, <1>9, <1>11 DEF SInv

\* Every step keeps the slots in the order of the stack.
LEMMA NextSInv == SInv /\ [Next]_vars => SInv'
<1> SUFFICES ASSUME SInv, [Next]_vars PROVE SInv'
  OBVIOUS
<1>1. CASE UNCHANGED vars
  BY <1>1 DEF vars, SInv, TypeOK, SlotsFollowStack, Listening, Running, DriverAccepted
<1>2. CASE Interrupt
  BY <1>2, KeyPressSInv, OtherInterruptSInv DEF Interrupt
<1>3. CASE Run
  BY <1>3, YieldSInv, RequestInputEventsSInv, GetKeySInv, HandleKeySInv, RunAppSInv,
     RemoveInputEventsSInv DEF Run
<1> QED
  BY <1>1, <1>2, <1>3 DEF Next

-----------------------------------------------------------------------------
(* The keys *)

\* The driver's buffer is the end of what it has accepted.
DriverIsSuffix ==
  /\ \A i \in 1 .. Len(driver) : driver[i] = accepted[Len(accepted) - Len(driver) + i]
  /\ \A i \in 1 .. Len(accepted) : accepted[i] <= presses
  /\ \A i, j \in 1 .. Len(accepted) : i < j => accepted[i] < accepted[j]

\* The keys an app has got, then those in its buffer, then the driver's.
Ordered(app) ==
  /\ \A i \in 1 .. Len(app.got) : app.got[i] <= presses
  /\ \A j \in 1 .. Len(app.buff) : app.buff[j] <= presses
  /\ \A i, j \in 1 .. Len(app.got) : i < j => app.got[i] < app.got[j]
  /\ \A i, j \in 1 .. Len(app.buff) : i < j => app.buff[i] < app.buff[j]
  /\ \A i \in 1 .. Len(app.got), j \in 1 .. Len(app.buff) :
       j > app.consumed => app.got[i] < app.buff[j]
  /\ \A i \in 1 .. Len(app.got), j \in 1 .. Len(driver) : app.got[i] < driver[j]
  /\ \A i \in 1 .. Len(app.buff), j \in 1 .. Len(driver) : app.buff[i] < driver[j]

\* They are what the driver has accepted since the app was started.
Complete(app) ==
  ~app.overrun =>
    /\ app.consumed <= Len(app.buff)
    /\ app.since + Len(app.got) + Len(app.buff) + Len(driver) = Len(accepted) + app.consumed
    /\ \A i \in 1 .. Len(app.got) : app.got[i] = accepted[app.since + i]
    /\ \A j \in 1 .. Len(app.buff) :
         j > app.consumed => app.buff[j] = accepted[app.since + Len(app.got) + j - app.consumed]

KeysFollow == \A d \in 1 .. Len(stack) : Ordered(stack[d]) /\ Complete(stack[d])

KInv == DriverIsSuffix /\ KeysFollow

\* Nothing has been pressed.
LEMMA InitKInv == Init => KInv
<1> SUFFICES ASSUME Init PROVE KInv
  OBVIOUS
<1> DEFINE app == [kind |-> "shell", id |-> 0, buff |-> <<>>, consumed |-> 0,
                   got |-> <<>>, since |-> 0, overrun |-> FALSE]
<1>1. /\ app.buff = <<>> /\ app.got = <<>> /\ app.consumed = 0 /\ app.since = 0
      /\ stack = <<app>>
  BY DEF Init
<1> HIDE DEF app
<1>2. Len(stack) = 1 /\ stack[1] = app
  BY <1>1
<1>3. DriverIsSuffix
  BY DEF Init, DriverIsSuffix
<1>4. Ordered(app) /\ Complete(app)
  BY <1>1 DEF Init, Ordered, Complete
<1> QED
  BY <1>2, <1>3, <1>4 DEF KInv, KeysFollow

\* The driver's keys are numbers in increasing order, none later than the last press.
LEMMA DriverKeys ==
  ASSUME SInv, KInv
  PROVE  /\ driver \in Seq(Key) /\ Len(driver) \in Nat
         /\ accepted \in Seq(Key) /\ Len(accepted) \in Nat /\ Len(driver) <= Len(accepted)
         /\ presses \in Nat
         /\ \A i \in 1 .. Len(accepted) : accepted[i] \in Nat
         /\ \A i \in 1 .. Len(driver) : driver[i] \in Nat /\ driver[i] <= presses
         /\ \A i, j \in 1 .. Len(driver) : i < j => driver[i] < driver[j]
<1>1. /\ driver \in Seq(Key) /\ Len(driver) \in Nat /\ presses \in Nat
      /\ accepted \in Seq(Key) /\ Len(accepted) \in Nat /\ Len(driver) <= Len(accepted)
  BY BoundsAssumption DEF SInv, TypeOK, DriverAccepted
<1>2. /\ \A i \in 1 .. Len(accepted) : accepted[i] \in Nat
      /\ \A i \in 1 .. Len(driver) : driver[i] \in Nat
  BY <1>1, KeysAreNumbers
<1> DEFINE k == Len(accepted) - Len(driver)
<1>3. k \in Nat /\ \A i \in 1 .. Len(driver) : k + i \in 1 .. Len(accepted)
  BY <1>1
<1>4. \A i \in 1 .. Len(driver) : driver[i] = accepted[k + i]
  BY DEF KInv, DriverIsSuffix
<1> HIDE DEF k
<1>5. \A i \in 1 .. Len(driver) : driver[i] <= presses
  BY <1>3, <1>4 DEF KInv, DriverIsSuffix
<1>6. ASSUME NEW i \in 1 .. Len(driver), NEW j \in 1 .. Len(driver), i < j
      PROVE  driver[i] < driver[j]
  <2>1. k + i \in 1 .. Len(accepted) /\ k + j \in 1 .. Len(accepted) /\ k + i < k + j
    BY <1>1, <1>3, <1>6
  <2>2. accepted[k + i] < accepted[k + j]
    BY <2>1 DEF KInv, DriverIsSuffix
  <2> QED
    BY <1>4, <2>2
<1> QED
  BY <1>1, <1>2, <1>5, <1>6

\* What the invariants say of one app on the stack.
LEMMA AppKeys ==
  ASSUME SInv, KInv, NEW d \in 1 .. Len(stack)
  PROVE  Ordered(stack[d]) /\ Complete(stack[d])
BY DEF KInv, KeysFollow

\* A step that changes neither the driver nor an app keeps the app's keys.
LEMMA AppUnchanged ==
  ASSUME UNCHANGED <<driver, presses, accepted>>, NEW app,
         NEW new, new.got = app.got, new.buff = app.buff, new.consumed = app.consumed,
         new.since = app.since, new.overrun = app.overrun
  PROVE  /\ Ordered(app) => Ordered(new)'
         /\ Complete(app) => Complete(new)'
         /\ DriverIsSuffix => DriverIsSuffix'
BY DEF Ordered, Complete, DriverIsSuffix

\* A key that is accepted is later than all before it, and ends what is complete.
LEMMA KeyPressKInv == SInv /\ KInv /\ KeyPress => KInv'
<1> SUFFICES ASSUME SInv, KInv, KeyPress PROVE KInv'
  OBVIOUS
<1>1. /\ TypeOK /\ presses' = presses + 1 /\ UNCHANGED stack
      /\ \/ UNCHANGED <<driver, accepted>>
         \/ /\ driver' \in Seq(Key) /\ Len(driver') = Len(driver) + 1
            /\ \A i \in 1 .. Len(driver) : driver'[i] = driver[i]
            /\ driver'[Len(driver) + 1] = presses'
            /\ accepted' \in Seq(Key) /\ Len(accepted') = Len(accepted) + 1
            /\ \A i \in 1 .. Len(accepted) : accepted'[i] = accepted[i]
            /\ accepted'[Len(accepted) + 1] = presses'
  <2>1. TypeOK
    BY DEF SInv
  <2> QED
    BY <2>1, KeyPressEffect
<1>2. /\ Len(driver) \in Nat /\ Len(accepted) \in Nat /\ Len(driver) <= Len(accepted)
      /\ presses \in Nat
      /\ \A i \in 1 .. Len(accepted) : accepted[i] \in Nat
      /\ \A i \in 1 .. Len(driver) : driver[i] \in Nat /\ driver[i] <= presses
  BY DriverKeys
<1>3. /\ \A i \in 1 .. Len(driver) : driver[i] = accepted[Len(accepted) - Len(driver) + i]
      /\ \A i \in 1 .. Len(accepted) : accepted[i] <= presses
      /\ \A i, j \in 1 .. Len(accepted) : i < j => accepted[i] < accepted[j]
  BY DEF KInv, DriverIsSuffix
<1>4. CASE UNCHANGED <<driver, accepted>>
  <2>1. \A i \in 1 .. Len(accepted) : accepted'[i] <= presses'
    BY <1>1, <1>2, <1>3, <1>4
  <2>2. DriverIsSuffix'
    BY <1>3, <1>4, <2>1 DEF DriverIsSuffix
  <2>3. ASSUME NEW d \in 1 .. Len(stack) PROVE Ordered(stack[d])' /\ Complete(stack[d])'
    <3> DEFINE app == stack[d]
    <3>1. Ordered(app) /\ Complete(app)
      BY AppKeys
    <3>2. /\ \A i \in 1 .. Len(app.got) : app.got[i] \in Nat
          /\ \A i \in 1 .. Len(app.buff) : app.buff[i] \in Nat
      BY <1>1, AppTypes
    <3>3. stack'[d] = app
      BY <1>1
    <3> HIDE DEF app
    <3>4. /\ \A i \in 1 .. Len(app.got) : app.got[i] <= presses'
          /\ \A i \in 1 .. Len(app.buff) : app.buff[i] <= presses'
      BY <1>1, <1>2, <3>1, <3>2 DEF Ordered
    <3>5. Ordered(app)' /\ app' = app
      BY <1>1, <1>4, <3>1, <3>4 DEF Ordered, app
    <3>6. Complete(app)'
      BY <1>1, <1>4, <3>1, <3>5 DEF Complete
    <3> QED
      BY <3>5, <3>6 DEF app
  <2> QED
    BY <1>1, <2>2, <2>3 DEF KInv, KeysFollow
<1>5. CASE /\ driver' \in Seq(Key) /\ Len(driver') = Len(driver) + 1
           /\ \A i \in 1 .. Len(driver) : driver'[i] = driver[i]
           /\ driver'[Len(driver) + 1] = presses'
           /\ accepted' \in Seq(Key) /\ Len(accepted') = Len(accepted) + 1
           /\ \A i \in 1 .. Len(accepted) : accepted'[i] = accepted[i]
           /\ accepted'[Len(accepted) + 1] = presses'
  <2> DEFINE n == Len(driver)
             m == Len(accepted)
             key == presses'
  <2>1. /\ n \in Nat /\ m \in Nat /\ n <= m /\ key = presses + 1 /\ presses \in Nat
        /\ Len(driver') = n + 1 /\ Len(accepted') = m + 1
        /\ \A i \in 1 .. n : driver'[i] = driver[i]
        /\ driver'[n + 1] = key
        /\ \A i \in 1 .. m : accepted'[i] = accepted[i]
        /\ accepted'[m + 1] = key
        /\ \A i \in 1 .. n : driver[i] = accepted[m - n + i]
        /\ \A i \in 1 .. m : accepted[i] <= presses /\ accepted[i] \in Nat
        /\ \A i, j \in 1 .. m : i < j => accepted[i] < accepted[j]
    BY <1>1, <1>2, <1>3, <1>5
  <2> HIDE DEF n, m, key
  <2>2. /\ \A i \in 1 .. n + 1 : i \in 1 .. n \/ i = n + 1
        /\ \A i \in 1 .. m + 1 : i \in 1 .. m \/ i = m + 1
        /\ \A i \in 1 .. n : m - n + i \in 1 .. m /\ (m + 1) - (n + 1) + i = m - n + i
        /\ (m + 1) - (n + 1) + (n + 1) = m + 1
    BY <2>1
  <2>3. \A i \in 1 .. n + 1 : driver'[i] = accepted'[(m + 1) - (n + 1) + i]
    BY <2>1, <2>2
  <2>4. \A i \in 1 .. m + 1 : accepted'[i] <= key
    BY <2>1, <2>2
  <2>5. \A i, j \in 1 .. m + 1 : i < j => accepted'[i] < accepted'[j]
    <3>1. ASSUME NEW i \in 1 .. m + 1, NEW j \in 1 .. m + 1, i < j
          PROVE  accepted'[i] < accepted'[j]
      <4>1. i \in 1 .. m
        BY <2>1, <3>1
      <4>2. accepted'[i] = accepted[i] /\ accepted[i] <= presses /\ accepted[i] \in Nat
        BY <2>1, <4>1
      <4>3. CASE j = m + 1
        BY <2>1, <4>2, <4>3
      <4>4. CASE j \in 1 .. m
        BY <2>1, <3>1, <4>1, <4>2, <4>4
      <4> QED
        BY <2>2, <4>3, <4>4
    <3> QED
      BY <3>1
  <2>6. DriverIsSuffix'
    BY <2>1, <2>3, <2>4, <2>5 DEF DriverIsSuffix, key
  <2>7. ASSUME NEW d \in 1 .. Len(stack) PROVE Ordered(stack[d])' /\ Complete(stack[d])'
    <3> DEFINE app == stack[d]
               g == app.got
               b == app.buff
    <3>1. /\ Len(g) \in Nat /\ Len(b) \in Nat /\ app.consumed \in Nat /\ app.since \in Nat
          /\ \A i \in 1 .. Len(g) : g[i] \in Nat
          /\ \A i \in 1 .. Len(b) : b[i] \in Nat
      BY <1>1, AppTypes
    <3>2. Ordered(app) /\ Complete(app)
      BY AppKeys
    <3>3. UNCHANGED <<app, g, b>>
      BY <1>1
    <3>4. /\ \A i \in 1 .. Len(g) : g[i] <= presses
          /\ \A j \in 1 .. Len(b) : b[j] <= presses
          /\ \A i \in 1 .. Len(g), j \in 1 .. n : g[i] < driver[j]
          /\ \A i \in 1 .. Len(b), j \in 1 .. n : b[i] < driver[j]
      BY <3>2 DEF Ordered, n
    <3>5. \A i, j \in 1 .. Len(g) : i < j => g[i] < g[j]
      BY <3>2 DEF Ordered
    <3>6. \A i, j \in 1 .. Len(b) : i < j => b[i] < b[j]
      BY <3>2 DEF Ordered
    <3>7. \A i \in 1 .. Len(g), j \in 1 .. Len(b) : j > app.consumed => g[i] < b[j]
      BY <3>2 DEF Ordered
    <3>8. ~app.overrun =>
            /\ app.consumed <= Len(b)
            /\ app.since + Len(g) + Len(b) + n = m + app.consumed
            /\ \A i \in 1 .. Len(g) : g[i] = accepted[app.since + i]
            /\ \A j \in 1 .. Len(b) :
                 j > app.consumed => b[j] = accepted[app.since + Len(g) + j - app.consumed]
      BY <3>2 DEF Complete, n, m
    <3> DEFINE c == app.consumed
               s == app.since
               o == app.overrun
    <3> HIDE DEF g, b, c, s, o
    <3>9. /\ \A i \in 1 .. Len(g) : g[i] <= key
          /\ \A j \in 1 .. Len(b) : b[j] <= key
          /\ \A i \in 1 .. Len(g), j \in 1 .. n + 1 : g[i] < driver'[j]
          /\ \A i \in 1 .. Len(b), j \in 1 .. n + 1 : b[i] < driver'[j]
      <4>1. /\ \A i \in 1 .. Len(g) : g[i] < key
            /\ \A j \in 1 .. Len(b) : b[j] < key
        <5>1. key = presses + 1 /\ presses \in Nat
          BY <2>1
        <5>2. /\ \A i \in 1 .. Len(g) : g[i] \in Nat /\ g[i] <= presses
              /\ \A i \in 1 .. Len(b) : b[i] \in Nat /\ b[i] <= presses
          BY <3>1, <3>4
        <5> QED
          BY <5>1, <5>2
      <4>2. \A j \in 1 .. n + 1 : (j \in 1 .. n /\ driver'[j] = driver[j]) \/ driver'[j] = key
        BY <2>1, <2>2
      <4>3. /\ \A i \in 1 .. Len(g), j \in 1 .. n + 1 : g[i] < driver'[j]
            /\ \A i \in 1 .. Len(b), j \in 1 .. n + 1 : b[i] < driver'[j]
        BY <3>4, <4>1, <4>2
      <4>4. key \in Nat
        BY <2>1
      <4>5. /\ \A i \in 1 .. Len(g) : g[i] <= key
            /\ \A j \in 1 .. Len(b) : b[j] <= key
        BY <3>1, <4>1, <4>4
      <4> QED
        BY <4>3, <4>5
    <3>10. ~o => /\ c <= Len(b)
                 /\ s + Len(g) + Len(b) + (n + 1) = (m + 1) + c
                 /\ \A i \in 1 .. Len(g) : g[i] = accepted'[s + i]
                 /\ \A j \in 1 .. Len(b) : j > c => b[j] = accepted'[s + Len(g) + j - c]
      <4> SUFFICES ASSUME ~o PROVE
                 /\ c <= Len(b)
                 /\ s + Len(g) + Len(b) + (n + 1) = (m + 1) + c
                 /\ \A i \in 1 .. Len(g) : g[i] = accepted'[s + i]
                 /\ \A j \in 1 .. Len(b) : j > c => b[j] = accepted'[s + Len(g) + j - c]
        OBVIOUS
      <4>1. /\ c <= Len(b) /\ s + Len(g) + Len(b) + n = m + c
            /\ \A i \in 1 .. Len(g) : g[i] = accepted[s + i]
            /\ \A j \in 1 .. Len(b) : j > c => b[j] = accepted[s + Len(g) + j - c]
            /\ c \in Nat /\ s \in Nat
        BY <3>1, <3>8 DEF c, s, o
      <4>2. /\ \A i \in 1 .. Len(g) : s + i \in 1 .. m
            /\ \A j \in 1 .. Len(b) : j > c => s + Len(g) + j - c \in 1 .. m
        <5>1. /\ s + Len(g) + Len(b) + n = m + c /\ c <= Len(b)
              /\ s \in Nat /\ Len(g) \in Nat /\ Len(b) \in Nat /\ n \in Nat /\ m \in Nat /\ c \in Nat
          BY <2>1, <3>1, <4>1
        <5>2. \A i \in 1 .. Len(g) : s + i \in 1 .. m
          BY <5>1
        <5>3. \A j \in 1 .. Len(b) : j > c => s + Len(g) + j - c \in 1 .. m
          BY <5>1
        <5> QED
          BY <5>2, <5>3
      <4>3. s + Len(g) + Len(b) + (n + 1) = (m + 1) + c
        <5>1. /\ s + Len(g) + Len(b) + n = m + c
              /\ s \in Nat /\ Len(g) \in Nat /\ Len(b) \in Nat /\ n \in Nat /\ m \in Nat /\ c \in Nat
          BY <2>1, <3>1, <4>1
        <5> QED
          BY <5>1
      <4> QED
        BY <2>1, <4>1, <4>2, <4>3
    <3>11. Ordered(stack[d])'
      BY <2>1, <3>3, <3>5, <3>6, <3>7, <3>9 DEF Ordered, key, g, b, c
    <3>12. Complete(stack[d])'
      BY <2>1, <3>3, <3>10 DEF Complete, g, b, c, s, o
    <3> QED
      BY <3>11, <3>12
  <2> QED
    BY <1>1, <2>6, <2>7 DEF KInv, KeysFollow
<1> QED
  BY <1>1, <1>4, <1>5

\* The app's own call of kapp_input_get_key() moves a key from its buffer to those
\* it has got, or leaves an empty buffer.
LEMMA GetKeyKInv == SInv /\ KInv /\ GetKey => KInv'
<1> SUFFICES ASSUME SInv, KInv, GetKey PROVE KInv'
  OBVIOUS
<1> DEFINE n == Len(stack)
           old == stack[n]
           g == old.got
           b == old.buff
           c == old.consumed
<1>1. /\ TypeOK /\ UNCHANGED <<driver, presses, accepted>> /\ stack # <<>>
      /\ Top = old /\ c < Len(b)
  BY DEF SInv, TypeOK, GetKey, Top
<1>2. n \in Nat /\ n # 0 /\ n \in 1 .. n
  BY <1>1 DEF TypeOK
<1>3. PICK app \in App : /\ Len(app.buff) <= BuffSize /\ app.consumed <= BuffSize
                         /\ app.got = Append(g, b[c + 1]) /\ app.buff = b
                         /\ app.consumed = c + 1
                         /\ app.since = old.since /\ app.overrun = old.overrun
                         /\ stack' = [stack EXCEPT ![n] = app]
  BY <1>1, GetKeyEffect
<1>4. /\ Len(stack') = n /\ stack'[n] = app
      /\ \A d \in 1 .. n : d # n => stack'[d] = stack[d]
  BY <1>1, <1>3, StackReplaced
<1>5. /\ g \in Seq(Key) /\ b \in Seq(Key) /\ Len(g) \in Nat /\ Len(b) \in Nat
      /\ c \in Nat /\ old.since \in Nat
      /\ \A i \in 1 .. Len(g) : g[i] \in Nat
      /\ \A i \in 1 .. Len(b) : b[i] \in Nat
  BY <1>1, <1>2, AppTypes
<1>6. Ordered(old) /\ Complete(old)
  BY <1>2, AppKeys
<1> DEFINE x == b[c + 1]
<1>7. x \in Key /\ x \in Nat /\ c + 1 \in 1 .. Len(b)
  BY <1>1, <1>5
<1>8. /\ Len(app.got) = Len(g) + 1
      /\ \A i \in 1 .. Len(g) : app.got[i] = g[i]
      /\ app.got[Len(g) + 1] = x
  BY <1>3, <1>5, <1>7
<1>9. \A i \in 1 .. Len(g) + 1 : i \in 1 .. Len(g) \/ i = Len(g) + 1
  BY <1>5
<1>10. Ordered(app)
  <2>1. \A i \in 1 .. Len(g) : g[i] < x
    <3>1. \A i \in 1 .. Len(g), j \in 1 .. Len(b) : j > c => g[i] < b[j]
      BY <1>6 DEF Ordered
    <3>2. c + 1 \in 1 .. Len(b) /\ c + 1 > c
      BY <1>5, <1>7
    <3> HIDE DEF g, b, c
    <3> QED
      BY <3>1, <3>2
  <2>2. x <= presses
    BY <1>6, <1>7 DEF Ordered
  <2>3. \A j \in 1 .. Len(b) : j > c + 1 => x < b[j]
    BY <1>5, <1>6, <1>7 DEF Ordered
  <2>4. \A j \in 1 .. Len(driver) : x < driver[j]
    BY <1>6, <1>7 DEF Ordered
  <2>5. \A j \in 1 .. Len(b) : j > c + 1 => j > c
    BY <1>5
  <2>6. \A i \in 1 .. Len(app.got) : app.got[i] <= presses
    BY <1>6, <1>8, <1>9, <2>2 DEF Ordered
  <2>7. \A i, j \in 1 .. Len(app.got) : i < j => app.got[i] < app.got[j]
    <3>1. ASSUME NEW i \in 1 .. Len(g) + 1, NEW j \in 1 .. Len(g) + 1, i < j
          PROVE  app.got[i] < app.got[j]
      <4>1. i \in 1 .. Len(g)
        BY <1>5, <3>1
      <4>2. CASE j = Len(g) + 1
        BY <1>8, <2>1, <4>1, <4>2
      <4>3. CASE j \in 1 .. Len(g)
        BY <1>6, <1>8, <3>1, <4>1, <4>3 DEF Ordered
      <4> QED
        BY <1>9, <4>2, <4>3
    <3> QED
      BY <1>8, <3>1
  <2>8. \A i \in 1 .. Len(app.got), j \in 1 .. Len(b) : j > c + 1 => app.got[i] < b[j]
    BY <1>6, <1>8, <1>9, <2>3, <2>5 DEF Ordered
  <2>9. \A i \in 1 .. Len(app.got), j \in 1 .. Len(driver) : app.got[i] < driver[j]
    BY <1>6, <1>8, <1>9, <2>4 DEF Ordered
  <2>10. /\ \A j \in 1 .. Len(b) : b[j] <= presses
         /\ \A i, j \in 1 .. Len(b) : i < j => b[i] < b[j]
         /\ \A i \in 1 .. Len(b), j \in 1 .. Len(driver) : b[i] < driver[j]
    BY <1>6 DEF Ordered
  <2> QED
    BY <1>3, <2>6, <2>7, <2>8, <2>9, <2>10 DEF Ordered
<1>11. Complete(app)
  <2> DEFINE s == old.since
             k == Len(g)
             l == Len(b)
             o == old.overrun
  <2>1. /\ s \in Nat /\ k \in Nat /\ l \in Nat /\ c \in Nat /\ c < l
        /\ app.since = s /\ app.buff = b /\ Len(app.buff) = l /\ app.consumed = c + 1
        /\ Len(app.got) = k + 1 /\ app.overrun = o
        /\ \A i \in 1 .. k : app.got[i] = g[i]
        /\ app.got[k + 1] = x
    BY <1>1, <1>3, <1>5, <1>8
  <2>2. ~o =>
          /\ s + k + l + Len(driver) = Len(accepted) + c
          /\ \A i \in 1 .. k : g[i] = accepted[s + i]
          /\ \A j \in 1 .. l : j > c => b[j] = accepted[s + k + j - c]
    BY <1>6 DEF Complete
  <2>3. Len(driver) \in Nat /\ Len(accepted) \in Nat
    BY <1>1 DEF TypeOK
  <2>4. x = b[c + 1]
    OBVIOUS
  <2> HIDE DEF s, k, l, o, x, g, b, c
  <2>5. c + 1 \in 1 .. l /\ c + 1 > c /\ s + k + (c + 1) - c = s + (k + 1) /\ c + 1 <= l
    BY <2>1
  <2>6. ~o => s + (k + 1) + l + Len(driver) = Len(accepted) + (c + 1)
    <3>1. /\ s \in Nat /\ k \in Nat /\ l \in Nat /\ c \in Nat
          /\ Len(driver) \in Nat /\ Len(accepted) \in Nat
          /\ ~o => s + k + l + Len(driver) = Len(accepted) + c
      BY <2>1, <2>2, <2>3
    <3> QED
      BY <3>1
  <2>7. ~o => x = accepted[s + (k + 1)]
    BY <2>2, <2>4, <2>5
  <2>8. ~o => \A i \in 1 .. k + 1 : app.got[i] = accepted[s + i]
    <3>1. \A i \in 1 .. k + 1 : i \in 1 .. k \/ i = k + 1
      BY <2>1
    <3>2. ~o => \A i \in 1 .. k : app.got[i] = accepted[s + i]
      BY <2>1, <2>2
    <3>3. ~o => app.got[k + 1] = accepted[s + (k + 1)]
      BY <2>1, <2>7
    <3> QED
      BY <3>1, <3>2, <3>3
  <2>9. ~o => \A j \in 1 .. l : j > c + 1 => b[j] = accepted[s + (k + 1) + j - (c + 1)]
    <3>1. \A j \in 1 .. l : j > c + 1 => j > c /\ s + (k + 1) + j - (c + 1) = s + k + j - c
      BY <2>1
    <3> QED
      BY <2>2, <3>1
  <2> QED
    BY <2>1, <2>5, <2>6, <2>8, <2>9 DEF Complete
<1> HIDE DEF n, old, g, b, c, x
<1>12. Ordered(app)' /\ Complete(app)' /\ DriverIsSuffix'
  BY <1>1, <1>10, <1>11, AppUnchanged DEF KInv
<1>13. ASSUME NEW d \in 1 .. n, d # n PROVE Ordered(stack[d])' /\ Complete(stack[d])'
  <2>1. Ordered(stack[d]) /\ Complete(stack[d]) /\ stack'[d] = stack[d]
    BY <1>4, <1>13, AppKeys DEF n
  <2> QED
    BY <1>1, <2>1 DEF Ordered, Complete
<1> QED
  BY <1>4, <1>12, <1>13 DEF KInv, KeysFollow

\* A call that finds no key has read the buffer to its end.
LEMMA GetNoKeyKInv == SInv /\ KInv /\ GetNoKey => KInv'
<1> SUFFICES ASSUME SInv, KInv, GetNoKey PROVE KInv'
  OBVIOUS
<1> DEFINE n == Len(stack)
           old == stack[n]
<1>1. /\ TypeOK /\ UNCHANGED <<driver, presses, accepted>> /\ stack # <<>>
      /\ Top = old /\ old.consumed >= Len(old.buff)
  BY DEF SInv, TypeOK, GetNoKey, Top
<1>2. n \in Nat /\ n # 0 /\ n \in 1 .. n
  BY <1>1 DEF TypeOK
<1>3. PICK app \in App : /\ Len(app.buff) <= BuffSize /\ app.consumed <= BuffSize
                         /\ app.got = old.got /\ app.buff = <<>> /\ app.consumed = 0
                         /\ app.since = old.since /\ app.overrun = old.overrun
                         /\ stack' = [stack EXCEPT ![n] = app]
  BY <1>1, GetNoKeyEffect
<1>4. /\ Len(stack') = n /\ stack'[n] = app
      /\ \A d \in 1 .. n : d # n => stack'[d] = stack[d]
  BY <1>1, <1>3, StackReplaced
<1>5. Len(old.got) \in Nat /\ Len(old.buff) \in Nat /\ old.consumed \in Nat /\ old.since \in Nat
  BY <1>1, <1>2, AppTypes
<1>6. Ordered(old) /\ Complete(old)
  BY <1>2, AppKeys
<1>7. Len(app.buff) = 0 /\ Len(driver) \in Nat /\ Len(accepted) \in Nat
  BY <1>1, <1>3 DEF TypeOK
<1>8. Ordered(app)
  BY <1>3, <1>6, <1>7 DEF Ordered
<1>9. Complete(app)
  <2> DEFINE s == old.since
             g == old.got
             k == Len(g)
             l == Len(old.buff)
             c == old.consumed
             o == old.overrun
  <2>1. /\ s \in Nat /\ k \in Nat /\ l \in Nat /\ c \in Nat /\ c >= l
        /\ Len(driver) \in Nat /\ Len(accepted) \in Nat
    BY <1>1, <1>5, <1>7
  <2>2. ~o => /\ c <= l /\ s + k + l + Len(driver) = Len(accepted) + c
              /\ \A i \in 1 .. k : g[i] = accepted[s + i]
    BY <1>6 DEF Complete
  <2>3. /\ app.got = g /\ Len(app.got) = k /\ app.since = s /\ app.overrun = o
        /\ Len(app.buff) = 0 /\ app.consumed = 0
    BY <1>3, <1>7
  <2> HIDE DEF s, g, k, l, c, o
  <2>4. ~o => s + k + 0 + Len(driver) = Len(accepted) + 0
    BY <2>1, <2>2
  <2> QED
    BY <2>2, <2>3, <2>4 DEF Complete
<1> HIDE DEF n, old
<1>10. Ordered(app)' /\ Complete(app)' /\ DriverIsSuffix'
  BY <1>1, <1>8, <1>9, AppUnchanged DEF KInv
<1>11. ASSUME NEW d \in 1 .. n, d # n PROVE Ordered(stack[d])' /\ Complete(stack[d])'
  <2>1. Ordered(stack[d]) /\ Complete(stack[d]) /\ stack'[d] = stack[d]
    BY <1>4, <1>11, AppKeys DEF n
  <2> QED
    BY <1>1, <2>1 DEF Ordered, Complete
<1> QED
  BY <1>4, <1>10, <1>11 DEF KInv, KeysFollow

\* The apps' own steps that leave every buffer alone.
LEMMA CallsKInv ==
  ASSUME SInv, KInv, RequestInputEvents \/ HandleKey \/ Quit \/ RemoveInputEvents
  PROVE  KInv'
<1>1. UNCHANGED <<driver, presses, accepted>> /\ stack \in Seq(App) /\ Len(stack) \in Nat
  BY DEF SInv, TypeOK, RequestInputEvents, HandleKey, Quit, RemoveInputEvents
<1>2. \A d \in 1 .. Len(stack') :
        /\ d \in 1 .. Len(stack)
        /\ stack'[d].got = stack[d].got /\ stack'[d].buff = stack[d].buff
        /\ stack'[d].consumed = stack[d].consumed /\ stack'[d].since = stack[d].since
        /\ stack'[d].overrun = stack[d].overrun
  <2>1. CASE UNCHANGED stack
    BY <2>1
  <2>2. CASE stack' = [stack EXCEPT ![Len(stack)].id = ids']
    <3>1. DOMAIN stack' = 1 .. Len(stack) /\ Len(stack') = Len(stack)
      BY <1>1, <2>2
    <3> SUFFICES ASSUME NEW d \in 1 .. Len(stack)
                 PROVE  /\ stack'[d].got = stack[d].got /\ stack'[d].buff = stack[d].buff
                        /\ stack'[d].consumed = stack[d].consumed
                        /\ stack'[d].since = stack[d].since
                        /\ stack'[d].overrun = stack[d].overrun
      BY <3>1
    <3>2. stack[d] \in App
      BY <1>1
    <3>3. stack'[d] = stack[d] \/ stack'[d] = [stack[d] EXCEPT !.id = ids']
      BY <1>1, <2>2
    <3> QED
      BY <3>2, <3>3 DEF App
  <2>3. CASE RemoveInputEvents
    <3> DEFINE m == Len(stack) - 1
    <3>1. stack' = SubSeq(stack, 1, m) /\ m \in Nat
      <4>1. Len(stack) # 0
        BY <1>1, <2>3 DEF SInv, TypeOK, RemoveInputEvents
      <4> QED
        BY <1>1, <2>3, <4>1 DEF RemoveInputEvents
    <3>2. m \in Int /\ 1 \in Int /\ m <= Len(stack) /\ \A d \in 1 .. m : stack[d] \in App
      BY <1>1, <3>1
    <3> HIDE DEF m
    <3>3. /\ SubSeq(stack, 1, m) \in Seq(App)
          /\ Len(SubSeq(stack, 1, m)) = IF 1 <= m THEN m - 1 + 1 ELSE 0
          /\ \A i \in 1 .. m - 1 + 1 : SubSeq(stack, 1, m)[i] = stack[1 + i - 1]
      BY <3>2, SubSeqProperties
    <3>4. Len(stack') = m /\ \A i \in 1 .. m : stack'[i] = stack[i] /\ i \in 1 .. Len(stack)
      BY <1>1, <3>1, <3>2, <3>3
    <3> QED
      BY <3>4
  <2> QED
    BY <2>1, <2>2, <2>3 DEF RequestInputEvents, HandleKey, Quit
<1>3. ASSUME NEW d \in 1 .. Len(stack') PROVE Ordered(stack[d])' /\ Complete(stack[d])'
  <2>1. d \in 1 .. Len(stack)
    BY <1>2
  <2>2. Ordered(stack[d]) /\ Complete(stack[d])
    BY <2>1, AppKeys
  <2> DEFINE old == stack[d]
  <2>3. /\ stack'[d].got = old.got /\ stack'[d].buff = old.buff
        /\ stack'[d].consumed = old.consumed /\ stack'[d].since = old.since
        /\ stack'[d].overrun = old.overrun /\ Ordered(old) /\ Complete(old)
    BY <1>2, <2>2
  <2> HIDE DEF old
  <2> QED
    BY <1>1, <2>3 DEF Ordered, Complete
<1>4. DriverIsSuffix'
  BY <1>1 DEF KInv, DriverIsSuffix
<1> QED
  BY <1>3, <1>4 DEF KInv, KeysFollow

\* An app that is started has missed none of the keys that the driver holds.
LEMMA RunAppKInv == SInv /\ KInv /\ (\E kind \in {"shell", "hang"} : RunApp(kind)) => KInv'
<1> SUFFICES ASSUME SInv, KInv, NEW kind \in {"shell", "hang"}, RunApp(kind) PROVE KInv'
  OBVIOUS
<1> DEFINE app == NewApp(kind)
<1>1. /\ stack' = Append(stack, app) /\ stack \in Seq(App) /\ Len(stack) \in Nat
      /\ UNCHANGED <<driver, presses, accepted>>
  BY DEF RunApp, SInv, TypeOK
<1>2. /\ app.got = <<>> /\ app.buff = <<>> /\ app.consumed = 0
      /\ app.since = Len(accepted) - Len(driver)
  BY DEF NewApp
<1> HIDE DEF app
<1>3. /\ Len(stack') = Len(stack) + 1 /\ stack'[Len(stack) + 1] = app
      /\ \A d \in 1 .. Len(stack) : stack'[d] = stack[d]
  <2>1. app \in App
    BY NewAppTypes DEF app
  <2> QED
    BY <1>1, <2>1
<1>4. Len(driver) \in Nat /\ Len(accepted) \in Nat
  BY DriverKeys
<1>5. Ordered(app) /\ Complete(app)
  BY <1>2, <1>4 DEF Ordered, Complete
<1>6. Ordered(app)' /\ Complete(app)' /\ DriverIsSuffix'
  <2>1. UNCHANGED app
    BY <1>1 DEF app, NewApp
  <2> QED
    BY <1>1, <1>5, <2>1 DEF KInv, Ordered, Complete, DriverIsSuffix
<1>7. ASSUME NEW d \in 1 .. Len(stack') PROVE Ordered(stack[d])' /\ Complete(stack[d])'
  <2>1. CASE d \in 1 .. Len(stack)
    <3>1. Ordered(stack[d]) /\ Complete(stack[d]) /\ stack'[d] = stack[d]
      BY <1>3, <2>1, AppKeys
    <3> QED
      BY <1>1, <3>1 DEF Ordered, Complete
  <2>2. CASE d = Len(stack) + 1
    <3>1. stack'[d] = app /\ UNCHANGED app
      BY <1>1, <1>3, <2>2 DEF app, NewApp
    <3> QED
      BY <1>1, <1>5, <3>1 DEF Ordered, Complete
  <2> QED
    BY <1>1, <1>3, <2>1, <2>2
<1> QED
  BY <1>6, <1>7 DEF KInv, KeysFollow

\* The hand-over puts the driver's keys behind those an app holds, or replaces
\* them by the last of the driver's.
LEMMA DeliverOrdered ==
  ASSUME SInv, KInv, NEW d \in 1 .. Len(stack), NEW new \in App,
         new = Deliver(stack[d], driver), driver' = <<>>, UNCHANGED <<presses, accepted>>
  PROVE  Ordered(new)'
<1> DEFINE old == stack[d]
           g == old.got
           b == old.buff
           n == Len(driver)
           r == Delivered(b, driver)
<1>1. TypeOK /\ new.got = g /\ new.buff = r /\ new.consumed = old.consumed
  <2>1. TypeOK
    BY DEF SInv
  <2> QED
    BY <2>1, DeliverTypes
<1>2. /\ b \in Seq(Key) /\ Len(b) \in Nat /\ Len(b) <= BuffSize /\ old.consumed \in Nat
      /\ \A i \in 1 .. Len(g) : g[i] \in Nat
      /\ \A i \in 1 .. Len(b) : b[i] \in Nat
  BY <1>1, AppTypes
<1>3. /\ driver \in Seq(Key) /\ n \in Nat /\ presses \in Nat
      /\ \A i \in 1 .. n : driver[i] \in Nat /\ driver[i] <= presses
      /\ \A i, j \in 1 .. n : i < j => driver[i] < driver[j]
  BY DriverKeys
<1>4. /\ r \in Seq(Key)
      /\ Len(b) + n <= BuffSize => r = b \o driver
      /\ Len(b) + n > BuffSize =>
           /\ Len(r) <= n
           /\ \A i \in 1 .. Len(r) : r[i] = driver[n - Len(r) + i]
  BY <1>2, <1>3, DeliveredProperties
<1>5. Ordered(old)
  BY AppKeys
<1>6. /\ \A i \in 1 .. Len(g) : g[i] <= presses
      /\ \A j \in 1 .. Len(b) : b[j] <= presses
      /\ \A i, j \in 1 .. Len(g) : i < j => g[i] < g[j]
      /\ \A i, j \in 1 .. Len(b) : i < j => b[i] < b[j]
      /\ \A i \in 1 .. Len(g), j \in 1 .. Len(b) : j > old.consumed => g[i] < b[j]
      /\ \A i \in 1 .. Len(g), j \in 1 .. n : g[i] < driver[j]
      /\ \A i \in 1 .. Len(b), j \in 1 .. n : b[i] < driver[j]
  BY <1>5 DEF Ordered
<1> HIDE DEF old, g, b, n, r
<1>7. /\ \A j \in 1 .. Len(r) : r[j] <= presses
      /\ \A i, j \in 1 .. Len(r) : i < j => r[i] < r[j]
      /\ \A i \in 1 .. Len(g), j \in 1 .. Len(r) : j > old.consumed => g[i] < r[j]
  <2>1. CASE Len(b) + n <= BuffSize
    <3>1. r = b \o driver
      BY <1>4, <2>1
    <3>2. /\ Len(r) = Len(b) + n
          /\ \A i \in 1 .. Len(b) : r[i] = b[i]
          /\ \A i \in 1 .. n : r[Len(b) + i] = driver[i]
      BY <1>2, <1>3, <3>1 DEF n
    <3>3. \A j \in 1 .. Len(r) : j \in 1 .. Len(b) \/ (j > Len(b) /\ j - Len(b) \in 1 .. n)
      BY <1>2, <1>3, <3>2
    <3>4. \A j \in 1 .. Len(r) : j > Len(b) => j - Len(b) \in 1 .. n /\ r[j] = driver[j - Len(b)]
      <4>1. ASSUME NEW j \in 1 .. Len(r), j > Len(b)
            PROVE  j - Len(b) \in 1 .. n /\ r[j] = driver[j - Len(b)]
        <5>1. j - Len(b) \in 1 .. n /\ Len(b) + (j - Len(b)) = j
          BY <1>2, <1>3, <3>2, <4>1
        <5> QED
          BY <3>2, <5>1
      <4> QED
        BY <4>1
    <3>5. \A j \in 1 .. Len(r) : r[j] <= presses
      BY <1>3, <1>6, <3>2, <3>3, <3>4
    <3>6. ASSUME NEW i \in 1 .. Len(r), NEW j \in 1 .. Len(r), i < j PROVE r[i] < r[j]
      <4>1. CASE j \in 1 .. Len(b)
        <5>1. i \in 1 .. Len(b)
          BY <1>2, <3>6, <4>1
        <5> QED
          BY <1>6, <3>2, <3>6, <4>1, <5>1
      <4>2. CASE i \in 1 .. Len(b) /\ j > Len(b)
        BY <1>6, <3>2, <3>4, <4>2
      <4>3. CASE i > Len(b) /\ j > Len(b)
        <5>1. /\ i - Len(b) \in 1 .. n /\ j - Len(b) \in 1 .. n
              /\ r[i] = driver[i - Len(b)] /\ r[j] = driver[j - Len(b)]
          BY <3>4, <4>3
        <5>2. i - Len(b) < j - Len(b)
          BY <1>2, <3>6
        <5> QED
          BY <1>3, <5>1, <5>2
      <4> QED
        BY <1>2, <3>3, <4>1, <4>2, <4>3
    <3>7. \A i \in 1 .. Len(g), j \in 1 .. Len(r) : j > old.consumed => g[i] < r[j]
      BY <1>6, <3>2, <3>3, <3>4
    <3> QED
      BY <3>5, <3>6, <3>7
  <2>2. CASE Len(b) + n > BuffSize
    <3> DEFINE k == n - Len(r)
    <3>1. /\ Len(r) \in Nat /\ Len(r) <= n /\ k \in Nat
          /\ \A i \in 1 .. Len(r) : r[i] = driver[k + i] /\ k + i \in 1 .. n
      <4>1. Len(r) \in Nat /\ Len(r) <= n /\ \A i \in 1 .. Len(r) : r[i] = driver[k + i]
        BY <1>2, <1>3, <1>4, <2>2, SizesAssumption
      <4> QED
        BY <1>3, <4>1
    <3> HIDE DEF k
    <3>2. ASSUME NEW i \in 1 .. Len(r), NEW j \in 1 .. Len(r), i < j PROVE r[i] < r[j]
      <4>1. k + i < k + j
        BY <3>1, <3>2
      <4> QED
        BY <1>3, <3>1, <4>1
    <3>3. \A j \in 1 .. Len(r) : r[j] <= presses
      BY <1>3, <3>1
    <3>4. \A i \in 1 .. Len(g), j \in 1 .. Len(r) : g[i] < r[j]
      BY <1>6, <3>1
    <3> QED
      BY <3>2, <3>3, <3>4
  <2> QED
    BY <1>2, <1>3, <2>1, <2>2, SizesAssumption
<1> QED
  BY <1>1, <1>6, <1>7 DEF Ordered

\* A hand-over that fits keeps what an app has complete.
LEMMA DeliverComplete ==
  ASSUME SInv, KInv, NEW d \in 1 .. Len(stack), NEW new \in App,
         new = Deliver(stack[d], driver), driver' = <<>>, UNCHANGED <<presses, accepted>>
  PROVE  Complete(new)'
<1> DEFINE old == stack[d]
           g == old.got
           b == old.buff
           c == old.consumed
           s == old.since
           n == Len(driver)
           m == Len(accepted)
<1>1. /\ TypeOK /\ new.got = g /\ new.buff = Delivered(b, driver) /\ new.consumed = c
      /\ new.since = s /\ new.overrun = (old.overrun \/ Len(b) + n > BuffSize)
  <2>1. TypeOK
    BY DEF SInv
  <2> QED
    BY <2>1, DeliverTypes
<1>2. /\ b \in Seq(Key) /\ Len(b) \in Nat /\ Len(b) <= BuffSize /\ BuffSize \in Nat
      /\ c \in Nat /\ s \in Nat /\ Len(g) \in Nat
  BY <1>1, AppTypes, SizesAssumption
<1>3. driver \in Seq(Key) /\ n \in Nat /\ m \in Nat /\ n <= m
  BY DriverKeys
<1> SUFFICES ASSUME ~new.overrun PROVE
      /\ new.consumed <= Len(new.buff)
      /\ new.since + Len(new.got) + Len(new.buff) + 0 = m + new.consumed
      /\ \A i \in 1 .. Len(new.got) : new.got[i] = accepted[new.since + i]
      /\ \A j \in 1 .. Len(new.buff) :
           j > new.consumed => new.buff[j] = accepted[new.since + Len(new.got) + j - new.consumed]
  BY DEF Complete
<1>4. Len(b) + n <= BuffSize /\ ~old.overrun
  <2>1. ~(old.overrun \/ Len(b) + n > BuffSize)
    BY <1>1
  <2>2. ~old.overrun /\ ~(Len(b) + n > BuffSize)
    BY <2>1
  <2>3. Len(b) \in Nat /\ n \in Nat /\ BuffSize \in Nat
    BY <1>2, <1>3
  <2> HIDE DEF old, b, n
  <2> QED
    BY <2>2, <2>3
<1>5. Delivered(b, driver) = b \o driver
  BY <1>2, <1>3, <1>4, DeliveredProperties
<1>6. /\ c <= Len(b) /\ s + Len(g) + Len(b) + n = m + c
      /\ \A i \in 1 .. Len(g) : g[i] = accepted[s + i]
      /\ \A j \in 1 .. Len(b) : j > c => b[j] = accepted[s + Len(g) + j - c]
  BY <1>4, AppKeys DEF Complete
<1>7. \A i \in 1 .. n : driver[i] = accepted[m - n + i]
  BY DEF KInv, DriverIsSuffix
<1>8. /\ Len(new.buff) = Len(b) + n
      /\ \A i \in 1 .. Len(b) : new.buff[i] = b[i]
      /\ \A i \in 1 .. n : new.buff[Len(b) + i] = driver[i]
  BY <1>1, <1>2, <1>3, <1>5
<1>9. new.got = g /\ Len(new.got) = Len(g) /\ new.consumed = c /\ new.since = s
  BY <1>1
<1> DEFINE k == Len(g)
           l == Len(b)
<1> HIDE DEF g, b, c, s, n, m, k, l
<1>10. /\ l \in Nat /\ n \in Nat /\ m \in Nat /\ k \in Nat /\ c \in Nat /\ s \in Nat
       /\ c <= l /\ s + k + l + n = m + c /\ n <= m
  BY <1>2, <1>3, <1>6 DEF k, l
<1>11. c <= l + n /\ s + k + (l + n) + 0 = m + c
  BY <1>10
<1>12. ASSUME NEW j \in 1 .. l + n, j > c PROVE new.buff[j] = accepted[s + k + j - c]
  <2>1. CASE j \in 1 .. l
    BY <1>6, <1>8, <1>12, <2>1 DEF k, l
  <2>2. CASE j > l
    <3> DEFINE i == j - l
    <3>1. i \in 1 .. n /\ l + i = j /\ m - n + i = s + k + j - c
      BY <1>10, <2>2
    <3> HIDE DEF i
    <3>2. new.buff[l + i] = driver[i] /\ driver[i] = accepted[m - n + i]
      BY <1>7, <1>8, <3>1 DEF l
    <3> QED
      BY <3>1, <3>2
  <2> QED
    BY <1>10, <2>1, <2>2
<1> QED
  BY <1>6, <1>8, <1>9, <1>11, <1>12 DEF k, l

\* The hand-over moves the driver's keys to every app.
LEMMA YieldKInv == SInv /\ KInv /\ Yield => KInv'
<1> SUFFICES ASSUME SInv, KInv, Yield PROVE KInv'
  OBVIOUS
<1>1. /\ pc = "yield" /\ Running /\ driver' = <<>> /\ UNCHANGED <<presses, accepted>>
      /\ stack \in Seq(App) /\ Len(stack) \in Nat /\ DOMAIN stack = 1 .. Len(stack) /\ TypeOK
  BY DEF Yield, Running, SInv, TypeOK
<1>2. \A d \in 1 .. Len(stack) : Hears(d)
  BY <1>1, AllHear DEF Listening
<1>3. stack' = [d \in 1 .. Len(stack) |-> Deliver(stack[d], driver)]
  BY <1>1, <1>2 DEF Yield
<1>4. Len(stack') = Len(stack)
  BY <1>1, <1>3
<1>5. ASSUME NEW d \in 1 .. Len(stack) PROVE Ordered(stack[d])' /\ Complete(stack[d])'
  <2> DEFINE new == Deliver(stack[d], driver)
  <2>1. PICK app \in App : app = new
    BY <1>1, DeliverTypes
  <2>2. Ordered(app)' /\ Complete(app)'
    BY <1>1, <2>1, DeliverOrdered, DeliverComplete
  <2>3. stack'[d] = app
    BY <1>3, <2>1
  <2> HIDE DEF new
  <2> QED
    BY <2>2, <2>3 DEF Ordered, Complete
<1>6. DriverIsSuffix'
  BY <1>1 DEF KInv, DriverIsSuffix
<1> QED
  BY <1>4, <1>5, <1>6 DEF KInv, KeysFollow

\* Every step keeps the keys in order and complete.
LEMMA NextKInv == SInv /\ KInv /\ [Next]_vars => KInv'
<1> SUFFICES ASSUME SInv, KInv, [Next]_vars PROVE KInv'
  OBVIOUS
<1>1. CASE UNCHANGED vars
  BY <1>1 DEF vars, KInv, KeysFollow, DriverIsSuffix, Ordered, Complete
<1>2. CASE KeyPress
  BY <1>2, KeyPressKInv
<1>3. CASE OtherInterrupt
  BY <1>3 DEF OtherInterrupt, KInv, KeysFollow, DriverIsSuffix, Ordered, Complete
<1>4. CASE Run
  BY <1>4, YieldKInv, GetNoKeyKInv, GetKeyKInv, CallsKInv, RunAppKInv DEF Run
<1> QED
  BY <1>1, <1>2, <1>3, <1>4 DEF Next, Interrupt

\* The unread keys of an app are the end of its buffer.
LEMMA UnreadProperties ==
  ASSUME TypeOK, NEW d \in 1 .. Len(stack)
  PROVE  /\ Unread(stack[d]) \in Seq(Key)
         /\ Len(Unread(stack[d])) =
              IF stack[d].consumed <= Len(stack[d].buff)
              THEN Len(stack[d].buff) - stack[d].consumed ELSE 0
         /\ \A i \in 1 .. Len(Unread(stack[d])) :
              /\ stack[d].consumed + i \in 1 .. Len(stack[d].buff)
              /\ Unread(stack[d])[i] = stack[d].buff[stack[d].consumed + i]
<1> DEFINE b == stack[d].buff
           c == stack[d].consumed
           lo == c + 1
           hi == Len(b)
<1>1. b \in Seq(Key) /\ Len(b) \in Nat /\ c \in Nat
  BY AppTypes
<1>2. lo \in Int /\ hi \in Int /\ \A i \in lo .. hi : b[i] \in Key
  BY <1>1
<1>3. Unread(stack[d]) = SubSeq(b, lo, hi)
  BY DEF Unread
<1> HIDE DEF lo, hi
<1>4. /\ SubSeq(b, lo, hi) \in Seq(Key)
      /\ Len(SubSeq(b, lo, hi)) = IF lo <= hi THEN hi - lo + 1 ELSE 0
      /\ \A i \in 1 .. hi - lo + 1 : SubSeq(b, lo, hi)[i] = b[lo + i - 1]
  BY <1>2, SubSeqProperties
<1> HIDE DEF b, c
<1>5. Len(SubSeq(b, lo, hi)) = IF c <= Len(b) THEN Len(b) - c ELSE 0
  BY <1>1, <1>4 DEF lo, hi
<1>6. \A i \in 1 .. Len(SubSeq(b, lo, hi)) :
        c + i \in 1 .. Len(b) /\ SubSeq(b, lo, hi)[i] = b[c + i]
  <2> TAKE i \in 1 .. Len(SubSeq(b, lo, hi))
  <2>1. c <= Len(b) /\ i \in 1 .. Len(b) - c
    BY <1>1, <1>5
  <2>2. i \in 1 .. hi - lo + 1 /\ lo + i - 1 = c + i
    BY <1>1, <2>1 DEF lo, hi
  <2>3. c + i \in 1 .. Len(b)
    BY <1>1, <2>1
  <2> QED
    BY <1>4, <2>2, <2>3
<1> QED
  BY <1>3, <1>4, <1>5, <1>6 DEF b, c

-----------------------------------------------------------------------------
(* Theorems *)

\* The inductive invariant of the slots holds of every behaviour.
THEOREM SlotsInvariant == Spec => []SInv
BY InitSInv, NextSInv, PTL DEF Spec

\* The variables keep their types and the buffers their bounds: the driver's
\* buffer, the table of listeners and the buffers of the apps do not overflow.
THEOREM TypeCorrect == Spec => []TypeOK
<1>1. SInv => TypeOK
  BY DEF SInv
<1> QED
  BY <1>1, SlotsInvariant, PTL

\* So does that of the keys, which rests on it.
THEOREM KeysInvariant == Spec => [](SInv /\ KInv)
BY InitSInv, NextSInv, InitKInv, NextKInv, PTL DEF Spec

\* Two increasing sequences of numbers, the one before the other.
LEMMA IncreasingConcat ==
  ASSUME NEW s \in Seq(Key), NEW t \in Seq(Key), Increasing(s), Increasing(t),
         \A i \in 1 .. Len(s), j \in 1 .. Len(t) : s[i] < t[j]
  PROVE  Increasing(s \o t)
<1>1. /\ Len(s) \in Nat /\ Len(t) \in Nat /\ DOMAIN s = 1 .. Len(s) /\ DOMAIN t = 1 .. Len(t)
      /\ DOMAIN (s \o t) = 1 .. Len(s) + Len(t)
      /\ \A i \in 1 .. Len(s) : (s \o t)[i] = s[i]
      /\ \A i \in 1 .. Len(t) : (s \o t)[Len(s) + i] = t[i]
  OBVIOUS
<1> DEFINE u == s \o t
           k == Len(s)
           l == Len(t)
<1>2. /\ \A i, j \in 1 .. k : i < j => s[i] < s[j]
      /\ \A i, j \in 1 .. l : i < j => t[i] < t[j]
  BY <1>1 DEF Increasing
<1>3. k \in Nat /\ l \in Nat /\ DOMAIN u = 1 .. k + l
  BY <1>1
<1>4. /\ \A i \in 1 .. k : u[i] = s[i]
      /\ \A i \in 1 .. l : u[k + i] = t[i]
      /\ \A i \in 1 .. k, j \in 1 .. l : s[i] < t[j]
  BY <1>1
<1> HIDE DEF u, k, l
<1>5. \A i \in 1 .. k + l : i > k => i - k \in 1 .. l /\ u[i] = t[i - k]
  <2>1. \A i \in 1 .. k + l : i > k => i - k \in 1 .. l /\ k + (i - k) = i
    BY <1>3
  <2> QED
    BY <1>4, <2>1
<1>6. ASSUME NEW i \in 1 .. k + l, NEW j \in 1 .. k + l, i < j PROVE u[i] < u[j]
  <2>1. CASE j <= k
    <3>1. i \in 1 .. k /\ j \in 1 .. k
      BY <1>3, <1>6, <2>1
    <3> QED
      BY <1>2, <1>4, <1>6, <3>1
  <2>2. CASE i <= k /\ j > k
    <3>1. i \in 1 .. k
      BY <1>3, <2>2
    <3> QED
      BY <1>4, <1>5, <2>2, <3>1
  <2>3. CASE i > k /\ j > k
    <3>1. i - k < j - k
      BY <1>3, <1>6
    <3> QED
      BY <1>2, <1>5, <2>3, <3>1
  <2> QED
    BY <1>3, <2>1, <2>2, <2>3
<1> QED
  BY <1>3, <1>6 DEF Increasing, u

\* An app gets no key twice and none after a later one, whatever was lost.
THEOREM KeysInOrder == Spec => []InOrder
<1>1. SInv /\ KInv => InOrder
  <2> SUFFICES ASSUME SInv, KInv, NEW d \in DOMAIN stack
               PROVE  Increasing(stack[d].got \o Unread(stack[d]) \o driver)
    BY DEF InOrder
  <2> DEFINE g == stack[d].got
             b == stack[d].buff
             c == stack[d].consumed
             u == Unread(stack[d])
  <2>1. TypeOK /\ d \in 1 .. Len(stack)
    BY DEF SInv, TypeOK
  <2>2. /\ u \in Seq(Key) /\ Len(u) \in Nat
        /\ \A i \in 1 .. Len(u) : c + i \in 1 .. Len(b) /\ u[i] = b[c + i]
    BY <2>1, UnreadProperties
  <2>3. g \in Seq(Key) /\ Len(g) \in Nat /\ c \in Nat
    BY <2>1, AppTypes
  <2>4. Ordered(stack[d])
    BY <2>1, AppKeys
  <2>5. /\ driver \in Seq(Key)
        /\ \A i, j \in 1 .. Len(driver) : i < j => driver[i] < driver[j]
    BY DriverKeys
  <2>6. /\ \A i, j \in 1 .. Len(g) : i < j => g[i] < g[j]
        /\ \A i, j \in 1 .. Len(b) : i < j => b[i] < b[j]
        /\ \A i \in 1 .. Len(g), j \in 1 .. Len(b) : j > c => g[i] < b[j]
        /\ \A i \in 1 .. Len(g), j \in 1 .. Len(driver) : g[i] < driver[j]
        /\ \A i \in 1 .. Len(b), j \in 1 .. Len(driver) : b[i] < driver[j]
    BY <2>4, ZenonT(30) DEF Ordered
  <2> HIDE DEF g, b, c, u
  <2>7. Increasing(g) /\ Increasing(driver)
    BY <2>3, <2>5, <2>6 DEF Increasing
  <2>8. Increasing(u)
    <3>1. \A i, j \in 1 .. Len(u) : i < j => c + i < c + j
      BY <2>2, <2>3
    <3>2. \A i, j \in 1 .. Len(u) : i < j => u[i] < u[j]
      BY <2>2, <2>6, <3>1
    <3> QED
      BY <2>2, <3>2 DEF Increasing
  <2>9. \A i \in 1 .. Len(g), j \in 1 .. Len(u) : g[i] < u[j]
    <3>1. \A j \in 1 .. Len(u) : c + j > c
      BY <2>2, <2>3
    <3> QED
      BY <2>2, <2>6, <3>1
  <2>10. Increasing(g \o u) /\ g \o u \in Seq(Key)
    BY <2>2, <2>3, <2>7, <2>8, <2>9, IncreasingConcat
  <2>11. \A i \in 1 .. Len(g \o u), j \in 1 .. Len(driver) : (g \o u)[i] < driver[j]
    <3>1. /\ Len(g \o u) = Len(g) + Len(u)
          /\ \A i \in 1 .. Len(g) : (g \o u)[i] = g[i]
          /\ \A i \in 1 .. Len(u) : (g \o u)[Len(g) + i] = u[i]
      BY <2>2, <2>3
    <3>2. \A i \in 1 .. Len(g) + Len(u) :
            i \in 1 .. Len(g) \/ (i - Len(g) \in 1 .. Len(u) /\ Len(g) + (i - Len(g)) = i)
      BY <2>2, <2>3
    <3>3. \A i \in 1 .. Len(u), j \in 1 .. Len(driver) : u[i] < driver[j]
      BY <2>2, <2>6
    <3>4. ASSUME NEW i \in 1 .. Len(g) + Len(u), NEW j \in 1 .. Len(driver)
          PROVE  (g \o u)[i] < driver[j]
      <4>1. CASE i \in 1 .. Len(g)
        BY <2>6, <3>1, <4>1
      <4>2. CASE i - Len(g) \in 1 .. Len(u) /\ Len(g) + (i - Len(g)) = i
        <5>1. (g \o u)[i] = u[i - Len(g)]
          BY <3>1, <4>2
        <5> QED
          BY <3>3, <4>2, <5>1
      <4> QED
        BY <3>2, <4>1, <4>2
    <3> QED
      BY <3>1, <3>4
  <2>12. Increasing((g \o u) \o driver)
    BY <2>5, <2>7, <2>10, <2>11, IncreasingConcat
  <2> QED
    BY <2>12 DEF g, u
<1> QED
  BY <1>1, KeysInvariant, PTL

\* The elements of three sequences in a row.
LEMMA ConcatThree ==
  ASSUME NEW T, NEW x \in Seq(T), NEW y \in Seq(T), NEW z \in Seq(T)
  PROVE  /\ x \o y \o z \in Seq(T)
         /\ Len(x \o y \o z) = Len(x) + Len(y) + Len(z)
         /\ \A i \in 1 .. Len(x) : (x \o y \o z)[i] = x[i]
         /\ \A i \in 1 .. Len(y) : (x \o y \o z)[Len(x) + i] = y[i]
         /\ \A i \in 1 .. Len(z) : (x \o y \o z)[Len(x) + Len(y) + i] = z[i]
<1> DEFINE xy == x \o y
           v  == xy \o z
<1>1. Len(x) \in Nat /\ Len(y) \in Nat /\ Len(z) \in Nat
  OBVIOUS
<1>2. /\ xy \in Seq(T) /\ Len(xy) = Len(x) + Len(y)
      /\ \A i \in 1 .. Len(x) : xy[i] = x[i]
      /\ \A i \in 1 .. Len(y) : xy[Len(x) + i] = y[i]
  OBVIOUS
<1> HIDE DEF xy
<1>3. /\ v \in Seq(T) /\ Len(v) = Len(xy) + Len(z)
      /\ \A i \in 1 .. Len(xy) : v[i] = xy[i]
      /\ \A i \in 1 .. Len(z) : v[Len(xy) + i] = z[i]
  <2>1. xy \in Seq(T)
    BY <1>2
  <2> QED
    BY <2>1
<1> HIDE DEF v
<1>4. /\ \A i \in 1 .. Len(x) : i \in 1 .. Len(xy)
      /\ \A i \in 1 .. Len(y) : Len(x) + i \in 1 .. Len(xy)
  BY <1>1, <1>2
<1>5. /\ v \in Seq(T) /\ Len(v) = Len(x) + Len(y) + Len(z)
      /\ \A i \in 1 .. Len(x) : v[i] = x[i]
      /\ \A i \in 1 .. Len(y) : v[Len(x) + i] = y[i]
      /\ \A i \in 1 .. Len(z) : v[Len(x) + Len(y) + i] = z[i]
  BY <1>2, <1>3, <1>4
<1> QED
  BY <1>5 DEF v, xy

\* What an app has got, with what waits for it, is all that the driver has accepted
\* since it was started, as long as its buffer has not started over on it.
THEOREM NoKeyMissed == Spec => []NothingMissed
<1>1. SInv /\ KInv => NothingMissed
  <2> SUFFICES ASSUME SInv, KInv, Running, NEW d \in 1 .. Listening, ~stack[d].overrun
               PROVE  stack[d].got \o Unread(stack[d]) \o driver =
                        SubSeq(accepted, stack[d].since + 1, Len(accepted))
    BY DEF NothingMissed, Running
  <2> DEFINE g == stack[d].got
             b == stack[d].buff
             c == stack[d].consumed
             s == stack[d].since
             u == Unread(stack[d])
             n == Len(driver)
             m == Len(accepted)
             k == Len(g)
             l == Len(u)
             w == SubSeq(accepted, s + 1, m)
             v == (g \o u) \o driver
  <2>1. TypeOK /\ d \in 1 .. Len(stack)
    <3>1. Len(stack) \in Nat /\ TypeOK
      BY DEF SInv, TypeOK
    <3> QED
      BY <3>1 DEF Listening
  <2>2. /\ u \in Seq(Key) /\ Len(u) \in Nat
        /\ Len(u) = IF c <= Len(b) THEN Len(b) - c ELSE 0
        /\ \A i \in 1 .. Len(u) : c + i \in 1 .. Len(b) /\ u[i] = b[c + i]
    BY <2>1, UnreadProperties
  <2>3. g \in Seq(Key) /\ k \in Nat /\ c \in Nat /\ s \in Nat /\ Len(b) \in Nat
    BY <2>1, AppTypes
  <2>4. /\ c <= Len(b) /\ s + k + Len(b) + n = m + c
        /\ \A i \in 1 .. k : g[i] = accepted[s + i]
        /\ \A j \in 1 .. Len(b) : j > c => b[j] = accepted[s + k + j - c]
    BY <2>1, AppKeys DEF Complete
  <2>5. driver \in Seq(Key) /\ n \in Nat /\ accepted \in Seq(Key) /\ m \in Nat
    BY DriverKeys
  <2>6. \A i \in 1 .. n : driver[i] = accepted[m - n + i]
    BY DEF KInv, DriverIsSuffix
  <2>7. /\ v \in Seq(Key) /\ Len(v) = k + l + n
        /\ \A i \in 1 .. k : v[i] = g[i]
        /\ \A i \in 1 .. l : v[k + i] = u[i]
        /\ \A i \in 1 .. n : v[k + l + i] = driver[i]
    <3>1. g \in Seq(Key) /\ u \in Seq(Key) /\ driver \in Seq(Key)
      BY <2>2, <2>3, <2>5
    <3> HIDE DEF g, u
    <3> QED
      BY <3>1, ConcatThree
  <2>8. s + k + l + n = m /\ l \in Nat
    <3> DEFINE h == Len(b)
    <3>1. /\ c <= h /\ l = (IF c <= h THEN h - c ELSE 0) /\ s + k + h + n = m + c
          /\ c \in Nat /\ h \in Nat /\ s \in Nat /\ k \in Nat /\ n \in Nat /\ m \in Nat
      BY <2>2, <2>3, <2>4, <2>5
    <3> HIDE DEF g, b, c, s, u, n, m, k, l, h
    <3>2. l = h - c /\ h - c \in Nat
      BY <3>1
    <3> QED
      BY <3>1, <3>2
  <2>9. w \in Seq(Key) /\ Len(w) = k + l + n /\ \A i \in 1 .. k + l + n : w[i] = accepted[s + i]
    <3> DEFINE lo == s + 1
    <3>8. s \in Nat /\ m \in Nat /\ n \in Nat /\ k \in Nat /\ l \in Nat /\ s + k + l + n = m
      BY <2>3, <2>5, <2>8
    <3>1. lo \in Int /\ m \in Int /\ lo - 1 = s /\ m - lo + 1 = k + l + n /\ lo \in Nat \ {0}
      <4> HIDE DEF s, m, n, k, l
      <4> QED
        BY <3>8
    <3>2. \A i \in lo .. m : accepted[i] \in Key
      BY <2>5, <3>1
    <3> HIDE DEF lo, m
    <3>3. /\ SubSeq(accepted, lo, m) \in Seq(Key)
          /\ Len(SubSeq(accepted, lo, m)) = IF lo <= m THEN m - lo + 1 ELSE 0
          /\ \A i \in 1 .. m - lo + 1 : SubSeq(accepted, lo, m)[i] = accepted[lo + i - 1]
      BY <3>1, <3>2, SubSeqProperties
    <3> HIDE DEF k, l, n, s
    <3>4. k \in Nat /\ l \in Nat /\ n \in Nat /\ s \in Nat /\ m \in Nat
      BY <2>3, <2>5, <2>8
    <3>5. \A i \in 1 .. k + l + n : lo + i - 1 = s + i
      BY <3>1, <3>4
    <3>6. Len(SubSeq(accepted, lo, m)) = k + l + n
      BY <3>1, <3>3, <3>4
    <3>7. w = SubSeq(accepted, lo, m)
      BY DEF lo
    <3> HIDE DEF w
    <3> QED
      BY <3>1, <3>3, <3>5, <3>6, <3>7
  <2> HIDE DEF g, b, c, s, u, n, m, k, l, w, v
  <2>10. \A i \in 1 .. k : v[i] = accepted[s + i]
    BY <2>4, <2>7
  <2>11. \A i \in 1 .. l : v[k + i] = accepted[s + (k + i)]
    <3>1. l = Len(u)
      BY DEF l
    <3>2. \A i \in 1 .. l : c + i > c /\ s + k + (c + i) - c = s + (k + i)
      BY <2>3, <2>8
    <3> QED
      BY <2>2, <2>4, <2>7, <3>1, <3>2
  <2>12. \A i \in 1 .. n : v[k + l + i] = accepted[s + (k + l + i)]
    <3>1. \A i \in 1 .. n : m - n + i = s + (k + l + i)
      BY <2>3, <2>5, <2>8
    <3> QED
      BY <2>6, <2>7, <3>1
  <2>13. \A i \in 1 .. k + l + n : v[i] = accepted[s + i]
    <3> TAKE i \in 1 .. k + l + n
    <3>1. CASE i <= k
      <4>1. i \in 1 .. k
        BY <2>3, <2>5, <2>8, <3>1
      <4> QED
        BY <2>10, <4>1
    <3>2. CASE i > k /\ i <= k + l
      <4>1. i - k \in 1 .. l /\ k + (i - k) = i
        BY <2>3, <2>5, <2>8, <3>2
      <4> QED
        BY <2>11, <4>1
    <3>3. CASE i > k + l
      <4>1. i - (k + l) \in 1 .. n /\ k + l + (i - (k + l)) = i
        BY <2>3, <2>5, <2>8, <3>3
      <4> QED
        BY <2>12, <4>1
    <3>4. k \in Nat /\ l \in Nat /\ n \in Nat
      BY <2>3, <2>5, <2>8
    <3>5. i <= k \/ (i > k /\ i <= k + l) \/ i > k + l
      BY <3>4
    <3> QED
      BY <3>1, <3>2, <3>3, <3>5
  <2>14. v = w
    <3>1. Len(v) = Len(w) /\ \A i \in 1 .. Len(v) : v[i] = w[i]
      BY <2>7, <2>9, <2>13
    <3> QED
      BY <2>7, <2>9, <3>1, SeqEqual
  <2> QED
    BY <2>14 DEF v, w, g, u, s, m
<1> QED
  BY <1>1, KeysInvariant, PTL

\* Every valid listener is the only one of an app that is still on the stack, and
\* every app that listens has one.
THEOREM ListenersAreLive == Spec => []SlotsAreLive
<1>1. SInv => SlotsAreLive
  <2> SUFFICES ASSUME SInv, Running PROVE
        /\ \A i \in DOMAIN listeners : listeners[i].valid => listeners[i].frame \in 1 .. Listening
        /\ \A d \in 1 .. Listening : Hears(d)
        /\ \A i, j \in DOMAIN listeners :
             listeners[i].valid /\ listeners[j].valid /\ listeners[i].frame = listeners[j].frame
               => i = j
    BY DEF SlotsAreLive, Running
  <2>1. \A i \in DOMAIN listeners : listeners[i].valid => i \in 1 .. Listening /\ listeners[i].frame = i
    <3>1. DOMAIN listeners = 1 .. Len(listeners) /\ Listening \in Nat
      BY DEF SInv, TypeOK, Listening
    <3> QED
      BY <3>1 DEF SInv, SlotsFollowStack
  <2>2. \A d \in 1 .. Listening : Hears(d)
    BY AllHear
  <2> HIDE DEF Listening
  <2> QED
    BY <2>1, <2>2
<1> QED
  BY <1>1, SlotsInvariant, PTL

\* No step changes the slot of another app.
THEOREM OnlyOwnSlots == Spec => OwnSlotOnly
<1> DEFINE Own == \A i \in DOMAIN listeners :
                    listeners'[i] # listeners[i] =>
                      \/ pc = "request" /\ listeners'[i].frame = Len(stack) /\ ~listeners[i].valid
                      \/ pc = "exit" /\ listeners[i].valid /\ listeners[i].frame = Len(stack)
<1>1. SInv /\ [Next]_vars => [Own]_vars
  <2> SUFFICES ASSUME SInv, Next PROVE Own
    BY Zenon
  <2>1. CASE UNCHANGED listeners
    BY <2>1
  <2>2. CASE RequestInputEvents /\ listeners' # listeners
    <3> DEFINE new == [frame |-> Len(stack), valid |-> TRUE]
               free == {i \in DOMAIN listeners : ~listeners[i].valid}
    <3>1. /\ pc = "request"
          /\ listeners' = IF free = {} THEN Append(listeners, new)
                          ELSE [i \in DOMAIN listeners |->
                                  IF i \in free /\ \A j \in free : i <= j
                                  THEN new ELSE listeners[i]]
      BY <2>2 DEF RequestInputEvents
    <3>2. listeners \in Seq(Listener)
      BY DEF SInv, TypeOK
    <3>3. new.frame = Len(stack)
      OBVIOUS
    <3> HIDE DEF new
    <3>4. ASSUME NEW i \in DOMAIN listeners, listeners'[i] # listeners[i]
          PROVE  listeners'[i] = new /\ i \in free
      <4>1. CASE free = {}
        BY <3>1, <3>2, <3>4, <4>1
      <4>2. CASE free # {}
        <5> HIDE DEF free
        <5> QED
          BY <3>1, <3>4, <4>2
      <4> QED
        BY <4>1, <4>2
    <3> QED
      BY <3>1, <3>3, <3>4
  <2>3. CASE RemoveInputEvents
    <3>1. /\ Len(stack) \in 1 .. Len(listeners)
          /\ listeners' = [i \in 1 .. Len(listeners) |->
                             IF i = Len(stack) THEN [listeners[i] EXCEPT !.valid = FALSE]
                                               ELSE listeners[i]]
      BY <2>3, RemoveInputEventsEffect
    <3>2. pc = "exit" /\ Running /\ listeners \in Seq(Listener) /\ Len(stack) \in Nat
      BY <2>3 DEF RemoveInputEvents, SInv, TypeOK, Running
    <3>3. listeners[Len(stack)].valid /\ listeners[Len(stack)].frame = Len(stack)
      BY <3>1, <3>2 DEF SInv, SlotsFollowStack, Listening
    <3>4. DOMAIN listeners = 1 .. Len(listeners)
      BY <3>2
    <3>5. \A i \in DOMAIN listeners : listeners'[i] # listeners[i] => i = Len(stack)
      BY <3>1, <3>4
    <3> QED
      BY <3>2, <3>3, <3>5
  <2> QED
    BY <2>1, <2>2, <2>3 DEF Next, Interrupt, Run, KeyPress, OtherInterrupt, Yield, GetNoKey,
       GetKey, HandleKey, RunApp, Quit
<1> QED
  BY <1>1, SlotsInvariant, PTL DEF Spec, OwnSlotOnly

\* The closed form of what a hand-over leaves in a buffer, on which the two theorems
\* above rest, is what the calls of __kapp_keypress_callback one after the other leave.
THEOREM BatchIsOneByOne == Spec => []DeliveredOneByOne
<1>1. TypeOK => DeliveredOneByOne
  <2> SUFFICES ASSUME TypeOK, NEW d \in DOMAIN stack
               PROVE  Delivered(stack[d].buff, driver) = OneByOne(stack[d].buff, driver)
    BY DEF DeliveredOneByOne
  <2>1. d \in 1 .. Len(stack) /\ driver \in Seq(Key)
    BY DEF TypeOK
  <2>2. stack[d].buff \in Seq(Key) /\ Len(stack[d].buff) <= BuffSize
    BY <2>1, AppTypes
  <2> QED
    BY <2>1, <2>2, OneByOneIsDelivered
<1> QED
  BY <1>1, TypeCorrect, PTL
=============================================================================
