--------------------------- MODULE LimiterProofs ----------------------------
(***************************************************************************)
(* The rate limiter keeps the budgets TokenBuckets promises, whatever the  *)
(* keys, the limit, the size of its table and the way the clock moves.     *)
(***************************************************************************)
EXTENDS RateLimiter, FiniteSetTheorems, SequenceTheorems, TLAPS

USE LimiterAssumption
-----------------------------------------------------------------------------
(* The sweep.                                                              *)

\* A nonempty set of naturals has a least element.
LEMMA Least ==
  ASSUME NEW S \in SUBSET Nat, S # {}
  PROVE  \E m \in S : \A j \in S : m <= j
<1> DEFINE segments == {1..i : i \in S}
<1>1. segments \subseteq FiniteSubsetsOf(Nat) /\ segments # {}
  <2>1. \A i \in S : 1..i \in SUBSET Nat /\ IsFiniteSet(1..i)
    BY FS_Interval
  <2> QED
    BY <2>1 DEF FiniteSubsetsOf
<1>2. PICK least \in segments : \A other \in segments : ~(<<other, least>> \in StrictSubsetOrdering(Nat))
  BY <1>1, FS_StrictSubsetOrderingWellFounded, WFMin
<1>3. PICK m \in S : least = 1..m
  OBVIOUS
<1>4. ASSUME NEW j \in S, j < m
      PROVE  FALSE
  <2>1. m \in 1..m /\ m \notin 1..j /\ 1..j \subseteq 1..m
    BY <1>4
  <2>2. 1..j \in SUBSET Nat /\ 1..m \in SUBSET Nat /\ 1..j \in segments
    OBVIOUS
  <2> DEFINE pair == <<1..j, 1..m>>
  <2>3. pair \in (SUBSET Nat) \X (SUBSET Nat) /\ pair[1] = 1..j /\ pair[2] = 1..m
    BY <2>2
  <2>4. pair \in StrictSubsetOrdering(Nat)
    BY <2>1, <2>3 DEF StrictSubsetOrdering
  <2> QED
    BY <1>2, <1>3, <2>2, <2>4
<1> QED
  BY <1>4

\* What the sweep leaves is the end of the table, and what it took was stale.
LEMMA SweptIsAnEnd ==
  ASSUME TypeOK
  PROVE  \E m \in 1..Len(buckets) + 1 :
           /\ Swept = SubSeq(buckets, m, Len(buckets))
           /\ \A i \in 1..m - 1 : Stale(buckets[i])
           /\ m <= Len(buckets) => ~Stale(buckets[m])
<1> DEFINE fresh == {i \in DOMAIN buckets : ~Stale(buckets[i])}
<1>1. Len(buckets) \in Nat /\ DOMAIN buckets = 1..Len(buckets) /\ buckets \in Seq(Bucket)
  BY LenProperties DEF TypeOK
<1>2. CASE fresh = {}
  <2>1. Swept = <<>> /\ SubSeq(buckets, Len(buckets) + 1, Len(buckets)) = <<>>
    BY <1>1, <1>2, SubSeqEmpty DEF Swept
  <2>2. \A i \in 1..Len(buckets) : Stale(buckets[i])
    BY <1>1, <1>2
  <2> DEFINE m == Len(buckets) + 1
  <2>3. m \in 1..Len(buckets) + 1 /\ m - 1 = Len(buckets) /\ ~(m <= Len(buckets))
    BY <1>1
  <2> HIDE DEF m
  <2>4. Swept = SubSeq(buckets, m, Len(buckets))
    BY <2>1 DEF m
  <2> QED
    BY <2>2, <2>3, <2>4
<1>3. CASE fresh # {}
  <2>1. fresh \in SUBSET Nat
    BY <1>1
  <2>2. \E i \in fresh : \A j \in fresh : i <= j
    BY <1>3, <2>1, Least
  <2> DEFINE m == CHOOSE i \in fresh : \A j \in fresh : i <= j
  <2>3. m \in fresh /\ \A j \in fresh : m <= j
    BY <2>2
  <2>4. Swept = SubSeq(buckets, m, Len(buckets))
    BY <1>3 DEF Swept
  <2> HIDE DEF m
  <2>5. \A i \in 1..m - 1 : Stale(buckets[i])
    BY <1>1, <2>3
  <2> QED
    BY <1>1, <2>3, <2>4, <2>5
<1> QED
  BY <1>2, <1>3
-----------------------------------------------------------------------------
(* Tables of buckets.                                                      *)

Distinct(bs) == \A i, j \in DOMAIN bs : bs[i].key = bs[j].key => i = j

\* Least recently used first, and no bucket used later than now.
Ordered(bs) ==
  /\ \A i, j \in DOMAIN bs : i <= j => bs[i].updated <= bs[j].updated
  /\ \A i \in DOMAIN bs : bs[i].updated <= now

LEMMA Products ==
  /\ \A a, b \in Nat : a * b \in Nat
  /\ \A a, b, c \in Nat : b <= c => a * b <= a * c
  /\ \A a, b, c \in Int : a * (b + c) = a * b + a * c
<1>1. \A a, b \in Nat : a * b \in Nat
  OBVIOUS
<1>2. \A a, b, c \in Int : a * (b + c) = a * b + a * c
  OBVIOUS
<1>3. ASSUME NEW a \in Nat, NEW b \in Nat, NEW c \in Nat, b <= c
      PROVE  a * b <= a * c
  <2>1. c - b \in Nat /\ c = b + (c - b)
    BY <1>3
  <2>2. a * c = a * b + a * (c - b)
    BY <1>2, <2>1
  <2>3. a * b \in Nat /\ a * (c - b) \in Nat
    BY <1>1, <2>1
  <2> QED
    BY <2>2, <2>3
<1> QED
  BY <1>1, <1>2, <1>3

LEMMA FullIsNat == Full \in Nat /\ Limit \in Nat /\ Window \in Nat /\ Full >= Window
<1>1. Limit \in Nat /\ Window \in Nat /\ Limit >= 1
  OBVIOUS
<1>2. Window * 1 <= Window * Limit /\ Window * Limit = Limit * Window
  BY <1>1, Products
<1> QED
  BY <1>1, <1>2, Products DEF Full

\* What a bucket earned since it was used last.
Gained(b) == IF now > b.updated THEN Limit * (now - b.updated) ELSE 0

\* A bucket holds no more than the limit, and one that is stale is full.
LEMMA BucketIsBounded ==
  ASSUME now \in Int, NEW b \in Bucket
  PROVE  /\ Gained(b) \in Nat /\ Refilled(b) \in 0..Full
         /\ Refilled(b) = IF b.tokens + Gained(b) < Full THEN b.tokens + Gained(b) ELSE Full
         /\ Stale(b) => Refilled(b) = Full
<1>1. b.tokens \in 0..Full /\ b.updated \in Int /\ Full \in Nat
  BY FullIsNat DEF Bucket
<1>2. Gained(b) \in Nat
  BY <1>1, Products, FullIsNat DEF Gained
<1>3. Refilled(b) = IF b.tokens + Gained(b) < Full THEN b.tokens + Gained(b) ELSE Full
  BY DEF Refilled, Gained
<1>4. ASSUME Stale(b)
      PROVE  Gained(b) >= Full
  <2>1. now - b.updated \in Nat /\ Window <= now - b.updated /\ now > b.updated
    BY <1>1, <1>4, FullIsNat DEF Stale
  <2>2. Limit * Window <= Limit * (now - b.updated)
    BY <2>1, FullIsNat, Products
  <2> QED
    BY <2>1, <2>2 DEF Gained, Full
<1> QED
  BY <1>1, <1>2, <1>3, <1>4

\* A key's level is that of its bucket.
LEMMA LevelOfBucket ==
  ASSUME NEW bs, Distinct(bs), NEW i \in DOMAIN bs, NEW k, bs[i].key = k
  PROVE  Places(bs, k) = {i} /\ Level(bs, k) = Refilled(bs[i])
<1>1. Places(bs, k) = {i}
  BY DEF Places, Distinct
<1> QED
  BY <1>1 DEF Level

\* Or the whole budget, if it has none.
LEMMA LevelOfNobody ==
  ASSUME NEW bs, NEW k, \A i \in DOMAIN bs : bs[i].key # k
  PROVE  Places(bs, k) = {} /\ Level(bs, k) = Full
  BY DEF Places, Level

\* A bucket was last used at some time.
LEMMA BucketsAreDated ==
  ASSUME NEW bs \in Seq(Bucket)
  PROVE  \A i \in DOMAIN bs : bs[i].updated \in Int
<1>1. \A i \in DOMAIN bs : bs[i] \in Bucket
  BY ElementOfSeq, LenProperties
<1>2. \A b \in Bucket : b.updated \in Int
  BY DEF Bucket
<1> QED
  BY <1>1, <1>2

\* The sweep changes nobody's level.
LEMMA SweepIsFree ==
  ASSUME TypeOK
  PROVE  /\ Swept \in Seq(Bucket) /\ Len(Swept) <= Len(buckets) /\ Distinct(Swept)
         /\ \A k \in Keys : Level(Swept, k) = Level(buckets, k)
         /\ Ordered(buckets) => Ordered(Swept) /\ \A i \in DOMAIN Swept : ~Stale(Swept[i])
<1>1. Len(buckets) \in Nat /\ DOMAIN buckets = 1..Len(buckets) /\ buckets \in Seq(Bucket) /\ Distinct(buckets)
      /\ now \in Int /\ \A i \in 1..Len(buckets) : buckets[i] \in Bucket
  BY LenProperties, ElementOfSeq DEF TypeOK, Distinct
<1>2. PICK m \in 1..Len(buckets) + 1 :
        /\ Swept = SubSeq(buckets, m, Len(buckets))
        /\ \A i \in 1..m - 1 : Stale(buckets[i])
        /\ m <= Len(buckets) => ~Stale(buckets[m])
  BY SweptIsAnEnd
<1>3. /\ Swept \in Seq(Bucket) /\ Len(Swept) = Len(buckets) - m + 1
      /\ \A i \in 1..Len(buckets) - m + 1 : Swept[i] = buckets[m + i - 1]
  BY <1>1, <1>2, SubSeqProperties
<1>4. m \in Int /\ \A i \in DOMAIN Swept : i \in Int /\ m + i - 1 \in DOMAIN buckets /\ m + i - 1 >= m /\ Swept[i] = buckets[m + i - 1]
  <2>1. DOMAIN Swept = 1..Len(buckets) - m + 1
    BY <1>3, LenProperties
  <2>2. Len(buckets) \in Nat /\ DOMAIN buckets = 1..Len(buckets)
    BY <1>1
  <2>3. ASSUME NEW i \in 1..Len(buckets) - m + 1
        PROVE  i \in Int /\ m + i - 1 \in 1..Len(buckets) /\ m + i - 1 >= m
    BY <2>2
  <2>4. \A i \in 1..Len(buckets) - m + 1 : Swept[i] = buckets[m + i - 1]
    BY <1>3
  <2> QED
    BY <2>1, <2>2, <2>3, <2>4
<1>5. Distinct(Swept)
  <2> SUFFICES ASSUME NEW i \in DOMAIN Swept, NEW j \in DOMAIN Swept, Swept[i].key = Swept[j].key PROVE i = j
    BY DEF Distinct
  <2>1. m + i - 1 = m + j - 1
    BY <1>1, <1>4 DEF Distinct
  <2> QED
    BY <1>4, <2>1
<1>6. ASSUME NEW k \in Keys
      PROVE  Level(Swept, k) = Level(buckets, k)
  <2>1. CASE \A i \in DOMAIN buckets : buckets[i].key # k
    <3>1. \A i \in DOMAIN Swept : Swept[i].key # k
      BY <1>4, <2>1
    <3> QED
      BY <2>1, <3>1, LevelOfNobody
  <2>2. ASSUME NEW p \in DOMAIN buckets, buckets[p].key = k, p >= m
        PROVE  Level(Swept, k) = Level(buckets, k)
    <3> DEFINE q == p - m + 1
    <3>1. p \in 1..Len(buckets) /\ q \in 1..Len(buckets) - m + 1 /\ m + q - 1 = p
      BY <1>1, <2>2
    <3>2. q \in DOMAIN Swept /\ Swept[q] = buckets[p]
      BY <1>3, <3>1, LenProperties
    <3> HIDE DEF q
    <3> QED
      BY <1>1, <1>5, <2>2, <3>2, LevelOfBucket
  <2>3. ASSUME NEW p \in DOMAIN buckets, buckets[p].key = k, p < m
        PROVE  Level(Swept, k) = Level(buckets, k)
    <3>1. \A i \in DOMAIN Swept : Swept[i].key # k
      BY <1>1, <1>4, <2>3 DEF Distinct
    <3>2. Refilled(buckets[p]) = Full
      BY <1>1, <1>2, <2>3, BucketIsBounded
    <3> QED
      BY <1>1, <2>3, <3>1, <3>2, LevelOfBucket, LevelOfNobody
  <2> QED
    BY <1>1, <2>1, <2>2, <2>3
<1>7. ASSUME Ordered(buckets)
      PROVE  Ordered(Swept) /\ \A i \in DOMAIN Swept : ~Stale(Swept[i])
  <2>1. Ordered(Swept)
    <3>1. ASSUME NEW i \in DOMAIN Swept, NEW j \in DOMAIN Swept, i <= j
          PROVE  Swept[i].updated <= Swept[j].updated
      <4>1. /\ m + i - 1 \in DOMAIN buckets /\ Swept[i] = buckets[m + i - 1]
            /\ m + j - 1 \in DOMAIN buckets /\ Swept[j] = buckets[m + j - 1]
        BY <1>4
      <4>2. m + i - 1 <= m + j - 1
        BY <1>4, <3>1
      <4> QED
        BY <1>7, <4>1, <4>2 DEF Ordered
    <3>2. \A i \in DOMAIN Swept : Swept[i].updated <= now
      BY <1>4, <1>7 DEF Ordered
    <3> QED
      BY <3>1, <3>2 DEF Ordered
  <2>2. ASSUME NEW i \in DOMAIN Swept
        PROVE  ~Stale(Swept[i])
    <3>1. m <= Len(buckets) /\ m \in DOMAIN buckets
      BY <1>1, <1>4
    <3>2. ~Stale(buckets[m]) /\ buckets[m].updated <= Swept[i].updated
      BY <1>2, <1>4, <1>7, <3>1 DEF Ordered
    <3>3. buckets[m].updated \in Int /\ Swept[i].updated \in Int
      BY <1>1, <1>3, <3>1, BucketsAreDated
    <3> QED
      BY <1>1, <3>2, <3>3, FullIsNat DEF Stale
  <2> QED
    BY <2>1, <2>2
<1> QED
  BY <1>1, <1>3, <1>5, <1>6, <1>7

\* A key's bucket leaves the table, and nobody else's does.
LEMMA OthersStay ==
  ASSUME NEW bs \in Seq(Bucket), Distinct(bs), NEW k \in Keys
  PROVE  /\ Others(bs, k) \in Seq(Bucket) /\ Distinct(Others(bs, k))
         /\ Len(Others(bs, k)) = IF Places(bs, k) = {} THEN Len(bs) ELSE Len(bs) - 1
         /\ \A i \in DOMAIN Others(bs, k) : Others(bs, k)[i].key # k
         /\ \A j \in Keys : j # k => Level(Others(bs, k), j) = Level(bs, j)
         /\ Ordered(bs) => Ordered(Others(bs, k))
         /\ \A i \in DOMAIN Others(bs, k) : \E q \in DOMAIN bs : Others(bs, k)[i] = bs[q]
<1>1. Len(bs) \in Nat /\ DOMAIN bs = 1..Len(bs) /\ \A i \in 1..Len(bs) : bs[i] \in Bucket
  BY LenProperties, ElementOfSeq
<1>2. CASE Places(bs, k) = {}
  BY <1>2 DEF Others, Places
<1>3. CASE Places(bs, k) # {}
  <2> DEFINE p == CHOOSE i \in Places(bs, k) : TRUE
             o == Others(bs, k)
  <2>1. p \in Places(bs, k) /\ o = SubSeq(bs, 1, p - 1) \o SubSeq(bs, p + 1, Len(bs))
    BY <1>3 DEF Others, RemoveAt
  <2> HIDE DEF p, o
  <2>2. p \in 1..Len(bs) /\ bs[p].key = k
    BY <1>1, <2>1 DEF Places
  <2>3. /\ SubSeq(bs, 1, p - 1) \in Seq(Bucket) /\ Len(SubSeq(bs, 1, p - 1)) = p - 1
        /\ \A i \in 1..p - 1 : SubSeq(bs, 1, p - 1)[i] = bs[i]
    <3>1. \A i \in 1..p - 1 : bs[i] \in Bucket
      BY <1>1, <2>2
    <3> QED
      BY <2>2, <3>1, SubSeqProperties
  <2>4. /\ SubSeq(bs, p + 1, Len(bs)) \in Seq(Bucket) /\ Len(SubSeq(bs, p + 1, Len(bs))) = Len(bs) - p
        /\ \A i \in 1..Len(bs) - p : SubSeq(bs, p + 1, Len(bs))[i] = bs[p + i]
    <3>1. \A i \in p + 1..Len(bs) : bs[i] \in Bucket
      BY <1>1, <2>2
    <3>2. p + 1 \in Int /\ Len(bs) \in Int
      BY <1>1, <2>2
    <3>3. /\ SubSeq(bs, p + 1, Len(bs)) \in Seq(Bucket)
          /\ Len(SubSeq(bs, p + 1, Len(bs))) = IF p + 1 <= Len(bs) THEN Len(bs) - (p + 1) + 1 ELSE 0
          /\ \A i \in 1..Len(bs) - (p + 1) + 1 : SubSeq(bs, p + 1, Len(bs))[i] = bs[(p + 1) + i - 1]
      BY <3>1, <3>2, SubSeqProperties
    <3>4. /\ Len(bs) - (p + 1) + 1 = Len(bs) - p
          /\ (IF p + 1 <= Len(bs) THEN Len(bs) - p ELSE 0) = Len(bs) - p
      <4> DEFINE n == Len(bs)
      <4>1. n \in Nat /\ p \in Nat /\ p <= n
        BY <1>1, <2>2
      <4> HIDE DEF n
      <4>2. n - (p + 1) + 1 = n - p /\ (IF p + 1 <= n THEN n - p ELSE 0) = n - p
        BY <4>1
      <4> QED
        BY <4>2 DEF n
    <3>5. ASSUME NEW i \in 1..Len(bs) - p
          PROVE  SubSeq(bs, p + 1, Len(bs))[i] = bs[p + i]
      <4>1. (p + 1) + i - 1 = p + i
        BY <1>1, <2>2
      <4>2. SubSeq(bs, p + 1, Len(bs))[i] = bs[(p + 1) + i - 1]
        BY <3>3, <3>4
      <4> QED
        BY <4>1, <4>2
    <3> QED
      BY <3>3, <3>4, <3>5
  <2>5. /\ o \in Seq(Bucket) /\ Len(o) = (p - 1) + (Len(bs) - p)
        /\ \A i \in 1..(p - 1) + (Len(bs) - p) :
             o[i] = IF i <= p - 1 THEN SubSeq(bs, 1, p - 1)[i] ELSE SubSeq(bs, p + 1, Len(bs))[i - (p - 1)]
    <3> DEFINE a == SubSeq(bs, 1, p - 1)
               b == SubSeq(bs, p + 1, Len(bs))
    <3>1. /\ a \in Seq(Bucket) /\ Len(a) = p - 1 /\ b \in Seq(Bucket) /\ Len(b) = Len(bs) - p
          /\ o = a \o b
      BY <2>1, <2>3, <2>4
    <3> HIDE DEF a, b
    <3>2. /\ a \o b \in Seq(Bucket) /\ Len(a \o b) = Len(a) + Len(b)
          /\ \A i \in 1..Len(a) + Len(b) : (a \o b)[i] = IF i <= Len(a) THEN a[i] ELSE b[i - Len(a)]
      BY <3>1, ConcatProperties
    <3>3. /\ o \in Seq(Bucket) /\ Len(o) = (p - 1) + (Len(bs) - p)
          /\ \A i \in 1..(p - 1) + (Len(bs) - p) : o[i] = IF i <= p - 1 THEN a[i] ELSE b[i - (p - 1)]
      BY <3>1, <3>2
    <3> QED
      BY <3>3 DEF a, b
  <2>6. Len(o) = Len(bs) - 1 /\ DOMAIN o = 1..Len(bs) - 1
    BY <1>1, <2>2, <2>5, LenProperties
  <2>7. \A i \in DOMAIN o : o[i] = IF i < p THEN bs[i] ELSE bs[i + 1]
    <3> SUFFICES ASSUME NEW i \in DOMAIN o PROVE o[i] = IF i < p THEN bs[i] ELSE bs[i + 1]
      OBVIOUS
    <3>1. CASE i < p
      BY <1>1, <2>2, <2>3, <2>5, <2>6, <3>1
    <3>2. CASE ~(i < p)
      <4>1. i - (p - 1) \in 1..Len(bs) - p /\ p + (i - (p - 1)) = i + 1 /\ ~(i <= p - 1)
        BY <1>1, <2>2, <2>6, <3>2
      <4>2. SubSeq(bs, p + 1, Len(bs))[i - (p - 1)] = bs[p + (i - (p - 1))]
        BY <2>4, <4>1
      <4> QED
        BY <1>1, <2>2, <2>5, <2>6, <3>2, <4>1, <4>2
    <3> QED
      BY <3>1, <3>2
  <2>8. \A i \in DOMAIN o : \E q \in DOMAIN bs : q # p /\ o[i] = bs[q] /\ q = IF i < p THEN i ELSE i + 1
    BY <1>1, <2>2, <2>6, <2>7
  <2>9. \A i \in DOMAIN o : o[i].key # k
    BY <1>1, <2>2, <2>8 DEF Distinct
  <2>10. Distinct(o)
    <3> SUFFICES ASSUME NEW i \in DOMAIN o, NEW j \in DOMAIN o, o[i].key = o[j].key PROVE i = j
      BY DEF Distinct
    <3>1. (IF i < p THEN i ELSE i + 1) = (IF j < p THEN j ELSE j + 1)
      BY <2>8 DEF Distinct
    <3> QED
      BY <2>2, <2>6, <3>1
  <2>11. ASSUME NEW j \in Keys, j # k
         PROVE  Level(o, j) = Level(bs, j)
    <3>1. CASE \A i \in DOMAIN bs : bs[i].key # j
      <4>1. \A i \in DOMAIN o : o[i].key # j
        BY <2>8, <3>1
      <4> QED
        BY <3>1, <4>1, LevelOfNobody
    <3>2. ASSUME NEW q \in DOMAIN bs, bs[q].key = j
          PROVE  Level(o, j) = Level(bs, j)
      <4> DEFINE i == IF q < p THEN q ELSE q - 1
      <4>1. q # p
        BY <2>2, <2>11, <3>2
      <4>2. i \in DOMAIN o /\ o[i] = bs[q]
        BY <1>1, <2>2, <2>6, <2>7, <4>1
      <4> HIDE DEF i
      <4> QED
        BY <2>10, <3>2, <4>2, LevelOfBucket
    <3> QED
      BY <3>1, <3>2
  <2>12. Ordered(bs) => Ordered(o)
    <3> SUFFICES ASSUME Ordered(bs) PROVE Ordered(o)
      OBVIOUS
    <3>1. ASSUME NEW i \in DOMAIN o, NEW j \in DOMAIN o, i <= j
          PROVE  o[i].updated <= o[j].updated
      <4>1. PICK q \in DOMAIN bs : o[i] = bs[q] /\ q = IF i < p THEN i ELSE i + 1
        BY <2>8
      <4>2. PICK r \in DOMAIN bs : o[j] = bs[r] /\ r = IF j < p THEN j ELSE j + 1
        BY <2>8
      <4>3. q <= r
        BY <2>2, <2>6, <3>1, <4>1, <4>2
      <4> QED
        BY <4>1, <4>2, <4>3 DEF Ordered
    <3>2. \A i \in DOMAIN o : o[i].updated <= now
      BY <2>8 DEF Ordered
    <3> QED
      BY <3>1, <3>2 DEF Ordered
  <2> QED
    BY <1>3, <2>5, <2>6, <2>8, <2>9, <2>10, <2>11, <2>12 DEF o
<1> QED
  BY <1>2, <1>3

\* A bucket is written back with what it may still spend; nobody else's level changes.
LEMMA StoreSetsLevel ==
  ASSUME TypeOK, NEW k \in Keys, ~Crowded(k), NEW tokens \in 0..Full
  PROVE  /\ Store(k, tokens) \in Seq(Bucket) /\ Distinct(Store(k, tokens)) /\ Len(Store(k, tokens)) <= MaxKeys
         /\ Level(Store(k, tokens), k) = tokens
         /\ \A j \in Keys : j # k => Level(Store(k, tokens), j) = Level(buckets, j)
         /\ Ordered(buckets) => /\ Ordered(Store(k, tokens))
                                /\ \A i \in DOMAIN Store(k, tokens) : ~Stale(Store(k, tokens)[i])
<1> DEFINE used == [key |-> k, tokens |-> tokens, updated |-> now]
           o == Others(Swept, k)
           s == Store(k, tokens)
<1>1. used \in Bucket /\ used.key = k /\ used.tokens = tokens /\ used.updated = now /\ now \in Int
  BY DEF TypeOK, Bucket
<1>2. /\ o \in Seq(Bucket) /\ Distinct(o) /\ Len(o) < MaxKeys
      /\ \A i \in DOMAIN o : o[i].key # k
      /\ \A j \in Keys : j # k => Level(o, j) = Level(buckets, j)
  <2>1. Len(Swept) \in Nat /\ Len(Swept) <= MaxKeys /\ (Places(Swept, k) = {} => Len(Swept) < MaxKeys)
    BY SweepIsFree, LenProperties DEF TypeOK, Crowded
  <2> QED
    BY <2>1, SweepIsFree, OthersStay
<1>3. s = Append(o, used)
  BY DEF Store
<1> HIDE DEF used, o, s
<1>4. /\ s \in Seq(Bucket) /\ Len(s) = Len(o) + 1 /\ s[Len(o) + 1] = used
      /\ \A i \in 1..Len(o) : s[i] = o[i]
  BY <1>1, <1>2, <1>3, AppendProperties
<1>5. Len(o) \in Nat /\ DOMAIN o = 1..Len(o) /\ DOMAIN s = 1..Len(o) + 1
  BY <1>2, <1>4, LenProperties
<1>6. \A i \in DOMAIN s : (i \in DOMAIN o /\ s[i] = o[i]) \/ (i = Len(o) + 1 /\ s[i] = used)
  BY <1>4, <1>5
<1>7. Distinct(s)
  BY <1>1, <1>2, <1>6 DEF Distinct
<1>8. Level(s, k) = tokens
  <2>1. Level(s, k) = Refilled(used)
    BY <1>1, <1>4, <1>5, <1>7, LevelOfBucket
  <2>2. Gained(used) = 0 /\ Full \in Nat
    BY <1>1, FullIsNat DEF Gained
  <2>3. Refilled(used) = IF tokens + 0 < Full THEN tokens + 0 ELSE Full
    BY <1>1, <2>2, BucketIsBounded
  <2> QED
    BY <2>1, <2>2, <2>3
<1>9. ASSUME NEW j \in Keys, j # k
      PROVE  Level(s, j) = Level(buckets, j)
  <2>1. CASE \A i \in DOMAIN o : o[i].key # j
    <3>1. \A i \in DOMAIN s : s[i].key # j
      BY <1>1, <1>6, <1>9, <2>1
    <3> QED
      BY <1>2, <1>9, <2>1, <3>1, LevelOfNobody
  <2>2. ASSUME NEW i \in DOMAIN o, o[i].key = j
        PROVE  Level(s, j) = Level(buckets, j)
    <3>1. i \in DOMAIN s /\ s[i] = o[i]
      BY <1>4, <1>5
    <3> QED
      BY <1>2, <1>7, <1>9, <2>2, <3>1, LevelOfBucket
  <2> QED
    BY <2>1, <2>2
<1>10. Len(s) <= MaxKeys
  BY <1>2, <1>4, <1>5
<1>11. ASSUME Ordered(buckets)
       PROVE  Ordered(s) /\ \A i \in DOMAIN s : ~Stale(s[i])
  <2>1. Ordered(Swept) /\ \A i \in DOMAIN Swept : ~Stale(Swept[i])
    BY <1>11, SweepIsFree
  <2>2. Ordered(o) /\ \A i \in DOMAIN o : ~Stale(o[i])
    BY <2>1, SweepIsFree, OthersStay DEF o
  <2>3. used.updated <= now /\ ~Stale(used)
    BY <1>1, FullIsNat DEF Stale
  <2>4. Ordered(s)
    BY <1>1, <1>5, <1>6, <2>2, <2>3 DEF Ordered
  <2> QED
    BY <1>6, <2>2, <2>3, <2>4
<1> QED
  BY <1>4, <1>7, <1>8, <1>9, <1>10, <1>11 DEF s

LEMMA LevelIsBounded ==
  ASSUME TypeOK, NEW k \in Keys
  PROVE  Level(buckets, k) \in 0..Full
<1>1. DOMAIN buckets = 1..Len(buckets) /\ Distinct(buckets) /\ now \in Int /\ \A i \in DOMAIN buckets : buckets[i] \in Bucket
  BY LenProperties, ElementOfSeq DEF TypeOK, Distinct
<1>2. CASE \A i \in DOMAIN buckets : buckets[i].key # k
  BY <1>2, LevelOfNobody, FullIsNat
<1>3. ASSUME NEW i \in DOMAIN buckets, buckets[i].key = k
      PROVE  Level(buckets, k) \in 0..Full
  BY <1>1, <1>3, LevelOfBucket, BucketIsBounded
<1> QED
  BY <1>2, <1>3
-----------------------------------------------------------------------------
(* Every step keeps the types.                                             *)

LEMMA TypeInit == Init => TypeOK
  BY DEF Init, TypeOK

\* What a call may write back.
LEMMA Spent ==
  ASSUME TypeOK, NEW k \in Keys
  PROVE  /\ Level(Swept, k) = Level(buckets, k) /\ Level(buckets, k) \in 0..Full
         /\ Level(buckets, k) >= Window => Level(buckets, k) - Window \in 0..Full
  BY SweepIsFree, LevelIsBounded, FullIsNat

LEMMA TypeNext == TypeOK /\ [Next]_vars => TypeOK'
<1> SUFFICES ASSUME TypeOK, [Next]_vars PROVE TypeOK'
  OBVIOUS
<1>1. CASE ClockMoves
  <2>1. PICK d \in Steps : /\ now' = now + d /\ now + d \in -MaxElapsed..MaxElapsed
                           /\ elapsed' = elapsed + (IF d > 0 THEN d ELSE 0) /\ elapsed' <= MaxElapsed
    BY <1>1 DEF ClockMoves
  <2>2. d \in Int /\ now \in -MaxElapsed..elapsed /\ elapsed \in 0..MaxElapsed
    BY DEF TypeOK
  <2>3. now' \in -MaxElapsed..elapsed' /\ elapsed' \in 0..MaxElapsed
    BY <2>1, <2>2
  <2> QED
    BY <1>1, <2>3 DEF ClockMoves, TypeOK
<1>2. ASSUME NEW k \in Keys, ~Crowded(k), NEW tokens \in 0..Full, buckets' = Store(k, tokens), UNCHANGED <<now, elapsed>>
      PROVE  TypeOK'
  BY <1>2, StoreSetsLevel DEF TypeOK, Distinct
<1>3. ASSUME NEW k \in Keys, Admit(k)
      PROVE  TypeOK'
  BY <1>2, <1>3, Spent DEF Admit
<1>4. ASSUME NEW k \in Keys, Throttle(k)
      PROVE  TypeOK'
  BY <1>2, <1>4, Spent DEF Throttle
<1>5. ASSUME NEW k \in Keys, RefuseNew(k)
      PROVE  TypeOK'
  <2>1. Len(Swept) <= MaxKeys
    BY SweepIsFree, LenProperties DEF TypeOK
  <2> QED
    BY <1>5, <2>1, SweepIsFree DEF RefuseNew, TypeOK, Distinct
<1>6. CASE UNCHANGED vars
  BY <1>6 DEF vars, TypeOK
<1> QED
  BY <1>1, <1>3, <1>4, <1>5, <1>6 DEF Next, allow

\* The table keeps its types and its size.
THEOREM LimiterTypeCorrectness == Spec => []TypeOK
  BY TypeInit, TypeNext, PTL DEF Spec
-----------------------------------------------------------------------------
(* The refinement.                                                         *)

level == [k \in Keys |-> Level(buckets, k)]

\* As long as the clock stands still a level is a function of the table.
LEMMA LevelAfter ==
  ASSUME now' = now
  PROVE  level' = [k \in Keys |-> Level(buckets', k)]
  BY DEF level, Level, Places, Refilled

\* A call that is let through spends one call of its key's budget.
LEMMA AdmitSpends ==
  ASSUME TypeOK, NEW k \in Keys, Admit(k)
  PROVE  Budgets!Spend(k)
<1>1. /\ ~Crowded(k) /\ Level(buckets, k) >= Window /\ Level(buckets, k) - Window \in 0..Full
      /\ buckets' = Store(k, Level(buckets, k) - Window) /\ UNCHANGED <<now, elapsed>>
  BY Spent DEF Admit
<1>2. /\ Level(buckets', k) = Level(buckets, k) - Window
      /\ \A j \in Keys : j # k => Level(buckets', j) = Level(buckets, j)
  BY <1>1, StoreSetsLevel
<1>3. level' = [level EXCEPT ![k] = @ - Window]
  BY <1>1, <1>2, LevelAfter DEF level
<1> QED
  BY <1>1, <1>3 DEF Budgets!Spend, level

\* A call that is refused spends nothing, whatever it does to the table.
LEMMA RefusalIsFree ==
  ASSUME TypeOK, NEW k \in Keys, Throttle(k) \/ RefuseNew(k)
  PROVE  UNCHANGED <<level, elapsed>>
<1>1. CASE Throttle(k)
  <2>1. /\ ~Crowded(k) /\ Level(buckets, k) \in 0..Full
        /\ buckets' = Store(k, Level(buckets, k)) /\ UNCHANGED <<now, elapsed>>
    BY <1>1, Spent DEF Throttle
  <2>2. \A j \in Keys : Level(buckets', j) = Level(buckets, j)
    BY <2>1, StoreSetsLevel
  <2> QED
    BY <2>1, <2>2, LevelAfter DEF level
<1>2. CASE RefuseNew(k)
  <2>1. \A j \in Keys : Level(buckets', j) = Level(buckets, j)
    BY <1>2, SweepIsFree DEF RefuseNew
  <2> QED
    BY <1>2, <2>1, LevelAfter DEF level, RefuseNew
<1> QED
  BY <1>1, <1>2

\* What a bucket holds at a time.
GainedAt(b, t) == IF t > b.updated THEN Limit * (t - b.updated) ELSE 0
RefilledAt(b, t) == IF b.tokens + GainedAt(b, t) < Full THEN b.tokens + GainedAt(b, t) ELSE Full

\* What a bucket earns while the clock moves.
LEMMA BucketEarns ==
  ASSUME now \in Int, NEW d \in Int, NEW b \in Bucket
  PROVE  RefilledAt(b, now + d) <= Budgets!Capped(Refilled(b) + Limit * (IF d > 0 THEN d ELSE 0))
<1> DEFINE time == IF d > 0 THEN d ELSE 0
           gained == GainedAt(b, now + d)
<1>1. b.updated \in Int /\ b.tokens \in Nat /\ b.tokens <= Full /\ Full \in Nat /\ Limit \in Nat /\ time \in Nat
  BY FullIsNat DEF Bucket
<1>2. Gained(b) \in Nat /\ Refilled(b) = IF b.tokens + Gained(b) < Full THEN b.tokens + Gained(b) ELSE Full
  BY BucketIsBounded
<1>3. RefilledAt(b, now + d) = IF b.tokens + gained < Full THEN b.tokens + gained ELSE Full
  BY DEF RefilledAt
<1>4. gained \in Nat /\ Limit * time \in Nat
  BY <1>1, Products DEF GainedAt
<1>5. gained <= Gained(b) + Limit * time
  <2>1. CASE ~(now + d > b.updated)
    BY <1>2, <1>4, <2>1 DEF GainedAt
  <2>2. CASE now + d > b.updated /\ now > b.updated
    <3>1. now + d - b.updated \in Nat /\ (now - b.updated) + time \in Nat
          /\ now + d - b.updated <= (now - b.updated) + time
      BY <1>1, <2>2
    <3>2. Limit * (now + d - b.updated) <= Limit * ((now - b.updated) + time)
      BY <1>1, <3>1, Products
    <3>3. Limit * ((now - b.updated) + time) = Limit * (now - b.updated) + Limit * time
      BY <1>1, Products
    <3>4. gained = Limit * (now + d - b.updated) /\ Gained(b) = Limit * (now - b.updated)
      BY <1>1, <2>2 DEF Gained, GainedAt
    <3> QED
      BY <3>2, <3>3, <3>4
  <2>3. CASE now + d > b.updated /\ ~(now > b.updated)
    <3>1. now + d - b.updated \in Nat /\ now + d - b.updated <= time
      BY <1>1, <2>3
    <3>2. Limit * (now + d - b.updated) <= Limit * time
      BY <1>1, <3>1, Products
    <3>3. gained = Limit * (now + d - b.updated) /\ Gained(b) = 0
      BY <1>1, <2>3 DEF Gained, GainedAt
    <3>4. gained <= Limit * time
      BY <3>2, <3>3
    <3> HIDE DEF gained, time
    <3> QED
      BY <1>4, <3>3, <3>4
  <2> QED
    BY <2>1, <2>2, <2>3
<1> HIDE DEF gained, time
<1>6. RefilledAt(b, now + d) <= (IF Refilled(b) + Limit * time < Full THEN Refilled(b) + Limit * time ELSE Full)
  BY <1>1, <1>2, <1>3, <1>4, <1>5
<1> QED
  BY <1>6 DEF Budgets!Capped, Budgets!Full, Full, time

\* While the clock moves, budgets grow at most with the time that passes.
LEMMA ClockPasses ==
  ASSUME TypeOK, ClockMoves
  PROVE  Budgets!Pass
<1>1. PICK d \in Steps : now' = now + d /\ elapsed' = elapsed + (IF d > 0 THEN d ELSE 0) /\ buckets' = buckets
  BY DEF ClockMoves
<1>2. d \in Int /\ now \in Int /\ elapsed \in Int /\ Distinct(buckets) /\ \A i \in DOMAIN buckets : buckets[i] \in Bucket
  BY ElementOfSeq, LenProperties DEF TypeOK, Distinct
<1>3. elapsed' >= elapsed /\ elapsed' - elapsed = IF d > 0 THEN d ELSE 0
  BY <1>1, <1>2
<1>4. ASSUME NEW k \in Keys
      PROVE  Level(buckets, k)' <= Budgets!Capped(Level(buckets, k) + Limit * (elapsed' - elapsed))
  <2>1. CASE \A i \in DOMAIN buckets : buckets[i].key # k
    <3>1. Level(buckets, k) = Full /\ Level(buckets, k)' = Full
      BY <1>1, <2>1 DEF Level, Places
    <3>2. Limit * (elapsed' - elapsed) \in Nat /\ Full \in Nat
      BY <1>1, <1>2, <1>3, Products, FullIsNat
    <3> QED
      BY <3>1, <3>2 DEF Budgets!Capped, Budgets!Full, Full
  <2>2. ASSUME NEW i \in DOMAIN buckets, buckets[i].key = k
        PROVE  Level(buckets, k)' <= Budgets!Capped(Level(buckets, k) + Limit * (elapsed' - elapsed))
    <3>1. Places(buckets, k) = {i} /\ Level(buckets, k) = Refilled(buckets[i])
      BY <1>2, <2>2, LevelOfBucket
    <3>2. Level(buckets, k)' = Refilled(buckets[i])'
      BY <1>1, <3>1 DEF Level, Places
    <3>3. Refilled(buckets[i])' <= Budgets!Capped(Refilled(buckets[i]) + Limit * (IF d > 0 THEN d ELSE 0))
      <4>1. \A b \in Bucket : RefilledAt(b, now + d) <= Budgets!Capped(Refilled(b) + Limit * (IF d > 0 THEN d ELSE 0))
        BY <1>1, <1>2, BucketEarns
      <4>2. Refilled(buckets[i])' = RefilledAt(buckets[i], now + d)
        BY <1>1 DEF Refilled, RefilledAt, GainedAt
      <4> QED
        BY <1>2, <4>1, <4>2
    <3> QED
      BY <1>3, <3>1, <3>2, <3>3
  <2> QED
    BY <2>1, <2>2
<1> QED
  BY <1>3, <1>4 DEF Budgets!Pass

LEMMA BudgetsInit == Init => Budgets!Init
  BY DEF Init, Budgets!Init, Budgets!Full, Full, Level, Places

LEMMA BudgetsNext == TypeOK /\ [Next]_vars => [Budgets!Next]_<<level, elapsed>>
<1> SUFFICES ASSUME TypeOK, [Next]_vars PROVE [Budgets!Next]_<<level, elapsed>>
  OBVIOUS
<1>1. CASE ClockMoves
  BY <1>1, ClockPasses DEF Budgets!Next
<1>2. ASSUME NEW k \in Keys, Admit(k)
      PROVE  Budgets!Next
  BY <1>2, AdmitSpends DEF Budgets!Next
<1>3. ASSUME NEW k \in Keys, Throttle(k) \/ RefuseNew(k)
      PROVE  UNCHANGED <<level, elapsed>>
  BY <1>3, RefusalIsFree
<1>4. CASE UNCHANGED vars
  BY <1>4 DEF vars, level, Level, Places, Refilled
<1> QED
  BY <1>1, <1>2, <1>3, <1>4 DEF Next, allow

\* No key ever spends more than time earned it, whatever the table, its evictions and the clock.
THEOREM BudgetsAreKept == Spec => KeepsBudgets
<1>1. Spec => []TypeOK
  BY LimiterTypeCorrectness
<1>2. Init => Budgets!Init
  BY BudgetsInit
<1>3. TypeOK /\ [Next]_vars => [Budgets!Next]_<<[k \in Keys |-> Level(buckets, k)], elapsed>>
  BY BudgetsNext DEF level
<1> QED
  BY <1>1, <1>2, <1>3, PTL DEF Spec, KeepsBudgets, Budgets!Spec
-----------------------------------------------------------------------------
(* Idle keys.                                                              *)

\* The table is in the order of use for as long as the clock was not set back.
InOrder == now = elapsed => Ordered(buckets)

LEMMA OrderNext == TypeOK /\ InOrder /\ [Next]_vars => InOrder'
<1> SUFFICES ASSUME TypeOK, InOrder, [Next]_vars, now' = elapsed' PROVE Ordered(buckets)'
  BY DEF InOrder
<1>1. CASE ClockMoves
  <2>1. PICK d \in Steps : now' = now + d /\ elapsed' = elapsed + (IF d > 0 THEN d ELSE 0) /\ buckets' = buckets
    BY <1>1 DEF ClockMoves
  <2>2. d \in Int /\ now \in Int /\ elapsed \in Int /\ now <= elapsed
    <3>1. MaxElapsed \in Int /\ d \in Int
      OBVIOUS
    <3>2. elapsed \in 0..MaxElapsed /\ now \in -MaxElapsed..elapsed
      BY DEF TypeOK
    <3> QED
      BY <3>1, <3>2
  <2>3. now = elapsed /\ now <= now'
    <3>1. now + d = elapsed + (IF d > 0 THEN d ELSE 0)
      BY <2>1
    <3>2. now = elapsed /\ d >= 0
      BY <2>2, <3>1
    <3> QED
      BY <2>1, <2>2, <3>2
  <2>4. Ordered(buckets)
    BY <2>3 DEF InOrder
  <2>5. \A i \in DOMAIN buckets : buckets[i].updated \in Int
    BY BucketsAreDated DEF TypeOK
  <2>6. now' \in Int
    BY <2>1, <2>2
  <2> QED
    BY <2>1, <2>2, <2>3, <2>4, <2>5, <2>6 DEF Ordered
<1>2. ASSUME NEW k \in Keys, ~Crowded(k), NEW tokens \in 0..Full, buckets' = Store(k, tokens), UNCHANGED <<now, elapsed>>
      PROVE  Ordered(buckets)'
  <2>1. Ordered(buckets)
    BY <1>2 DEF InOrder
  <2>2. Ordered(Store(k, tokens))
    BY <1>2, <2>1, StoreSetsLevel
  <2> QED
    BY <1>2, <2>2 DEF Ordered
<1>3. ASSUME NEW k \in Keys, Admit(k)
      PROVE  Ordered(buckets)'
  BY <1>2, <1>3, Spent DEF Admit
<1>4. ASSUME NEW k \in Keys, Throttle(k)
      PROVE  Ordered(buckets)'
  BY <1>2, <1>4, Spent DEF Throttle
<1>5. ASSUME NEW k \in Keys, RefuseNew(k)
      PROVE  Ordered(buckets)'
  BY <1>5, SweepIsFree DEF RefuseNew, InOrder, Ordered
<1>6. CASE UNCHANGED vars
  BY <1>6 DEF vars, InOrder, Ordered
<1> QED
  BY <1>1, <1>3, <1>4, <1>5, <1>6 DEF Next, allow

\* A call leaves no stale bucket behind.
LEMMA CallsExpireIdleKeys ==
  ASSUME TypeOK, InOrder, now = elapsed, NEW k \in Keys, allow(k)
  PROVE  \A i \in DOMAIN buckets' : now - buckets'[i].updated < Window
<1>1. Ordered(buckets)
  BY DEF InOrder
<1>2. \A i \in DOMAIN buckets' : ~Stale(buckets'[i]) /\ buckets'[i].updated \in Int
  <2>1. CASE Admit(k) \/ Throttle(k)
    <3>1. PICK tokens \in 0..Full : ~Crowded(k) /\ buckets' = Store(k, tokens)
      BY <2>1, Spent DEF Admit, Throttle
    <3>2. buckets' \in Seq(Bucket) /\ \A i \in DOMAIN buckets' : ~Stale(buckets'[i])
      BY <1>1, <3>1, StoreSetsLevel
    <3> QED
      BY <3>2, BucketsAreDated
  <2>2. CASE RefuseNew(k)
    <3>1. buckets' \in Seq(Bucket) /\ \A i \in DOMAIN buckets' : ~Stale(buckets'[i])
      BY <1>1, <2>2, SweepIsFree DEF RefuseNew
    <3> QED
      BY <3>1, BucketsAreDated
  <2> QED
    BY <2>1, <2>2 DEF allow
<1>3. now \in Int
  BY DEF TypeOK
<1> QED
  BY <1>2, <1>3, FullIsNat DEF Stale

\* As long as the clock is not set back, idle keys make room.
THEOREM IdleKeysMakeRoom == Spec => IdleKeysExpire
<1>1. Init => TypeOK /\ InOrder
  BY TypeInit DEF Init, InOrder, Ordered
<1>2. TypeOK /\ InOrder /\ [Next]_vars => TypeOK' /\ InOrder'
  BY TypeNext, OrderNext
<1>3. TypeOK /\ InOrder /\ [Next]_vars =>
        [(now = elapsed /\ \E k \in Keys : allow(k)) =>
           \A i \in DOMAIN buckets' : now - buckets'[i].updated < Window]_vars
  BY CallsExpireIdleKeys
<1> QED
  BY <1>1, <1>2, <1>3, PTL DEF Spec, IdleKeysExpire
=============================================================================
