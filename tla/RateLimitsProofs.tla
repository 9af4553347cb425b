-------------------------- MODULE RateLimitsProofs ---------------------------
(***************************************************************************)
(* Proofs about RateLimits, for every set of clients, every number of      *)
(* buckets, every capacity and cost, and without a bound on time.          *)
(***************************************************************************)
EXTENDS RateLimits, TLAPS

Distinct(bs) == \A i, j \in DOMAIN bs : bs[i].key = bs[j].key => i = j

\* A vector of buckets, none of them refilled after the time t.
Vector(bs, t) ==
  /\ bs \in Seq(Bucket) /\ Len(bs) <= MaximumKeys
  /\ Distinct(bs)
  /\ \A i \in DOMAIN bs : bs[i].last <= t

\* What the observer's account has to do with the bucket b of the client:
\* what was spent and what is left was there or was refilled since.
Balanced(b, s, start) ==
  /\ b.last < start => s = 0
  /\ b.last >= start => s + b.tokens <= Capacity + b.last - start

\* The account of the client: a client without a bucket has spent nothing.
Account ==
  /\ \A i \in DOMAIN buckets : buckets[i].key = Watched => Balanced(buckets[i], spent, since)
  /\ ~Holds(buckets, Watched) => spent = 0

\* The bucket of the client was refilled by its latest request.
Dated == \A i \in DOMAIN buckets : buckets[i].key = Watched => buckets[i].last = asked

Typed ==
  /\ now \in Nat /\ since \in Nat /\ since <= now /\ spent \in Nat
  /\ asked \in Nat \cup {Never} /\ evicted \in BOOLEAN

IInv ==
  /\ Typed
  /\ Vector(buckets, now)
  /\ Dated
  /\ ~evicted => Account

-----------------------------------------------------------------------------
(* The operators of RateLimiter. *)

\* The vector that allow() works on is one, it has a bucket for the key, and
\* each of its buckets is new or was there before.
LEMMA WithBucketVector ==
  ASSUME NEW bs, NEW t \in Nat, Vector(bs, t), NEW key \in Keys
  PROVE  LET found == WithBucket(bs, key, t)
         IN  /\ Vector(found, t)
             /\ Holds(found, key)
             /\ \A i \in DOMAIN found :
                  \/ found[i] = Fresh(key, t) /\ ~Holds(bs, key)
                  \/ \E j \in DOMAIN bs : found[i] = bs[j]
<1> DEFINE found == WithBucket(bs, key, t)
           kept  == IF Evicts(bs, key) THEN Tail(bs) ELSE bs
<1>1. CASE Holds(bs, key)
  <2>1. found = bs
    BY <1>1 DEF WithBucket
  <2>2. QED
    BY <1>1, <2>1
<1>2. CASE ~Holds(bs, key)
  <2>1. found = Append(kept, Fresh(key, t))
    BY <1>2 DEF WithBucket
  <2>2. Fresh(key, t) \in Bucket /\ Fresh(key, t).key = key /\ Fresh(key, t).last = t
    BY LimiterAssumption DEF Fresh, Bucket
  <2>3. /\ kept \in Seq(Bucket) /\ Len(kept) < MaximumKeys
        /\ \E d \in {0, 1} : \A i \in DOMAIN kept : i + d \in DOMAIN bs /\ kept[i] = bs[i + d]
    <3>1. CASE Evicts(bs, key)
      <4>1. bs \in Seq(Bucket) /\ bs # <<>> /\ Len(bs) <= MaximumKeys
        BY <3>1, LimiterAssumption DEF Evicts, Vector
      <4>2. /\ Tail(bs) \in Seq(Bucket) /\ Len(Tail(bs)) = Len(bs) - 1
            /\ \A i \in 1 .. Len(bs) - 1 : Tail(bs)[i] = bs[i + 1]
        BY <4>1
      <4>3. QED
        BY <3>1, <4>1, <4>2, LimiterAssumption
    <3>2. CASE ~Evicts(bs, key)
      BY <3>2, <1>2, LimiterAssumption DEF Evicts, Vector
    <3>3. QED
      BY <3>1, <3>2
  <2>4. PICK d \in {0, 1} : \A i \in DOMAIN kept : i + d \in DOMAIN bs /\ kept[i] = bs[i + d]
    BY <2>3
  <2>5. /\ found \in Seq(Bucket) /\ Len(found) = Len(kept) + 1
        /\ \A i \in 1 .. Len(kept) : found[i] = kept[i]
        /\ found[Len(kept) + 1] = Fresh(key, t)
        /\ DOMAIN found = 1 .. Len(kept) + 1 /\ DOMAIN kept = 1 .. Len(kept)
        /\ Len(kept) \in Nat
    BY <2>1, <2>2, <2>3
  <2> HIDE DEF found, kept
  <2>6. \A i \in DOMAIN found : i # Len(kept) + 1 => i + d \in DOMAIN bs /\ found[i] = bs[i + d]
    BY <2>4, <2>5
  <2>7. \A i \in DOMAIN found : i # Len(kept) + 1 => found[i].key # key
    BY <2>6, <1>2 DEF Holds
  <2>8. Distinct(found)
    <3>1. SUFFICES ASSUME NEW i \in DOMAIN found, NEW j \in DOMAIN found,
                          found[i].key = found[j].key
                   PROVE  i = j
      BY DEF Distinct
    <3>2. CASE i # Len(kept) + 1 /\ j # Len(kept) + 1
      <4>1. i + d = j + d
        BY <2>6, <3>1, <3>2 DEF Vector, Distinct
      <4>2. QED
        BY <4>1, <2>4, <2>5
    <3>3. QED
      BY <2>2, <2>5, <2>7, <3>1, <3>2
  <2>9. Len(found) <= MaximumKeys /\ \A i \in DOMAIN found : found[i].last <= t
    BY <2>2, <2>3, <2>5, <2>6, LimiterAssumption DEF Vector, kept
  <2>10. Holds(found, key)
    BY <2>2, <2>5 DEF Holds
  <2>11. \A i \in DOMAIN found :
           \/ found[i] = Fresh(key, t) /\ ~Holds(bs, key)
           \/ \E j \in DOMAIN bs : found[i] = bs[j]
    BY <1>2, <2>5, <2>6
  <2>12. QED
    BY <2>5, <2>8, <2>9, <2>10, <2>11 DEF Vector, found
<1>3. QED
  BY <1>1, <1>2

\* A bucket that is there stays, unless it is the oldest and evicted.
LEMMA WithBucketKeeps ==
  ASSUME NEW bs, NEW t \in Nat, Vector(bs, t), NEW key \in Keys, NEW other \in Keys,
         Holds(bs, other), ~(Evicts(bs, key) /\ bs[1].key = other)
  PROVE  Holds(WithBucket(bs, key, t), other)
<1> DEFINE kept == IF Evicts(bs, key) THEN Tail(bs) ELSE bs
<1>1. PICK j \in DOMAIN bs : bs[j].key = other
  BY DEF Holds
<1>2. Holds(kept, other) /\ kept \in Seq(Bucket)
  <2>1. CASE Evicts(bs, key)
    <3>1. bs \in Seq(Bucket) /\ bs # <<>> /\ DOMAIN bs = 1 .. Len(bs) /\ j # 1
      BY <2>1, <1>1, LimiterAssumption DEF Evicts, Vector
    <3>2. /\ Tail(bs) \in Seq(Bucket) /\ DOMAIN Tail(bs) = 1 .. Len(bs) - 1
          /\ j - 1 \in DOMAIN Tail(bs) /\ Tail(bs)[j - 1] = bs[j]
      BY <3>1
    <3>3. QED
      BY <2>1, <3>2, <1>1 DEF Holds
  <2>2. CASE ~Evicts(bs, key)
    BY <2>2 DEF Vector
  <2>3. QED
    BY <2>1, <2>2
<1>3. ASSUME NEW b PROVE Holds(Append(kept, b), other)
  <2>1. PICK i \in DOMAIN kept : kept[i].key = other
    BY <1>2 DEF Holds
  <2>2. i \in DOMAIN Append(kept, b) /\ Append(kept, b)[i] = kept[i]
    BY <1>2, <2>1
  <2>3. QED
    BY <2>1, <2>2 DEF Holds
<1>4. QED
  BY <1>3 DEF WithBucket

\* A refill brings a bucket up to date, to the capacity at most.
LEMMA RefilledBucket ==
  ASSUME NEW b \in Bucket, NEW t \in Nat, b.last <= t
  PROVE  LET r == Refilled(b, t)
         IN  /\ r \in Bucket /\ r.key = b.key /\ r.last = t
             /\ r.tokens <= b.tokens + t - b.last
<1> DEFINE n == b.tokens + t - b.last
           k == IF n > Capacity THEN Capacity ELSE n
<1>1. b.key \in Keys /\ b.tokens \in 0 .. Capacity /\ b.last \in Nat
  BY DEF Bucket
<1>2. CASE t > b.last
  <2>1. Refilled(b, t) = [b EXCEPT !.tokens = k, !.last = t]
    BY <1>2 DEF Refilled
  <2>2. k \in 0 .. Capacity /\ k <= n
    BY <1>1, <1>2, LimiterAssumption
  <2> HIDE DEF k
  <2>3. LET r == [b EXCEPT !.tokens = k, !.last = t]
        IN  r \in Bucket /\ r.key = b.key /\ r.tokens = k /\ r.last = t
    BY <2>2 DEF Bucket
  <2>4. QED
    BY <2>1, <2>2, <2>3
<1>3. CASE ~(t > b.last)
  BY <1>1, <1>3, LimiterAssumption DEF Refilled
<1>4. QED
  BY <1>2, <1>3

\* A request takes its cost, if the bucket has it.
LEMMA ChargedBucket ==
  ASSUME NEW b \in Bucket
  PROVE  /\ Charged(b) \in Bucket /\ Charged(b).key = b.key /\ Charged(b).last = b.last
         /\ Charged(b).tokens = b.tokens - (IF b.tokens >= Cost THEN Cost ELSE 0)
  BY LimiterAssumption DEF Charged, Bucket

\* allow() keeps the vector: it changes the bucket of the key only.
LEMMA ServedVector ==
  ASSUME NEW bs, NEW t \in Nat, Vector(bs, t), NEW key \in Keys
  PROVE  LET found  == WithBucket(bs, key, t)
             served == Served(bs, key, t)
         IN  /\ Vector(served, t)
             /\ DOMAIN served = DOMAIN found
             /\ \A i \in DOMAIN found :
                  /\ served[i].key = found[i].key
                  /\ served[i] = IF found[i].key = key
                                 THEN Charged(Refilled(found[i], t)) ELSE found[i]
<1> DEFINE found  == WithBucket(bs, key, t)
           served == Served(bs, key, t)
<1>1. Vector(found, t)
  BY WithBucketVector
<1>2. served = [i \in DOMAIN found |->
                  IF found[i].key = key THEN Charged(Refilled(found[i], t)) ELSE found[i]]
  BY DEF Served
<1> HIDE DEF found, served
<1>3. \A i \in DOMAIN found : found[i] \in Bucket /\ found[i].last <= t
  BY <1>1 DEF Vector
<1>4. ASSUME NEW i \in DOMAIN found
      PROVE  served[i] \in Bucket /\ served[i].key = found[i].key /\ served[i].last <= t
  <2>1. CASE found[i].key = key
    <3>1. Refilled(found[i], t) \in Bucket /\ Refilled(found[i], t).key = key
          /\ Refilled(found[i], t).last = t
      BY <1>3, <2>1, RefilledBucket
    <3>2. QED
      BY <1>2, <2>1, <3>1, ChargedBucket
  <2>2. CASE found[i].key # key
    BY <1>2, <1>3, <2>2
  <2>3. QED
    BY <2>1, <2>2
<1>5. DOMAIN served = DOMAIN found /\ DOMAIN found = 1 .. Len(found) /\ Len(found) \in Nat
  BY <1>1, <1>2 DEF Vector
<1>6. served \in Seq(Bucket) /\ Len(served) = Len(found)
  <2>1. served \in [1 .. Len(found) -> Bucket]
    BY <1>2, <1>4, <1>5
  <2>2. QED
    BY <1>5, <2>1
<1>7. Vector(served, t)
  BY <1>1, <1>4, <1>5, <1>6 DEF Vector, Distinct
<1>8. QED
  BY <1>2, <1>4, <1>5, <1>7 DEF found, served

-----------------------------------------------------------------------------
(* The account of the observer. *)

\* A request of the client costs what it takes from the bucket.
LEMMA RequestBalanced ==
  ASSUME NEW b \in Bucket, NEW t \in Nat, b.last <= t,
         NEW s \in Nat, NEW start \in Nat, start <= t,
         Balanced(b, s, start)
  PROVE  LET r == Refilled(b, t)
         IN  Balanced(Charged(r), IF r.tokens >= Cost THEN s + Cost ELSE s, start)
<1> DEFINE r == Refilled(b, t)
<1>1. /\ r \in Bucket /\ r.last = t /\ r.tokens <= b.tokens + t - b.last
      /\ r.tokens \in Int /\ r.tokens <= Capacity
  BY RefilledBucket, LimiterAssumption DEF Bucket
<1>2. b.tokens \in Int /\ b.last \in Nat
  BY DEF Bucket
<1>3. s + r.tokens <= Capacity + t - start
  <2> HIDE DEF r
  <2>1. CASE b.last < start
    BY <2>1, <1>1, <1>2, LimiterAssumption DEF Balanced
  <2>2. CASE b.last >= start
    BY <2>2, <1>1, <1>2, LimiterAssumption DEF Balanced
  <2>3. QED
    BY <2>1, <2>2, <1>2
<1>4. /\ Charged(r).last = t
      /\ Charged(r).tokens = r.tokens - (IF r.tokens >= Cost THEN Cost ELSE 0)
  BY <1>1, ChargedBucket
<1> HIDE DEF r
<1>5. QED
  BY <1>1, <1>3, <1>4, LimiterAssumption DEF Balanced, r

\* A request of any client keeps the account balanced, whether it is answered
\* from an old bucket, a new one or one that pushes another out.
LEMMA RequestPreserves ==
  ASSUME IInv, NEW key \in Keys, Request(key)
  PROVE  IInv'
<1> DEFINE found == WithBucket(buckets, key, now)
           taken == Allows(buckets, key, now)
<1>1. /\ now \in Nat /\ now' = now /\ since' = since /\ since \in Nat /\ since <= now
      /\ buckets' = Served(buckets, key, now)
      /\ asked' \in Nat \cup {Never}
      /\ evicted \in BOOLEAN /\ evicted' \in BOOLEAN
      /\ Vector(buckets, now) /\ spent \in Nat
  BY DEF IInv, Typed, Request
<1>2. spent' = IF key = Watched /\ ~evicted /\ taken THEN spent + Cost ELSE spent
  BY DEF Request
<1>3. spent' \in Nat
  BY <1>1, <1>2, LimiterAssumption
<1>4. /\ Vector(found, now) /\ Holds(found, key)
      /\ \A i \in DOMAIN found :
           \/ found[i] = Fresh(key, now) /\ ~Holds(buckets, key)
           \/ \E j \in DOMAIN buckets : found[i] = buckets[j]
  BY <1>1, WithBucketVector
<1>5. /\ Vector(buckets', now)
      /\ DOMAIN buckets' = DOMAIN found
      /\ \A i \in DOMAIN found :
           /\ buckets'[i].key = found[i].key
           /\ buckets'[i] = IF found[i].key = key
                            THEN Charged(Refilled(found[i], now)) ELSE found[i]
  BY <1>1, ServedVector
<1>6. ASSUME ~evicted' PROVE Account'
  <2>1. ~evicted /\ ~(Evicts(buckets, key) /\ buckets[1].key = Watched) /\ Account
    BY <1>1, <1>6 DEF Request, IInv
  <2>2. ASSUME NEW i \in DOMAIN found, found[i].key = Watched
        PROVE  Balanced(found[i], spent, since)
    <3>1. CASE found[i] = Fresh(key, now) /\ ~Holds(buckets, key)
      <4>1. spent = 0
        BY <2>1, <2>2, <3>1 DEF Account, Fresh
      <4>2. QED
        BY <1>1, <3>1, <4>1, LimiterAssumption DEF Balanced, Fresh
    <3>2. CASE \E j \in DOMAIN buckets : found[i] = buckets[j]
      BY <2>1, <2>2, <3>2 DEF Account
    <3>3. QED
      BY <1>4, <3>1, <3>2
  <2>3. ASSUME NEW i \in DOMAIN found, found[i].key = Watched
        PROVE  Balanced(buckets'[i], spent', since)
    <3>1. CASE key = Watched
      <4>1. taken <=> Refilled(found[i], now).tokens >= Cost
        BY <1>4, <2>3, <3>1 DEF Allows, Vector, Distinct
      <4>2. found[i] \in Bucket /\ found[i].last <= now
        BY <1>4 DEF Vector
      <4>3. QED
        BY <1>1, <1>2, <1>5, <2>1, <2>2, <2>3, <3>1, <4>1, <4>2, RequestBalanced
    <3>2. CASE key # Watched
      BY <1>2, <1>5, <2>2, <2>3, <3>2
    <3>3. QED
      BY <3>1, <3>2
  <2>4. ASSUME ~Holds(buckets', Watched) PROVE spent' = 0
    <3>1. ~Holds(found, Watched)
      BY <1>5, <2>4 DEF Holds
    <3>2. key # Watched
      BY <1>4, <3>1
    <3>3. ~Holds(buckets, Watched)
      BY <1>1, <2>1, <3>1, WithBucketKeeps, WatchAssumption
    <3>4. QED
      BY <1>2, <2>1, <3>2, <3>3 DEF Account
  <2>5. QED
    BY <1>1, <1>5, <2>3, <2>4 DEF Account
<1>7. Dated'
  <2>1. SUFFICES ASSUME NEW i \in DOMAIN found, found[i].key = Watched
                 PROVE  buckets'[i].last = asked'
    BY <1>5 DEF Dated
  <2>2. CASE key = Watched
    <3>1. found[i] \in Bucket /\ found[i].last <= now
      BY <1>4 DEF Vector
    <3>2. Charged(Refilled(found[i], now)).last = now
      BY <1>1, <3>1, RefilledBucket, ChargedBucket
    <3>3. asked' = now
      BY <2>2 DEF Request
    <3>4. QED
      BY <1>5, <2>1, <2>2, <3>2, <3>3
  <2>3. CASE key # Watched
    <3>1. found[i] # Fresh(key, now) /\ asked' = asked
      BY <2>1, <2>3 DEF Fresh, Request
    <3>2. QED
      BY <1>4, <1>5, <2>1, <2>3, <3>1 DEF IInv, Dated
  <2>4. QED
    BY <2>2, <2>3
<1>8. QED
  BY <1>1, <1>3, <1>5, <1>6, <1>7 DEF IInv, Typed

\* The observer begins anew: nothing is spent, and a bucket is never more
\* than full.
LEMMA ObservePreserves == IInv /\ Observe => IInv'
<1> SUFFICES ASSUME IInv, Observe PROVE IInv'
  OBVIOUS
<1>1. Vector(buckets, now) /\ now \in Nat
  BY DEF IInv, Typed
<1>2. /\ now' = now /\ buckets' = buckets /\ asked' = asked
      /\ since' = now /\ spent' = 0 /\ evicted' = FALSE
  BY DEF Observe
<1>3. \A i \in DOMAIN buckets : buckets[i] \in Bucket /\ buckets[i].last <= now
  BY <1>1 DEF Vector
<1>4. \A i \in DOMAIN buckets : Balanced(buckets[i], 0, now)
  BY <1>1, <1>3, LimiterAssumption DEF Balanced, Bucket
<1>5. Account'
  BY <1>2, <1>4 DEF Account
<1>6. Typed'
  <2>1. evicted' \in BOOLEAN
    BY <1>2, Zenon
  <2>2. QED
    BY <1>2, <2>1 DEF IInv, Typed
<1>7. Vector(buckets', now')
  BY <1>1, <1>2
<1>8. Dated'
  BY <1>2 DEF IInv, Dated
<1>9. QED
  BY <1>5, <1>6, <1>7, <1>8 DEF IInv

\* The empty vector is one, and nobody has spent anything.
LEMMA EmptyAccount ==
  ASSUME NEW t \in Nat
  PROVE  Vector(<<>>, t) /\ ~Holds(<<>>, Watched)
  BY LimiterAssumption DEF Vector, Distinct, Holds

\* The account is balanced before the first request.
LEMMA InitInvariant == Init => IInv
<1> SUFFICES ASSUME Init PROVE IInv
  OBVIOUS
<1>1. Account /\ Dated
  BY EmptyAccount DEF Init, Account, Dated
<1>2. Typed
  <2>1. evicted \in BOOLEAN
    BY Zenon DEF Init
  <2>2. QED
    BY <2>1 DEF Init, Typed
<1>3. Vector(buckets, now)
  BY EmptyAccount DEF Init
<1>4. QED
  BY <1>1, <1>2, <1>3 DEF IInv

\* One step per action.
LEMMA StepInvariant == IInv /\ [Next]_vars => IInv'
<1> SUFFICES ASSUME IInv, [Next]_vars PROVE IInv'
  OBVIOUS
<1>1. ASSUME NEW key \in Keys, Request(key) PROVE IInv'
  BY <1>1, RequestPreserves
<1>2. CASE Observe
  BY <1>2, ObservePreserves
<1>3. CASE Clear
  <2>1. Account' /\ Dated'
    BY <1>3, EmptyAccount DEF Clear, Account, Dated, IInv, Typed
  <2>2. Typed'
    <3>1. evicted' \in BOOLEAN
      BY <1>3, Zenon DEF Clear
    <3>2. now \in Nat
      BY DEF IInv, Typed
    <3>3. QED
      BY <1>3, <3>1, <3>2 DEF Clear, Typed
  <2>3. Vector(buckets', now')
    BY <1>3, EmptyAccount DEF Clear, IInv, Typed
  <2>4. QED
    BY <2>1, <2>2, <2>3 DEF IInv
<1>4. CASE TimePasses
  <2>1. /\ now' = now + 1 /\ now \in Nat /\ Vector(buckets, now)
        /\ UNCHANGED <<buckets, asked, since, spent, evicted>>
    BY <1>4 DEF TimePasses, IInv, Typed
  <2>2. \A i \in DOMAIN buckets : buckets[i].last <= now + 1
    <3>1. \A i \in DOMAIN buckets : buckets[i] \in Bucket /\ buckets[i].last <= now
      BY <2>1 DEF Vector
    <3>2. QED
      BY <2>1, <3>1 DEF Bucket
  <2>3. Vector(buckets', now')
    BY <2>1, <2>2 DEF Vector
  <2>4. Typed'
    BY <2>1 DEF IInv, Typed
  <2>5. Account' = Account /\ Dated' = Dated
    BY <2>1 DEF Account, Dated
  <2>6. QED
    BY <2>1, <2>3, <2>4, <2>5 DEF IInv
<1>5. CASE UNCHANGED vars
  BY <1>5 DEF vars, IInv, Typed, Account, Dated
<1>6. QED
  BY <1>1, <1>2, <1>3, <1>4, <1>5 DEF Next

\* What the invariant says of the properties.
LEMMA InvariantImplies == IInv => TypeOK /\ WindowBound /\ PatientClientServed
<1> SUFFICES ASSUME IInv PROVE TypeOK /\ WindowBound /\ PatientClientServed
  OBVIOUS
<1>1. TypeOK
  BY DEF IInv, Typed, Vector, Distinct, TypeOK
<1>2. ASSUME ~evicted PROVE spent <= Capacity + now - since
  <2>1. CASE ~Holds(buckets, Watched)
    BY <1>2, <2>1, LimiterAssumption DEF IInv, Typed, Account
  <2>2. CASE Holds(buckets, Watched)
    <3>1. PICK i \in DOMAIN buckets : buckets[i].key = Watched
      BY <2>2 DEF Holds
    <3>2. /\ Balanced(buckets[i], spent, since) /\ buckets[i] \in Bucket
          /\ buckets[i].last <= now
      BY <1>2, <3>1 DEF IInv, Account, Vector
    <3>3. QED
      BY <3>2, LimiterAssumption DEF IInv, Typed, Balanced, Bucket
  <2>3. QED
    BY <2>1, <2>2
<1>3. ASSUME now >= asked + Cost PROVE Allows(buckets, Watched, now)
  <2> DEFINE found == WithBucket(buckets, Watched, now)
  <2>1. Vector(buckets, now) /\ now \in Nat /\ asked \in Int
    BY LimiterAssumption DEF IInv, Typed, Never
  <2>2. /\ Vector(found, now) /\ Holds(found, Watched)
        /\ \A i \in DOMAIN found :
             \/ found[i] = Fresh(Watched, now)
             \/ \E j \in DOMAIN buckets : found[i] = buckets[j]
    BY <2>1, WithBucketVector, WatchAssumption
  <2>3. PICK i \in DOMAIN found : found[i].key = Watched
    BY <2>2 DEF Holds
  <2>4. found[i] \in Bucket /\ found[i].last <= now
    BY <2>2 DEF Vector
  <2>5. found[i] = Fresh(Watched, now) \/ found[i].last = asked
    BY <2>2, <2>3 DEF IInv, Dated
  <2>6. Refilled(found[i], now).tokens >= Cost
    <3>1. CASE found[i] = Fresh(Watched, now)
      BY <2>1, <3>1, LimiterAssumption DEF Refilled, Fresh
    <3>2. CASE found[i].last = asked
      BY <1>3, <2>1, <2>4, <3>2, LimiterAssumption DEF Refilled, Bucket
    <3>3. QED
      BY <2>5, <3>1, <3>2
  <2>7. QED
    BY <2>3, <2>6 DEF Allows
<1>4. QED
  BY <1>1, <1>2, <1>3 DEF WindowBound, PatientClientServed

-----------------------------------------------------------------------------
(* The theorems. *)

\* The account balances in every reachable state.
THEOREM Invariant == Spec => []IInv
  BY InitInvariant, StepInvariant, PTL DEF Spec

\* The vector of allow() never has more than its buckets, and never two for
\* one client.
THEOREM TypeCorrect == Spec => []TypeOK
  BY Invariant, InvariantImplies, PTL

\* Whatever the other clients do: in any window in which its bucket is kept, a
\* client gets no more than a full bucket and the refill of the window.
THEOREM RateIsBounded == Spec => []WindowBound
  BY Invariant, InvariantImplies, PTL

\* Whatever the client did before and whatever the other clients do: when it
\* has waited for one refill, it is served.
THEOREM PatienceIsServed == Spec => []PatientClientServed
  BY Invariant, InvariantImplies, PTL
=============================================================================
