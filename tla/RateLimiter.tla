----------------------------- MODULE RateLimiter -----------------------------
(***************************************************************************)
(* The class RateLimiter (rate_limiter.cpp): a token bucket per key, in a  *)
(* vector of at most MaximumKeys buckets; the oldest bucket makes room for *)
(* a new key.  Tokens are counted in the time it takes to refill them: one *)
(* unit per unit of time, Cost units per request, so the fractions of the  *)
(* code are whole numbers here (its rounding is left out).                 *)
(***************************************************************************)
EXTENDS Integers, Sequences

CONSTANTS
  Keys,         \* the addresses of the clients
  MaximumKeys,  \* the number of buckets kept
  Capacity,     \* the tokens of a full bucket
  Cost          \* the tokens of one request

ASSUME LimiterAssumption ==
  /\ MaximumKeys \in Nat \ {0}
  /\ Cost \in Nat \ {0}
  /\ Capacity \in Nat /\ Capacity >= Cost

Bucket == [key : Keys, tokens : 0 .. Capacity, last : Nat]

\* Mutant: a new client has to wait for its first token.
FreshMutant(key, now) == [key |-> key, tokens |-> 0, last |-> now]

Fresh(key, now) == [key |-> key, tokens |-> Capacity, last |-> now]

Holds(buckets, key) == \E i \in DOMAIN buckets : buckets[i].key = key

Evicts(buckets, key) == ~Holds(buckets, key) /\ Len(buckets) >= MaximumKeys

\* The vector once it has a bucket for the key.
WithBucket(buckets, key, now) ==
  IF Holds(buckets, key) THEN buckets
  ELSE Append(IF Evicts(buckets, key) THEN Tail(buckets) ELSE buckets,
              Fresh(key, now))

\* Mutant: the time of a refill is not kept, so that it counts again.
RefilledTwiceMutant(bucket, now) ==
  LET tokens == bucket.tokens + now - bucket.last
  IN  [bucket EXCEPT !.tokens = IF tokens > Capacity THEN Capacity ELSE tokens]

Refilled(bucket, now) ==
  LET tokens == bucket.tokens + now - bucket.last
  IN  IF now > bucket.last
      THEN [bucket EXCEPT !.tokens = IF tokens > Capacity THEN Capacity ELSE tokens,
                          !.last = now]
      ELSE bucket

Charged(bucket) ==
  IF bucket.tokens < Cost THEN bucket ELSE [bucket EXCEPT !.tokens = @ - Cost]

\* allow(): the vector afterwards, and the answer.
Served(buckets, key, now) ==
  LET found == WithBucket(buckets, key, now)
  IN  [i \in DOMAIN found |->
         IF found[i].key = key THEN Charged(Refilled(found[i], now)) ELSE found[i]]

Allows(buckets, key, now) ==
  LET found == WithBucket(buckets, key, now)
  IN  \E i \in DOMAIN found :
        found[i].key = key /\ Refilled(found[i], now).tokens >= Cost
=============================================================================
