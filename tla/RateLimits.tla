----------------------------- MODULE RateLimits ------------------------------
(***************************************************************************)
(* A RateLimiter at work.  Any client may send a request at any time.      *)
(* NativeRuntime has two limiters, for GET and for POST, which it calls    *)
(* with mutex_ held: one action is one call of allow().                    *)
(*                                                                         *)
(* The histories are those of an observer of one client, which begins to   *)
(* count what the client spends whenever it likes.                         *)
(*                                                                         *)
(* Bound for TLC: the clock stops at MaxNow.                               *)
(***************************************************************************)
EXTENDS RateLimiter

CONSTANTS Watched,  \* the client that is observed
          MaxNow

ASSUME WatchAssumption == Watched \in Keys /\ MaxNow \in Nat

VARIABLES
  now,      \* the monotonic clock
  buckets,  \* buckets_
  asked,    \* history: when the client sent its latest request
  since,    \* history: when the observer began to count
  spent,    \* history: the tokens that the client has spent since, until
             \* its bucket is evicted
  evicted   \* history: the client has lost a bucket since

vars == <<now, buckets, asked, since, spent, evicted>>

Never == -Cost

Init ==
  /\ now = 0
  /\ buckets = <<>>
  /\ asked = Never
  /\ since = 0
  /\ spent = 0
  /\ evicted = FALSE

Request(key) ==
  /\ buckets' = Served(buckets, key, now)
  /\ asked' = IF key = Watched THEN now ELSE asked
  /\ spent' = IF key = Watched /\ ~evicted /\ Allows(buckets, key, now)
              THEN spent + Cost ELSE spent
  /\ evicted' = (evicted \/ (Evicts(buckets, key) /\ buckets[1].key = Watched))
  /\ UNCHANGED <<now, since>>

\* clear(), when a session starts.
Clear ==
  /\ buckets' = <<>>
  /\ asked' = Never
  /\ since' = now
  /\ spent' = 0
  /\ evicted' = FALSE
  /\ UNCHANGED now

Observe ==
  /\ since' = now
  /\ spent' = 0
  /\ evicted' = FALSE
  /\ UNCHANGED <<now, buckets, asked>>

TimePasses ==
  /\ now < MaxNow
  /\ now' = now + 1
  /\ UNCHANGED <<buckets, asked, since, spent, evicted>>

Next ==
  \/ \E key \in Keys : Request(key)
  \/ Observe
  \/ Clear
  \/ TimePasses

Spec == Init /\ [][Next]_vars
-----------------------------------------------------------------------------
(* Properties. *)

\* Types; no more buckets than the limit, and never two for one client.
TypeOK ==
  /\ now \in Nat
  /\ buckets \in Seq(Bucket) /\ Len(buckets) <= MaximumKeys
  /\ \A i, j \in DOMAIN buckets : buckets[i].key = buckets[j].key => i = j
  /\ asked \in Nat \cup {Never}
  /\ since \in Nat /\ spent \in Nat
  /\ evicted \in BOOLEAN

\* In any window of time, a client gets no more requests through than a full
\* bucket and the refill of the window pay for, unless its bucket was evicted
\* in the window for the sake of other clients.
WindowBound == ~evicted => spent <= Capacity + now - since

\* A client that waits for one refill between its requests is never refused,
\* whatever it did before and whatever the other clients do.
PatientClientServed == now >= asked + Cost => Allows(buckets, Watched, now)
=============================================================================
