---------------------------- MODULE RequestProofs -----------------------------
(***************************************************************************)
(* Proofs about one request, from its bytes to its answer: HttpReader and  *)
(* RequestApi, for any clients, PINs, ids, requests and limits.            *)
(*                                                                         *)
(* The loops of the code are recursive functions.  What they compute for   *)
(* every input is proved by counting their rounds (Counting), which rests  *)
(* on the fact that a set of numbers has a least one.                      *)
(***************************************************************************)
EXTENDS RequestApi, HttpReader, SequenceTheorems, WellFoundedInduction, TLAPS

-----------------------------------------------------------------------------
(* Loops. *)

\* A set of numbers that is not empty has a least one.
LEMMA LeastNumber ==
  ASSUME NEW T \in SUBSET Nat, T # {}
  PROVE  \E n \in T : \A k \in T : n <= k
<1> DEFINE R == OpToRel(<, Nat)
<1>1. \A x, y \in Nat : x < y => <<x, y>> \in R
  BY DEF OpToRel
<1>2. IsWellFoundedOn(R, Nat)
  BY NatLessThanWellFounded
<1> HIDE DEF R
<1>3. PICK n \in T : \A k \in T : ~ (<<k, n>> \in R)
  BY <1>2, WFMin
<1>4. \A k \in T : ~ (k < n)
  BY <1>1, <1>3, Zenon
<1> QED  BY <1>4

\* A set that has 0, and with every number below n the next one, has 0 .. n.
LEMMA Counting ==
  ASSUME NEW n \in Nat, NEW T, 0 \in T, \A i \in 1 .. n : i - 1 \in T => i \in T
  PROVE  0 .. n \subseteq T
<1> SUFFICES ASSUME (0 .. n) \ T # {}
             PROVE  FALSE
  OBVIOUS
<1>1. PICK k \in (0 .. n) \ T : \A j \in (0 .. n) \ T : k <= j
  <2>1. (0 .. n) \ T \in SUBSET Nat
    OBVIOUS
  <2> QED  BY <2>1, LeastNumber
<1>2. k \in 1 .. n /\ k - 1 \in 0 .. n
  BY <1>1
<1> QED  BY <1>1, <1>2

\* The course of a loop that starts from base and does in each of n rounds
\* the step next.
Course(S, n, base, next, h) ==
  /\ h \in [0 .. n -> S]
  /\ h[0] = base
  /\ \A i \in 1 .. n : h[i] = next[<<i, h[i - 1]>>]

\* There is a course for each number of rounds.
LEMMA LoopRuns ==
  ASSUME NEW S, NEW n \in Nat, NEW base \in S, NEW next,
         \A i \in 1 .. n, s \in S : next[<<i, s>>] \in S
  PROVE  \E h : Course(S, n, base, next, h)
<1> DEFINE T == {k \in 0 .. n : \E h : Course(S, k, base, next, h)}
<1>1. 0 \in T
  <2> DEFINE g == [j \in 0 .. 0 |-> base]
  <2>1. Course(S, 0, base, next, g)
    BY DEF Course
  <2> HIDE DEF g
  <2> QED  BY <2>1
<1>2. ASSUME NEW k \in 1 .. n, k - 1 \in T
      PROVE  k \in T
  <2>1. PICK h : Course(S, k - 1, base, next, h)
    BY <1>2
  <2>2. h \in [0 .. k - 1 -> S] /\ h[0] = base /\ \A i \in 1 .. k - 1 : h[i] = next[<<i, h[i - 1]>>]
    BY <2>1, Zenon DEF Course
  <2> DEFINE last == next[<<k, h[k - 1]>>]
             g == [j \in 0 .. k |-> IF j = k THEN last ELSE h[j]]
  <2>3. last \in S
    <3>1. k - 1 \in 0 .. k - 1
      OBVIOUS
    <3>2. h[k - 1] \in S
      BY <2>2, <3>1
    <3> QED  BY <3>2
  <2> HIDE DEF last
  <2>4. g \in [0 .. k -> S]
    BY <2>2, <2>3
  <2>5. g[0] = base /\ g[k] = last
    BY <2>2
  <2>6. ASSUME NEW i \in 1 .. k
        PROVE  g[i] = next[<<i, g[i - 1]>>]
    <3>1. g[i - 1] = h[i - 1]
      OBVIOUS
    <3>2. CASE i = k
      BY <2>5, <3>1, <3>2 DEF last
    <3>3. CASE i # k
      BY <2>2, <3>1, <3>3
    <3> QED  BY <3>2, <3>3
  <2> HIDE DEF g
  <2>7. Course(S, k, base, next, g)
    BY <2>4, <2>5, <2>6, Zenon DEF Course
  <2> QED  BY <2>7
<1> HIDE DEF T
<1>3. n \in T
  <2>1. 0 .. n \subseteq T
    BY <1>1, <1>2, Counting
  <2> QED  BY <2>1
<1> QED  BY <1>3 DEF T

-----------------------------------------------------------------------------
(* The operators of RequestDeduplicator. *)

\* No id is remembered twice.
Distinct(es) == \A i, j \in DOMAIN es : es[i].requestId = es[j].requestId => i = j

\* The rounds of prune().
LEMMA PruneRuns ==
  ASSUME NEW es \in Seq(Entry), NEW t \in Nat
  PROVE  \E h : /\ h[0] = <<>>
                /\ \A i \in 1 .. Len(es) :
                     h[i] = IF es[i].expires > t THEN Append(h[i - 1], es[i]) ELSE h[i - 1]
                /\ Pruned(es, t) = h[Len(es)]
<1> DEFINE n == Len(es)
           S == Seq(Entry)
           next == [p \in (1 .. n) \X S |->
                      IF es[p[1]].expires > t THEN Append(p[2], es[p[1]]) ELSE p[2]]
           Rounds(g) == [i \in 0 .. n |->
                           IF i = 0 THEN <<>>
                           ELSE IF es[i].expires > t THEN Append(g[i - 1], es[i])
                           ELSE g[i - 1]]
           f == CHOOSE g : g = Rounds(g)
<1>1. n \in Nat /\ <<>> \in S /\ \A i \in 1 .. n : es[i] \in Entry
  OBVIOUS
<1>2. \A i \in 1 .. n, s \in S : next[<<i, s>>] \in S
  <2>1. ASSUME NEW i \in 1 .. n, NEW s \in S
        PROVE  next[<<i, s>>] \in S
    <3>1. next[<<i, s>>] = IF es[i].expires > t THEN Append(s, es[i]) ELSE s
      OBVIOUS
    <3>2. Append(s, es[i]) \in S
      BY <1>1
    <3> QED  BY <3>1, <3>2
  <2> QED  BY <2>1
<1>3. \A i \in 1 .. n, s \in S :
        next[<<i, s>>] = IF es[i].expires > t THEN Append(s, es[i]) ELSE s
  OBVIOUS
<1> HIDE DEF S, next
<1>4. PICK h \in [0 .. n -> S] : h[0] = <<>> /\ \A i \in 1 .. n : h[i] = next[<<i, h[i - 1]>>]
  <2>1. PICK h : Course(S, n, <<>>, next, h)
    BY <1>1, <1>2, LoopRuns
  <2> QED  BY <2>1 DEF Course
<1>5. h = Rounds(h)
  <2>1. ASSUME NEW i \in 0 .. n
        PROVE  h[i] = Rounds(h)[i]
    <3>1. CASE i = 0
      BY <1>4, <3>1
    <3>2. CASE i # 0
      <4>1. i \in 1 .. n /\ i - 1 \in 0 .. n /\ h[i - 1] \in S
        BY <1>1, <3>2
      <4>2. h[i] = IF es[i].expires > t THEN Append(h[i - 1], es[i]) ELSE h[i - 1]
        BY <1>3, <1>4, <4>1
      <4> QED  BY <3>2, <4>2
    <3> QED  BY <3>1, <3>2
  <2> DEFINE r == Rounds(h)
  <2>2. r = [i \in 0 .. n |-> r[i]] /\ h = [i \in 0 .. n |-> h[i]]
    OBVIOUS
  <2>3. \A i \in 0 .. n : h[i] = r[i]
    BY <2>1
  <2> HIDE DEF r
  <2>4. h = r
    BY <2>2, <2>3
  <2> QED  BY <2>4 DEF r
<1>6. f = Rounds(f)
  BY <1>5, Zenon
<1>7. Pruned(es, t) = f[n]
  BY DEF Pruned
<1> HIDE DEF f
<1>8. f[0] = <<>>
  BY <1>1, <1>6
<1>9. \A i \in 1 .. n : f[i] = IF es[i].expires > t THEN Append(f[i - 1], es[i]) ELSE f[i - 1]
  <2>1. ASSUME NEW i \in 1 .. n
        PROVE  f[i] = IF es[i].expires > t THEN Append(f[i - 1], es[i]) ELSE f[i - 1]
    <3>1. i \in 0 .. n /\ i # 0
      BY <1>1
    <3>2. f[i] = Rounds(f)[i]
      BY <1>6, Zenon
    <3> QED  BY <3>1, <3>2
  <2> QED  BY <2>1
<1> QED  BY <1>7, <1>8, <1>9

\* What prune() leaves: the live entries, each no deeper than it was.
LEMMA PruneKeeps ==
  ASSUME NEW es \in Seq(Entry), NEW t \in Nat, Distinct(es)
  PROVE  LET live == Pruned(es, t)
         IN  /\ live \in Seq(Entry) /\ Len(live) <= Len(es)
             /\ Distinct(live)
             /\ \A j \in DOMAIN es : es[j].expires > t =>
                  \E k \in DOMAIN live : live[k] = es[j] /\ Len(live) - k <= Len(es) - j
             /\ \A k \in DOMAIN live : \E j \in DOMAIN es : live[k] = es[j] /\ es[j].expires > t
<1> DEFINE n == Len(es)
<1>1. PICK h : /\ h[0] = <<>>
               /\ \A i \in 1 .. n :
                    h[i] = IF es[i].expires > t THEN Append(h[i - 1], es[i]) ELSE h[i - 1]
               /\ Pruned(es, t) = h[n]
  BY PruneRuns
<1>2. n \in Nat /\ DOMAIN es = 1 .. n /\ \A i \in 1 .. n : es[i] \in Entry
  OBVIOUS
<1> DEFINE Kept(i, live) ==
             /\ live \in Seq(Entry) /\ Len(live) <= i
             /\ \A j \in 1 .. i : es[j].expires > t =>
                  \E k \in 1 .. Len(live) : live[k] = es[j] /\ Len(live) - k <= i - j
             /\ \A k \in 1 .. Len(live) : \E j \in 1 .. i : live[k] = es[j] /\ es[j].expires > t
             /\ \A k, l \in 1 .. Len(live) : live[k].requestId = live[l].requestId => k = l
           T == {i \in 0 .. n : Kept(i, h[i])}
<1>3. 0 \in T
  <2>1. Kept(0, <<>>)
    OBVIOUS
  <2> HIDE DEF Kept
  <2> QED  BY <1>1, <1>2, <2>1
<1>4. ASSUME NEW i \in 1 .. n, i - 1 \in T
      PROVE  i \in T
  <2> DEFINE was == h[i - 1]
             live == h[i]
  <2>1. Kept(i - 1, was)
    BY <1>4
  <2>2. i \in Nat /\ i \in 0 .. n /\ es[i] \in Entry /\ 1 .. i = (1 .. i - 1) \cup {i}
    BY <1>2
  <2> SUFFICES Kept(i, live)
    <3> HIDE DEF Kept
    <3> QED  BY <2>2
  <2>3. CASE ~(es[i].expires > t)
    <3>1. live = was
      BY <1>1, <2>3
    <3> HIDE DEF was, live
    <3>2. \A j \in 1 .. i : es[j].expires > t => j \in 1 .. i - 1
      BY <2>2, <2>3
    <3>3. ASSUME NEW j \in 1 .. i, es[j].expires > t
          PROVE  \E k \in 1 .. Len(was) : was[k] = es[j] /\ Len(was) - k <= i - j
      <4>1. PICK k \in 1 .. Len(was) : was[k] = es[j] /\ Len(was) - k <= i - 1 - j
        BY <2>1, <3>2, <3>3
      <4> QED  BY <2>1, <2>2, <4>1
    <3>4. \A k \in 1 .. Len(was) : \E j \in 1 .. i : was[k] = es[j] /\ es[j].expires > t
      BY <2>1, <2>2
    <3>5. Kept(i, was)
      BY <2>1, <2>2, <3>3, <3>4
    <3> HIDE DEF Kept
    <3> QED  BY <3>1, <3>5 DEF live
  <2>4. CASE es[i].expires > t
    <3>1. live = Append(was, es[i])
      BY <1>1, <2>4
    <3> HIDE DEF was, live
    <3>2. /\ live \in Seq(Entry) /\ Len(live) = Len(was) + 1
          /\ \A k \in 1 .. Len(was) : live[k] = was[k]
          /\ live[Len(was) + 1] = es[i]
          /\ Len(was) \in Nat
      BY <2>1, <2>2, <3>1
    <3>3. \A j \in 1 .. i : es[j].expires > t =>
            \E k \in 1 .. Len(live) : live[k] = es[j] /\ Len(live) - k <= i - j
      <4>1. ASSUME NEW j \in 1 .. i - 1, es[j].expires > t
            PROVE  \E k \in 1 .. Len(live) : live[k] = es[j] /\ Len(live) - k <= i - j
        <5>1. PICK k \in 1 .. Len(was) : was[k] = es[j] /\ Len(was) - k <= i - 1 - j
          BY <2>1, <4>1
        <5>2. k \in 1 .. Len(live) /\ live[k] = es[j] /\ Len(live) - k <= i - j
          BY <2>2, <3>2, <5>1
        <5> QED  BY <5>2
      <4>2. Len(live) \in 1 .. Len(live) /\ live[Len(live)] = es[i] /\ Len(live) - Len(live) <= i - i
        BY <2>2, <3>2
      <4> QED  BY <2>2, <4>1, <4>2
    <3>4. \A k \in 1 .. Len(live) : \E j \in 1 .. i : live[k] = es[j] /\ es[j].expires > t
      <4>1. ASSUME NEW k \in 1 .. Len(was)
            PROVE  \E j \in 1 .. i : live[k] = es[j] /\ es[j].expires > t
        BY <2>1, <2>2, <3>2
      <4>2. i \in 1 .. i /\ live[Len(was) + 1] = es[i]
        BY <2>2, <3>2
      <4> QED  BY <2>4, <3>2, <4>1, <4>2
    <3>5. \A k, l \in 1 .. Len(live) : live[k].requestId = live[l].requestId => k = l
      <4>1. ASSUME NEW k \in 1 .. Len(was)
            PROVE  was[k].requestId # es[i].requestId
        <5>1. PICK j \in 1 .. i - 1 : was[k] = es[j]
          BY <2>1
        <5>2. j \in DOMAIN es /\ i \in DOMAIN es /\ j # i
          BY <1>2, <2>2
        <5> QED  BY <5>1, <5>2 DEF Distinct
      <4>2. \A k \in 1 .. Len(live) : k \in 1 .. Len(was) \/ k = Len(was) + 1
        BY <3>2
      <4>3. \A k, l \in 1 .. Len(was) : was[k].requestId = was[l].requestId => k = l
        BY <2>1
      <4> QED  BY <3>2, <4>1, <4>2, <4>3
    <3>6. Len(live) <= i
      BY <2>1, <2>2, <3>2
    <3>7. Kept(i, live)
      BY <3>2, <3>3, <3>4, <3>5, <3>6
    <3> HIDE DEF Kept
    <3> QED  BY <3>7 DEF live
  <2> QED  BY <2>3, <2>4
<1> HIDE DEF T
<1>5. n \in T
  <2>1. \A i \in 1 .. n : i - 1 \in T => i \in T
    BY <1>4
  <2>2. n \in Nat /\ n \in 0 .. n
    BY <1>2
  <2> HIDE DEF n
  <2>3. 0 .. n \subseteq T
    BY <1>3, <2>1, <2>2, Counting
  <2> QED  BY <2>2, <2>3
<1> DEFINE live == Pruned(es, t)
<1>6. Kept(n, live)
  BY <1>1, <1>5 DEF T
<1>7. DOMAIN live = 1 .. Len(live)
  BY <1>6
<1> HIDE DEF live
<1>8. live \in Seq(Entry) /\ Len(live) <= Len(es) /\ Distinct(live)
  BY <1>6, <1>7 DEF Distinct
<1>9. \A k \in DOMAIN live : \E j \in DOMAIN es : live[k] = es[j] /\ es[j].expires > t
  BY <1>2, <1>6, <1>7, SMTT(30)
<1>10. \A j \in DOMAIN es : es[j].expires > t =>
         \E k \in DOMAIN live : live[k] = es[j] /\ Len(live) - k <= Len(es) - j
  BY <1>2, <1>6, <1>7
<1> QED  BY <1>8, <1>9, <1>10 DEF live

\* An answer is found just when find() says so, and it is the one that was
\* remembered.
LEMMA FoundIsRemembered ==
  ASSUME NEW es \in Seq(Entry), NEW t \in Nat, Distinct(es),
         NEW i \in DOMAIN es, es[i].expires > t
  PROVE  Finds(es, es[i].requestId, t) /\ Found(es, es[i].requestId, t) = es[i].answer
<1> DEFINE id == es[i].requestId
           live == Pruned(es, t)
           match == {k \in DOMAIN live : live[k].requestId = id}
           least == CHOOSE k \in match : \A j \in match : k <= j
<1>1. live \in Seq(Entry) /\ Distinct(live)
  BY PruneKeeps
<1>2. PICK k \in DOMAIN live : live[k] = es[i]
  BY PruneKeeps
<1>3. k \in Int
  BY <1>1
<1>4. Found(es, id, t) = live[least].answer
  BY DEF Found
<1>5. match = {k}
  <2> HIDE DEF live
  <2> QED  BY <1>1, <1>2 DEF Distinct
<1> HIDE DEF live, match
<1>6. least = k
  BY <1>3, <1>5
<1>7. Finds(es, id, t)
  BY DEF Finds
<1> HIDE DEF least
<1> QED  BY <1>2, <1>4, <1>6, <1>7

\* What remember() leaves: the new entry at the end, the oldest one gone if
\* there is no room, and the others one deeper at most.
LEMMA RememberKeeps ==
  ASSUME NEW es \in Seq(Entry), NEW id \in RequestIds, NEW answer \in Answer, NEW t \in Nat,
         Distinct(es), Len(es) <= MaximumEntries, ~Finds(es, id, t)
  PROVE  LET after == Remember(es, id, answer, t)
         IN  /\ after \in Seq(Entry) /\ Len(after) \in 1 .. MaximumEntries
             /\ Distinct(after)
             /\ after[Len(after)] =
                  [requestId |-> id, answer |-> answer, expires |-> t + Retention]
             /\ \A j \in DOMAIN es :
                  es[j].expires > t /\ Len(es) - j + 1 < MaximumEntries =>
                    \E l \in DOMAIN after :
                      after[l] = es[j] /\ Len(after) - l <= Len(es) - j + 1
<1> DEFINE live == Pruned(es, t)
           new == [requestId |-> id, answer |-> answer, expires |-> t + Retention]
           kept == IF Len(live) >= MaximumEntries THEN Tail(live) ELSE live
           after == Append(kept, new)
<1>1. Remember(es, id, answer, t) = after
  BY DEF Remember
<1>2. /\ live \in Seq(Entry) /\ Len(live) <= Len(es)
      /\ Distinct(live)
      /\ \A j \in DOMAIN es : es[j].expires > t =>
           \E k \in DOMAIN live : live[k] = es[j] /\ Len(live) - k <= Len(es) - j
      /\ \A k \in DOMAIN live : \E j \in DOMAIN es : live[k] = es[j] /\ es[j].expires > t
  BY PruneKeeps, Zenon
<1>3. \A k \in DOMAIN live : live[k].requestId # id
  BY <1>2, SMTT(20) DEF Finds
<1>4. new \in Entry /\ new.requestId = id
  BY DeduplicatorAssumption DEF Entry
<1> HIDE DEF live, new
<1>5. MaximumEntries \in Nat \ {0} /\ Len(live) \in Nat /\ DOMAIN live = 1 .. Len(live)
  BY <1>2, DeduplicatorAssumption
<1> DEFINE Without(d) ==  \* the first d entries
             /\ Len(kept) = Len(live) - d /\ Len(kept) < MaximumEntries
             /\ Len(live) < MaximumEntries => d = 0
             /\ \A k \in 1 .. Len(kept) : kept[k] = live[k + d]
<1>6. kept \in Seq(Entry) /\ \E d \in {0, 1} : Without(d)
  <2>1. CASE Len(live) >= MaximumEntries
    <3>1. live # <<>> /\ Len(es) \in Nat
      BY <1>5, <2>1
    <3>2. /\ Tail(live) \in Seq(Entry) /\ Len(Tail(live)) = Len(live) - 1
          /\ \A k \in 1 .. Len(live) - 1 : Tail(live)[k] = live[k + 1]
      BY <1>2, <1>5, <3>1
    <3>3. Len(live) - 1 < MaximumEntries
      BY <1>2, <1>5, <3>1
    <3>4. kept = Tail(live)
      BY <2>1
    <3> HIDE DEF kept
    <3>5. Without(1)
      BY <1>5, <2>1, <3>2, <3>3, <3>4
    <3> HIDE DEF Without
    <3> QED  BY <3>2, <3>4, <3>5
  <2>2. CASE ~(Len(live) >= MaximumEntries)
    <3>1. kept = live
      BY <2>2
    <3> HIDE DEF kept
    <3>2. Without(0)
      BY <1>5, <2>2, <3>1
    <3> HIDE DEF Without
    <3> QED  BY <1>2, <3>1, <3>2
  <2> QED  BY <2>1, <2>2
<1> HIDE DEF kept
<1>7. PICK d \in {0, 1} : Without(d)
  BY <1>6
<1>8. /\ after \in Seq(Entry) /\ Len(after) = Len(kept) + 1
      /\ \A k \in 1 .. Len(kept) : after[k] = kept[k]
      /\ after[Len(kept) + 1] = new
      /\ Len(kept) \in Nat /\ DOMAIN after = 1 .. Len(kept) + 1
  BY <1>4, <1>6
<1> HIDE DEF after
<1>9. Len(after) \in 1 .. MaximumEntries
  BY <1>5, <1>7, <1>8
<1>10. Distinct(after)
  <2>1. \A k \in 1 .. Len(kept) : k + d \in DOMAIN live /\ after[k] = live[k + d]
    BY <1>5, <1>7, <1>8
  <2>2. ASSUME NEW i \in DOMAIN after, NEW j \in DOMAIN after,
               after[i].requestId = after[j].requestId
        PROVE  i = j
    <3>1. CASE i \in 1 .. Len(kept) /\ j \in 1 .. Len(kept)
      <4>1. /\ i + d \in DOMAIN live /\ after[i] = live[i + d]
            /\ j + d \in DOMAIN live /\ after[j] = live[j + d]
        BY <2>1, <3>1
      <4>2. live[i + d].requestId = live[j + d].requestId
        BY <2>2, <4>1
      <4>3. Distinct(live)
        BY <1>2
      <4>4. i + d = j + d
        BY <4>1, <4>2, <4>3, Zenon DEF Distinct
      <4> QED  BY <3>1, <4>4
    <3>2. CASE i = Len(kept) + 1 /\ j \in 1 .. Len(kept)
      BY <1>3, <1>4, <1>8, <2>1, <2>2, <3>2
    <3>3. CASE j = Len(kept) + 1 /\ i \in 1 .. Len(kept)
      BY <1>3, <1>4, <1>8, <2>1, <2>2, <3>3
    <3> QED  BY <1>8, <3>1, <3>2, <3>3
  <2> QED  BY <2>2 DEF Distinct
<1>11. ASSUME NEW j \in DOMAIN es, es[j].expires > t, Len(es) - j + 1 < MaximumEntries
       PROVE  \E l \in DOMAIN after : after[l] = es[j] /\ Len(after) - l <= Len(es) - j + 1
  <2>1. PICK k \in DOMAIN live : live[k] = es[j] /\ Len(live) - k <= Len(es) - j
    BY <1>2, <1>11
  <2>2. j \in Int /\ Len(es) \in Nat /\ k \in 1 .. Len(live)
    BY <1>5
  <2>3. k - d \in 1 .. Len(kept)
    <3>1. CASE d = 0
      BY <1>7, <2>2, <3>1
    <3>2. CASE d = 1
      <4>1. Len(live) >= MaximumEntries /\ Len(kept) = Len(live) - 1
        BY <1>5, <1>7, <3>2
      <4>2. Len(live) - k + 1 < MaximumEntries
        BY <1>5, <1>11, <2>1, <2>2
      <4> QED  BY <1>5, <2>2, <3>2, <4>1, <4>2
    <3> QED  BY <3>1, <3>2
  <2>4. after[k - d] = es[j]
    <3>1. kept[k - d] = live[(k - d) + d] /\ (k - d) + d = k
      BY <1>7, <2>2, <2>3
    <3> QED  BY <1>8, <2>1, <2>3, <3>1
  <2>5. k - d \in DOMAIN after /\ Len(after) - (k - d) <= Len(es) - j + 1
    BY <1>7, <1>8, <2>1, <2>2, <2>3, SMTT(30)
  <2> QED  BY <2>4, <2>5
<1> QED  BY <1>1, <1>8, <1>9, <1>10, <1>11 DEF new
-----------------------------------------------------------------------------
(* The invariant of RequestApi. *)

\* There is a PIN, and a shutter that can move, in a session only.
InSession ==
  /\ started => pin \in Pins
  /\ ~started => phase = "off"

\* The entry that answers a request with the id as it was answered first.  It
\* is no deeper in the memory than the number of ids answered since.
Keeps(es, id, t) ==
  \E i \in DOMAIN es : /\ es[i].requestId = id
                       /\ es[i].answer = t.answer
                       /\ es[i].expires = t.until
                       /\ Len(es) - i <= t.newer

\* All ids are remembered as they were answered first.
Remembering ==
  /\ Distinct(entries)
  /\ \A id \in RequestIds : Remembered(id) => Keeps(entries, id, told[id])

\* The inductive invariant.
IInv == TypeOK /\ InSession /\ Remembering

\* A request is handled, from its limiter to its answer.
Handled ==
  \E c \in Clients, p \in Pins \cup {NoPin} :
    \/ \E flag \in BOOLEAN : Rejected(c, p, flag) \/ SetFocus(c, p, flag)
    \/ Malformed(c, p) \/ CancelCountdown(c, p)
    \/ \E id \in RequestIds :
         \/ KnownCapture(c, p, id)
         \/ \E inRange \in BOOLEAN : NewCapture(c, p, id, inRange)

\* No session has the empty PIN.
LEMMA RealPin == \A p \in Pins : p # NoPin
BY ApiAssumption
-----------------------------------------------------------------------------
(* The calls of one request. *)

\* Without the PIN of the session the shutter stays as it is, whatever else
\* the request is.
LEMMA PinOrNothing ==
  ASSUME Handled, phase' # phase
  PROVE  reply'.pin = pin /\ UNCHANGED <<started, pin>> /\ phase # "off"
<1>1. PICK c \in Clients, p \in Pins \cup {NoPin} :
        \/ \E flag \in BOOLEAN : Rejected(c, p, flag) \/ SetFocus(c, p, flag)
        \/ Malformed(c, p) \/ CancelCountdown(c, p)
        \/ \E id \in RequestIds :
             \/ KnownCapture(c, p, id)
             \/ \E inRange \in BOOLEAN : NewCapture(c, p, id, inRange)
  BY DEF Handled
<1>2. ASSUME Admitted(c, p), NEW id, NEW code, Answered(id, p, code)
      PROVE  reply'.pin = pin /\ UNCHANGED <<started, pin>>
  BY <1>2 DEF Admitted, Arrives, Answered, runtime
<1>3. CASE \E flag \in BOOLEAN : Rejected(c, p, flag)
  BY <1>3 DEF Rejected
<1>4. CASE Malformed(c, p)
  BY <1>4 DEF Malformed
<1>5. CASE \E id \in RequestIds : KnownCapture(c, p, id)
  BY <1>5 DEF KnownCapture
<1>6. CASE CancelCountdown(c, p)
  <2>1. phase # "off"
    BY <1>6 DEF CancelCountdown, Cancel, Moves
  <2> QED  BY <1>2, <1>6, <2>1 DEF CancelCountdown
<1>7. ASSUME NEW flag \in BOOLEAN, SetFocus(c, p, flag)
      PROVE  reply'.pin = pin /\ UNCHANGED <<started, pin>> /\ phase # "off"
  <2>1. phase # "off"
    BY <1>7 DEF SetFocus, Hold, Unhold, Moves
  <2>2. Admitted(c, p) /\ \E code : Answered("", p, code)
    BY <1>7, Zenon DEF SetFocus
  <2> QED  BY <1>2, <2>1, <2>2
<1>8. ASSUME NEW id \in RequestIds, NEW inRange \in BOOLEAN, NewCapture(c, p, id, inRange)
      PROVE  reply'.pin = pin /\ UNCHANGED <<started, pin>> /\ phase # "off"
  <2>1. phase # "off"
    BY <1>8 DEF NewCapture, Outcome, Request, Moves
  <2> QED  BY <1>2, <1>8, <2>1 DEF NewCapture
<1> QED  BY <1>1, <1>3, <1>4, <1>5, <1>6, <1>7, <1>8

\* Before the first answer there is none to compare with.
LEMMA NothingHasNoId == Nothing.id = ""
BY DEF Nothing

\* The status that tells the client whether it got the shot.
LEMMA Codes ==
  ASSUME NEW answer \in Answer
  PROVE  StatusOf(answer) = 202 <=> answer = "accepted"
<1>1. CASE answer = "accepted"
  BY <1>1 DEF StatusOf
<1>2. CASE answer = "refused"
  BY <1>2 DEF StatusOf
<1>3. CASE answer = "invalid"
  BY <1>3 DEF StatusOf
<1> QED  BY <1>1, <1>2, <1>3 DEF Answer

\* A new capture request is accepted just when it gets the shutter.
LEMMA OutcomeIsTrue ==
  ASSUME NEW inRange \in BOOLEAN, NEW answer \in Answer, Outcome(inRange, answer)
  PROVE  answer = "accepted" <=> phase = "armed" /\ phase' \in {"pending", "shooting"}
BY DEF Outcome, Request, Moves

\* A capture request that is new is answered by what the shutter does.
LEMMA CaptureIsTrue ==
  ASSUME NEW c, NEW p, NEW id \in RequestIds, NEW inRange \in BOOLEAN,
         NewCapture(c, p, id, inRange)
  PROVE  reply'.code = 202 <=> phase = "armed" /\ phase' \in {"pending", "shooting"}
<1>1. PICK answer \in Answer :
        Outcome(inRange, answer) /\ Answered(id, p, StatusOf(answer))
  BY DEF NewCapture
<1>2. reply'.code = StatusOf(answer)
  BY <1>1 DEF Answered
<1> QED  BY <1>1, <1>2, Codes, OutcomeIsTrue

\* Only a capture request has an id.
LEMMA IdsAreOfCaptures ==
  ASSUME Handled, reply'.id # "", ~Finds(entries, reply'.id, now)
  PROVE  \E c \in Clients, p \in Pins \cup {NoPin}, id \in RequestIds, inRange \in BOOLEAN :
           NewCapture(c, p, id, inRange)
<1>1. PICK c \in Clients, p \in Pins \cup {NoPin} :
        \/ \E flag \in BOOLEAN : Rejected(c, p, flag) \/ SetFocus(c, p, flag)
        \/ Malformed(c, p) \/ CancelCountdown(c, p)
        \/ \E id \in RequestIds :
             \/ KnownCapture(c, p, id)
             \/ \E inRange \in BOOLEAN : NewCapture(c, p, id, inRange)
  BY DEF Handled
<1>2. ASSUME NEW id, NEW code, Answered(id, p, code)
      PROVE  reply'.id = id
  BY <1>2 DEF Answered
<1>3. ASSUME NEW flag \in BOOLEAN, Rejected(c, p, flag) \/ SetFocus(c, p, flag)
      PROVE  FALSE
  <2>1. Rejected(c, p, flag) => \E code : Answered("", p, code)
    BY Zenon DEF Rejected
  <2>2. SetFocus(c, p, flag) => \E code : Answered("", p, code)
    BY Zenon DEF SetFocus
  <2> QED  BY <1>2, <1>3, <2>1, <2>2
<1>4. ASSUME Malformed(c, p) \/ CancelCountdown(c, p)
      PROVE  FALSE
  <2>1. ASSUME Malformed(c, p)
        PROVE  reply'.id = ""
    <3>1. PICK code \in {400, 404} : Answered("", p, code)
      BY <2>1, Zenon DEF Malformed
    <3> QED  BY <3>1 DEF Answered
  <2>2. CancelCountdown(c, p) => \E code : Answered("", p, code)
    BY DEF CancelCountdown
  <2> QED  BY <1>2, <1>4, <2>1, <2>2
<1>5. ASSUME NEW id \in RequestIds, KnownCapture(c, p, id)
      PROVE  FALSE
  <2>1. Finds(entries, id, now) /\ reply'.id = id
    BY <1>2, <1>5 DEF KnownCapture
  <2> QED  BY <2>1
<1> QED  BY <1>1, <1>2, <1>3, <1>4, <1>5
-----------------------------------------------------------------------------
(* What a request does to the memory of answers. *)

\* A request for what is remembered.
Recalled(id) ==
  /\ Finds(entries, id, now)
  /\ reply' = [id |-> id, pin |-> reply'.pin, code |-> StatusOf(Found(entries, id, now))]
  /\ entries' = Pruned(entries, now)
  /\ UNCHANGED <<phase, told>>

\* What the history says after an answer to a new id.
ToldAfter(id, answer) ==
  [other \in RequestIds |->
     IF other = id
     THEN [answer |-> answer, until |-> now + Retention, newer |-> 0]
     ELSE IF told[other] = Untold \/ told[other].newer = MaximumEntries
     THEN told[other] ELSE [told[other] EXCEPT !.newer = @ + 1]]

\* A request for something new.
Learned(id, answer) ==
  /\ ~Finds(entries, id, now)
  /\ reply' = [id |-> id, pin |-> reply'.pin, code |-> StatusOf(answer)]
  /\ entries' = Remember(Pruned(entries, now), id, answer, now)
  /\ told' = ToldAfter(id, answer)

\* The other requests carry no id.
Forgettable == reply'.id = "" /\ UNCHANGED <<entries, told>>

\* A request recalls an answer, or learns one, or leaves the memory alone.
LEMMA RequestMemory ==
  ASSUME IInv, Handled
  PROVE  /\ \E c \in Clients : Arrives(c)
         /\ reply' \in Reply
         /\ \/ Forgettable
            \/ \E id \in RequestIds : Recalled(id)
            \/ \E id \in RequestIds, answer \in Answer : Learned(id, answer)
<1>1. PICK c \in Clients, p \in Pins \cup {NoPin} :
        \/ \E flag \in BOOLEAN : Rejected(c, p, flag) \/ SetFocus(c, p, flag)
        \/ Malformed(c, p) \/ CancelCountdown(c, p)
        \/ \E id \in RequestIds :
             \/ KnownCapture(c, p, id)
             \/ \E inRange \in BOOLEAN : NewCapture(c, p, id, inRange)
  BY DEF Handled
<1>2. ASSUME NEW code \in Code, Answered("", p, code), UNCHANGED <<entries, told>>
      PROVE  reply' \in Reply /\ Forgettable
  BY <1>2 DEF Answered, Reply, Forgettable
<1>3. /\ 200 \in Code /\ 202 \in Code /\ 400 \in Code /\ 401 \in Code
      /\ 404 \in Code /\ 409 \in Code /\ 415 \in Code /\ 429 \in Code
  BY DEF Code
<1>4. \A answer \in Answer : StatusOf(answer) \in Code
  <2>1. \A answer \in Answer : answer \in {"accepted", "refused", "invalid"}
    BY DEF Answer
  <2>2. /\ StatusOf("accepted") = 202 /\ StatusOf("refused") = 409 /\ StatusOf("invalid") = 400
    BY DEF StatusOf
  <2> QED  BY <1>3, <2>1, <2>2
<1>5. ASSUME NEW flag \in BOOLEAN, Rejected(c, p, flag)
      PROVE  reply' \in Reply /\ Forgettable /\ Arrives(c)
  <2>1. PICK code \in Code : Answered("", p, code)
    BY <1>3, <1>5, ZenonT(60) DEF Rejected
  <2>2. Arrives(c) /\ UNCHANGED <<entries, told>>
    BY <1>5 DEF Rejected
  <2> QED  BY <1>2, <2>1, <2>2, Zenon
<1>6. ASSUME NEW flag \in BOOLEAN, SetFocus(c, p, flag)
      PROVE  reply' \in Reply /\ Forgettable /\ Arrives(c)
  <2>1. PICK code \in Code : Answered("", p, code)
    <3>1. \/ Answered("", p, IF phase' = "held" THEN 200 ELSE 409)
          \/ Answered("", p, 200) \/ Answered("", p, 409)
      BY <1>6, Zenon DEF SetFocus
    <3>2. (IF phase' = "held" THEN 200 ELSE 409) \in Code
      BY <1>3
    <3> QED  BY <1>3, <3>1, <3>2, ZenonT(60)
  <2>2. Arrives(c) /\ UNCHANGED <<entries, told>>
    BY <1>6 DEF SetFocus, Admitted
  <2> QED  BY <1>2, <2>1, <2>2, Zenon
<1>7. CASE Malformed(c, p)
  <2>1. PICK code \in {400, 404} : Answered("", p, code)
    BY <1>7, Zenon DEF Malformed
  <2>2. Arrives(c) /\ UNCHANGED <<entries, told>>
    BY <1>7, Zenon DEF Malformed, Admitted
  <2>3. code \in Code
    <3>1. {400, 404} \subseteq Code
      BY DEF Code
    <3> QED  BY <2>1, <3>1, ZenonT(60)
  <2> QED  BY <1>2, <2>1, <2>2, <2>3, Zenon
<1>8. CASE CancelCountdown(c, p)
  <2>1. PICK code \in Code : Answered("", p, code)
    BY <1>3, <1>8, Zenon DEF CancelCountdown
  <2>2. Arrives(c) /\ UNCHANGED <<entries, told>>
    BY <1>8 DEF CancelCountdown, Admitted
  <2> QED  BY <1>2, <2>1, <2>2, Zenon
<1>9. ASSUME NEW id \in RequestIds, NEW code \in Code, Answered(id, p, code)
      PROVE  reply' \in Reply /\ reply' = [id |-> id, pin |-> reply'.pin, code |-> code]
  BY <1>9 DEF Answered, Reply
<1>10. ASSUME NEW id \in RequestIds, KnownCapture(c, p, id)
       PROVE  reply' \in Reply /\ Recalled(id) /\ Arrives(c)
  <2>1. /\ Finds(entries, id, now)
        /\ Answered(id, p, StatusOf(Found(entries, id, now)))
        /\ entries' = Pruned(entries, now)
        /\ UNCHANGED <<phase, told>>
        /\ Arrives(c)
    BY <1>10, Zenon DEF KnownCapture, Admitted
  <2>2. PICK i \in DOMAIN entries : entries[i].requestId = id /\ entries[i].expires > now
    BY <2>1 DEF Finds
  <2>3. Found(entries, id, now) = entries[i].answer
    BY <2>2, FoundIsRemembered DEF IInv, TypeOK, Remembering
  <2>4. entries[i].answer \in Answer
    <3>1. entries \in Seq(Entry)
      BY DEF IInv, TypeOK
    <3>2. entries[i] \in Entry
      BY <3>1
    <3> QED  BY <3>2 DEF Entry
  <2>5. /\ reply' \in Reply
        /\ reply' = [id |-> id, pin |-> reply'.pin, code |-> StatusOf(Found(entries, id, now))]
    BY <1>4, <1>9, <2>1, <2>3, <2>4
  <2> QED  BY <2>1, <2>5, Zenon DEF Recalled
<1>11. ASSUME NEW id \in RequestIds, NEW inRange \in BOOLEAN, NewCapture(c, p, id, inRange)
       PROVE  /\ reply' \in Reply /\ Arrives(c)
              /\ \E answer \in Answer : Learned(id, answer)
  <2>1. PICK answer \in Answer :
          /\ Answered(id, p, StatusOf(answer))
          /\ entries' = Remember(Pruned(entries, now), id, answer, now)
          /\ told' = ToldAfter(id, answer)
    BY <1>11, Zenon DEF NewCapture, ToldAfter
  <2>2. Arrives(c) /\ ~Finds(entries, id, now)
    BY <1>11, Zenon DEF NewCapture, Admitted
  <2>3. reply' \in Reply /\ reply' = [id |-> id, pin |-> reply'.pin, code |-> StatusOf(answer)]
    BY <1>4, <1>9, <2>1
  <2>4. Learned(id, answer)
    BY <2>1, <2>2, <2>3, Zenon DEF Learned
  <2> QED  BY <2>2, <2>3, <2>4
<1> QED  BY <1>1, <1>5, <1>6, <1>7, <1>8, <1>10, <1>11
-----------------------------------------------------------------------------
(* The steps. *)

\* What is remembered is kept while prune() drops what has expired.
LEMMA PruneRemembers ==
  ASSUME IInv, NEW id \in RequestIds, Remembered(id)
  PROVE  Keeps(Pruned(entries, now), id, told[id])
<1>1. PICK i \in DOMAIN entries : /\ entries[i].requestId = id
                                  /\ entries[i].answer = told[id].answer
                                  /\ entries[i].expires = told[id].until
                                  /\ Len(entries) - i <= told[id].newer
  BY DEF IInv, Remembering, Keeps
<1>2. entries[i].expires > now
  BY <1>1 DEF Remembered
<1>3. entries \in Seq(Entry) /\ now \in Nat /\ Distinct(entries)
  BY DEF IInv, TypeOK, Remembering
<1> DEFINE live == Pruned(entries, now)
<1>4. PICK k \in DOMAIN live : live[k] = entries[i] /\ Len(live) - k <= Len(entries) - i
  BY <1>2, <1>3, PruneKeeps
<1>5. live \in Seq(Entry)
  BY <1>3, PruneKeeps
<1> HIDE DEF live
<1>6. told[id].newer \in Int
  BY DEF IInv, TypeOK, Told
<1> QED  BY <1>1, <1>3, <1>4, <1>5, <1>6 DEF Keeps, live

\* A capture request with an id that is remembered is found, with its answer.
LEMMA RememberedIsFound ==
  ASSUME IInv, NEW id \in RequestIds, Remembered(id)
  PROVE  Finds(entries, id, now) /\ Found(entries, id, now) = told[id].answer
<1>1. PICK i \in DOMAIN entries : /\ entries[i].requestId = id
                                  /\ entries[i].answer = told[id].answer
                                  /\ entries[i].expires = told[id].until
  BY DEF IInv, Remembering, Keeps
<1>2. entries[i].expires > now
  BY <1>1 DEF Remembered
<1>3. entries \in Seq(Entry) /\ now \in Nat /\ Distinct(entries)
  BY DEF IInv, TypeOK, Remembering
<1> QED  BY <1>1, <1>2, <1>3, FoundIsRemembered

\* A request keeps the memory in order.
LEMMA MemoryKept ==
  ASSUME IInv, Handled
  PROVE  /\ entries' \in Seq(Entry) /\ Len(entries') <= MaximumEntries
         /\ told' \in [RequestIds -> Told]
         /\ Remembering'
<1>1. /\ entries \in Seq(Entry) /\ Len(entries) <= MaximumEntries /\ now \in Nat
      /\ told \in [RequestIds -> Told] /\ Distinct(entries)
      /\ \A id \in RequestIds : Remembered(id) => Keeps(entries, id, told[id])
  BY DEF IInv, TypeOK, Remembering
<1>2. now' = now
  BY RequestMemory DEF Arrives
<1> DEFINE live == Pruned(entries, now)
<1>3. /\ live \in Seq(Entry) /\ Len(live) <= MaximumEntries /\ Distinct(live)
      /\ \A k \in DOMAIN live : \E j \in DOMAIN entries :
           live[k] = entries[j] /\ entries[j].expires > now
  <2>1. /\ live \in Seq(Entry) /\ Len(live) <= Len(entries) /\ Distinct(live)
        /\ \A k \in DOMAIN live : \E j \in DOMAIN entries :
             live[k] = entries[j] /\ entries[j].expires > now
    BY <1>1, PruneKeeps
  <2> HIDE DEF live
  <2> QED  BY <1>1, <2>1, DeduplicatorAssumption
<1>4. \A id \in RequestIds : Remembered(id) => Keeps(live, id, told[id])
  BY PruneRemembers
<1>5. CASE Forgettable
  BY <1>1, <1>2, <1>5 DEF Forgettable, Remembering, Remembered
<1>6. ASSUME NEW id \in RequestIds, Recalled(id)
      PROVE  /\ entries' \in Seq(Entry) /\ Len(entries') <= MaximumEntries
             /\ told' \in [RequestIds -> Told]
             /\ Remembering'
  <2>1. entries' = live /\ told' = told
    BY <1>6 DEF Recalled
  <2> HIDE DEF live
  <2> QED  BY <1>1, <1>2, <1>3, <1>4, <2>1 DEF Remembering, Remembered
<1>7. ASSUME NEW id \in RequestIds, NEW answer \in Answer, Learned(id, answer)
      PROVE  /\ entries' \in Seq(Entry) /\ Len(entries') <= MaximumEntries
             /\ told' \in [RequestIds -> Told]
             /\ Remembering'
  <2> DEFINE after == Remember(live, id, answer, now)
  <2>1. entries' = after /\ told' = ToldAfter(id, answer) /\ ~Finds(entries, id, now)
    BY <1>7 DEF Learned
  <2>2. ~Finds(live, id, now)
    BY <1>3, <2>1 DEF Finds
  <2> HIDE DEF live
  <2>3. /\ after \in Seq(Entry) /\ Len(after) \in 1 .. MaximumEntries
        /\ Distinct(after)
        /\ after[Len(after)] =
             [requestId |-> id, answer |-> answer, expires |-> now + Retention]
        /\ \A j \in DOMAIN live :
             live[j].expires > now /\ Len(live) - j + 1 < MaximumEntries =>
               \E l \in DOMAIN after : after[l] = live[j] /\ Len(after) - l <= Len(live) - j + 1
    BY <1>1, <1>3, <2>2, RememberKeeps
  <2> HIDE DEF after
  <2>4. ASSUME NEW other \in RequestIds
        PROVE  /\ told'[other] \in Told
               /\ told'[other].until > now /\ told'[other].newer < MaximumEntries =>
                    Keeps(after, other, told'[other])
    <3>1. CASE other = id
      <4>1. told'[other] = [answer |-> answer, until |-> now + Retention, newer |-> 0]
        BY <2>1, <3>1 DEF ToldAfter
      <4>2. told'[other] \in Told
        BY <1>1, <4>1, DeduplicatorAssumption DEF Told
      <4>3. /\ Len(after) \in DOMAIN after /\ Len(after) - Len(after) <= 0
            /\ after[Len(after)].requestId = other
            /\ after[Len(after)].answer = answer
            /\ after[Len(after)].expires = now + Retention
        BY <2>3, <3>1
      <4>4. Keeps(after, other, told'[other])
        BY <4>1, <4>3 DEF Keeps
      <4> QED  BY <4>2, <4>4
    <3>2. CASE other # id /\ (told[other] = Untold \/ told[other].newer = MaximumEntries)
      <4>1. told'[other] = told[other] /\ told[other] \in Told
        BY <1>1, <2>1, <3>2 DEF ToldAfter
      <4>2. told[other] = Untold => ~(told[other].until > now)
        BY <1>1 DEF Untold
      <4>3. told[other].newer = MaximumEntries => ~(told[other].newer < MaximumEntries)
        BY DeduplicatorAssumption
      <4> QED  BY <3>2, <4>1, <4>2, <4>3
    <3>3. CASE other # id /\ told[other] # Untold /\ told[other].newer # MaximumEntries
      <4> DEFINE t == told[other]
      <4>1. told'[other] = [t EXCEPT !.newer = @ + 1]
        BY <2>1, <3>3 DEF ToldAfter
      <4>2. t \in Told /\ t.newer # MaximumEntries
        BY <1>1, <3>3
      <4>3. Remembered(other) <=> t.until > now /\ t.newer < MaximumEntries
        BY DEF Remembered
      <4>4. Remembered(other) => Keeps(live, other, t)
        BY <1>4
      <4> DEFINE u == told'[other]
      <4> HIDE DEF t
      <4>5. /\ u \in Told /\ u.answer = t.answer /\ u.until = t.until
            /\ u.newer = t.newer + 1 /\ t.newer \in Nat
        BY <4>1, <4>2, DeduplicatorAssumption DEF Told
      <4> HIDE DEF u
      <4>6. ASSUME u.until > now, u.newer < MaximumEntries
            PROVE  Keeps(after, other, u)
        <5>1. Remembered(other)
          BY <4>3, <4>5, <4>6, DeduplicatorAssumption
        <5>2. PICK i \in DOMAIN live : /\ live[i].requestId = other
                                       /\ live[i].answer = t.answer
                                       /\ live[i].expires = t.until
                                       /\ Len(live) - i <= t.newer
          BY <4>4, <5>1 DEF Keeps
        <5>3. i \in Int /\ Len(live) \in Nat
          BY <1>3
        <5>4. live[i].expires > now /\ Len(live) - i + 1 < MaximumEntries
          BY <4>5, <4>6, <5>2, <5>3, DeduplicatorAssumption
        <5>5. PICK l \in DOMAIN after : after[l] = live[i] /\ Len(after) - l <= Len(live) - i + 1
          BY <2>3, <5>4
        <5>6. Len(after) - l <= u.newer
          <6>1. l \in Int /\ Len(after) \in Nat
            BY <2>3
          <6> QED  BY <4>5, <5>2, <5>3, <5>5, <6>1
        <5> QED  BY <4>5, <5>2, <5>5, <5>6 DEF Keeps
      <4> QED  BY <4>5, <4>6 DEF u
    <3> QED  BY <3>1, <3>2, <3>3
  <2>5. told' \in [RequestIds -> Told]
    <3>1. told' = [other \in RequestIds |-> told'[other]]
      BY <2>1 DEF ToldAfter
    <3> QED  BY <2>4, <3>1
  <2>6. Remembering'
    <3>1. \A other \in RequestIds : Remembered(other)' => Keeps(entries, other, told[other])'
      BY <1>2, <2>1, <2>4 DEF Remembered
    <3> QED  BY <2>1, <2>3, <3>1 DEF Remembering
  <2> QED  BY <2>1, <2>3, <2>5, <2>6, DeduplicatorAssumption
<1> QED  BY <1>5, <1>6, <1>7, RequestMemory

\* The limiter keeps its type, whoever is served.
LEMMA ServedType ==
  ASSUME NEW bs \in Seq(Limiter!Bucket), Len(bs) <= MaximumKeys,
         NEW c \in Clients, NEW t \in Nat
  PROVE  /\ Limiter!Served(bs, c, t) \in Seq(Limiter!Bucket)
         /\ Len(Limiter!Served(bs, c, t)) <= MaximumKeys
<1> DEFINE fresh == Limiter!Fresh(c, t)
           kept == IF Limiter!Evicts(bs, c) THEN Tail(bs) ELSE bs
           found == Limiter!WithBucket(bs, c, t)
<1>1. fresh \in Limiter!Bucket
  BY ApiAssumption DEF Limiter!Fresh, Limiter!Bucket
<1>2. found \in Seq(Limiter!Bucket) /\ Len(found) <= MaximumKeys
  <2>1. CASE Limiter!Holds(bs, c)
    BY <2>1 DEF Limiter!WithBucket
  <2>2. CASE ~Limiter!Holds(bs, c) /\ Len(bs) >= MaximumKeys
    <3>1. found = Append(Tail(bs), fresh)
      BY <2>2 DEF Limiter!WithBucket, Limiter!Evicts
    <3>2. bs # <<>>
      BY <2>2, ApiAssumption
    <3> HIDE DEF fresh, found
    <3>3. Tail(bs) \in Seq(Limiter!Bucket) /\ Len(Tail(bs)) = Len(bs) - 1
      BY <3>2
    <3> QED  BY <1>1, <3>1, <3>3, ApiAssumption
  <2>3. CASE ~Limiter!Holds(bs, c) /\ ~(Len(bs) >= MaximumKeys)
    <3>1. found = Append(bs, fresh)
      BY <2>3 DEF Limiter!WithBucket, Limiter!Evicts
    <3> HIDE DEF fresh, found
    <3> QED  BY <1>1, <2>3, <3>1, ApiAssumption
  <2> QED  BY <2>1, <2>2, <2>3
<1>3. ASSUME NEW b \in Limiter!Bucket
      PROVE  Limiter!Charged(Limiter!Refilled(b, t)) \in Limiter!Bucket
  <2> DEFINE r == Limiter!Refilled(b, t)
  <2>1. r \in Limiter!Bucket
    <3> DEFINE sum == b.tokens + t - b.last
               k == IF sum > Capacity THEN Capacity ELSE sum
    <3>1. CASE t > b.last
      <4>1. r = [b EXCEPT !.tokens = k, !.last = t]
        BY <3>1 DEF Limiter!Refilled
      <4>2. k \in 0 .. Capacity
        BY <3>1, ApiAssumption DEF Limiter!Bucket
      <4> HIDE DEF k
      <4> QED  BY <4>1, <4>2 DEF Limiter!Bucket
    <3>2. CASE ~(t > b.last)
      BY <3>2 DEF Limiter!Refilled
    <3> QED  BY <3>1, <3>2
  <2> HIDE DEF r
  <2>2. Limiter!Charged(r) \in Limiter!Bucket
    BY <2>1, ApiAssumption DEF Limiter!Charged, Limiter!Bucket
  <2> QED  BY <2>2 DEF r
<1> DEFINE served == Limiter!Served(bs, c, t)
<1>4. served = [i \in DOMAIN found |->
                  IF found[i].key = c THEN Limiter!Charged(Limiter!Refilled(found[i], t))
                  ELSE found[i]]
  BY DEF Limiter!Served
<1> HIDE DEF served, found
<1>5. DOMAIN found = 1 .. Len(found) /\ Len(found) \in Nat
  BY <1>2
<1>6. \A i \in 1 .. Len(found) : served[i] \in Limiter!Bucket
  BY <1>2, <1>3, <1>4, <1>5
<1>7. served \in [1 .. Len(found) -> Limiter!Bucket]
  BY <1>4, <1>5, <1>6
<1> QED  BY <1>2, <1>5, <1>7 DEF served

\* A request leaves the session and the clock alone.
LEMMA RequestFrame ==
  ASSUME IInv, Handled
  PROVE  /\ UNCHANGED <<started, serving, pin, now>>
         /\ phase' \in Phase
         /\ mutation' \in Seq(Limiter!Bucket) /\ Len(mutation') <= MaximumKeys
         /\ reply' \in Reply
<1>1. PICK c \in Clients : Arrives(c)
  BY RequestMemory
<1>2. UNCHANGED <<started, serving, pin, now>>
  BY <1>1 DEF Arrives, runtime
<1>3. mutation' \in Seq(Limiter!Bucket) /\ Len(mutation') <= MaximumKeys
  BY <1>1, ServedType DEF Arrives, IInv, TypeOK
<1>4. phase' \in Phase
  <2>1. \A c1, p, flag : Rejected(c1, p, flag) => UNCHANGED phase
    BY DEF Rejected
  <2>2. \A c1, p, flag : SetFocus(c1, p, flag) => UNCHANGED phase \/ phase' \in Phase
    BY DEF SetFocus, Hold, Unhold, Moves, Phase
  <2>3. \A c1, p : Malformed(c1, p) => UNCHANGED phase
    BY DEF Malformed
  <2>4. \A c1, p : CancelCountdown(c1, p) => UNCHANGED phase \/ phase' \in Phase
    BY DEF CancelCountdown, Cancel, Moves, Phase
  <2>5. \A c1, p, id : KnownCapture(c1, p, id) => UNCHANGED phase
    BY DEF KnownCapture
  <2>6. \A c1, p, id, flag : NewCapture(c1, p, id, flag) => UNCHANGED phase \/ phase' \in Phase
    BY DEF NewCapture, Outcome, Request, Moves, Phase
  <2>7. phase' = phase \/ phase' \in Phase
    BY <2>1, <2>2, <2>3, <2>4, <2>5, <2>6, Zenon DEF Handled
  <2> QED  BY <2>7 DEF IInv, TypeOK
<1> QED  BY <1>2, <1>3, <1>4, RequestMemory

\* A request preserves the invariant.
LEMMA RequestInv ==
  ASSUME IInv, Handled
  PROVE  IInv'
<1>1. ~started => phase' = phase
  BY PinOrNothing DEF IInv, InSession
<1>2. InSession'
  BY <1>1, RequestFrame DEF IInv, InSession
<1>3. TypeOK'
  BY MemoryKept, RequestFrame DEF IInv, TypeOK
<1> QED  BY <1>2, <1>3, MemoryKept DEF IInv

\* The type of an id that was not answered yet.
LEMMA UntoldType == Untold \in Told /\ Nothing.id = ""
BY DeduplicatorAssumption DEF Untold, Told, Nothing

\* A session starts with nothing remembered.
LEMMA StartInv ==
  ASSUME IInv, StartSession
  PROVE  IInv'
<1>1. /\ entries' = <<>> /\ mutation' = <<>> /\ now' = now /\ reply' = Nothing
      /\ told' = [id \in RequestIds |-> Untold]
      /\ started' = TRUE /\ serving' = TRUE /\ pin' \in Pins /\ phase' = "unready"
  BY DEF StartSession, Begin, Moves
<1>2. \A id \in RequestIds : ~Remembered(id)'
  BY <1>1 DEF IInv, TypeOK, Remembered, Untold
<1>3. Remembering'
  BY <1>1, <1>2 DEF Remembering, Distinct
<1>4. TypeOK'
  <2>1. told' \in [RequestIds -> Told]
    BY <1>1, UntoldType
  <2> QED  BY <1>1, <2>1, DeduplicatorAssumption, ApiAssumption DEF IInv, TypeOK, Phase
<1> QED  BY <1>1, <1>3, <1>4 DEF IInv, InSession

\* Time lets an answer expire in the memory and in the history alike.
LEMMA TimeInv ==
  ASSUME IInv, TimePasses
  PROVE  IInv'
<1>1. /\ now \in Nat /\ now' = now + 1 /\ reply' = Nothing
      /\ told \in [RequestIds -> Told]
      /\ told' = [id \in RequestIds |-> IF told[id].until > now' THEN told[id] ELSE Untold]
      /\ UNCHANGED <<phase, started, serving, pin, entries, mutation>>
  BY DEF IInv, TypeOK, TimePasses, runtime
<1>2. ASSUME NEW id \in RequestIds
      PROVE  told'[id] \in Told /\ (Remembered(id)' => Remembered(id) /\ told'[id] = told[id])
  <2>1. CASE told[id].until > now'
    <3>1. told'[id] = told[id] /\ told[id].until \in Nat
      BY <1>1, <2>1 DEF Told
    <3> QED  BY <1>1, <2>1, <3>1 DEF Remembered
  <2>2. CASE ~(told[id].until > now')
    <3>1. told'[id] = Untold
      BY <1>1, <2>2
    <3>2. Untold.until = 0 /\ ~(0 > now')
      BY <1>1 DEF Untold
    <3> QED  BY <3>1, <3>2, UntoldType DEF Remembered
  <2> QED  BY <2>1, <2>2
<1>3. told' \in [RequestIds -> Told]
  BY <1>1, <1>2
<1>4. Remembering'
  BY <1>1, <1>2 DEF IInv, Remembering
<1>5. TypeOK'
  BY <1>1, <1>3 DEF IInv, TypeOK
<1> QED  BY <1>1, <1>4, <1>5 DEF IInv, InSession

\* A step that leaves the memory and the clock alone.
LEMMA MemoryFrame ==
  ASSUME IInv, UNCHANGED <<entries, mutation, now, told>>,
         phase' \in Phase, started' \in BOOLEAN, serving' \in BOOLEAN,
         pin' \in Pins \cup {NoPin}, reply' \in Reply \cup {Nothing},
         InSession'
  PROVE  IInv'
<1>1. TypeOK'
  BY Zenon DEF IInv, TypeOK
<1>2. Remembering'
  BY DEF IInv, Remembering, Remembered
<1> QED  BY <1>1, <1>2 DEF IInv

\* Every step preserves the invariant.
LEMMA StepInvariant ==
  ASSUME IInv, [Next]_vars
  PROVE  IInv'
<1>1. CASE StartSession
  BY <1>1, StartInv
<1>2. CASE StopSession
  <2>1. /\ UNCHANGED <<entries, mutation, now, told, serving>>
        /\ phase' = "off" /\ started' = FALSE /\ pin' = NoPin /\ reply' = Nothing
    BY <1>2 DEF StopSession, End, Moves
  <2> QED  BY <2>1, MemoryFrame DEF IInv, TypeOK, InSession, Phase
<1>3. CASE JoinServer
  <2>1. /\ UNCHANGED <<entries, mutation, now, told, phase, started, pin>>
        /\ serving' = FALSE /\ reply' = Nothing
    BY <1>3 DEF JoinServer
  <2> QED  BY <2>1, MemoryFrame DEF IInv, TypeOK, InSession
<1>4. CASE ShutterMoves
  <2>1. /\ UNCHANGED <<entries, mutation, now, told, started, serving, pin>>
        /\ started /\ reply' = Nothing
    BY <1>4, Zenon DEF ShutterMoves, runtime
  <2>2. phase' \in Phase
    BY <1>4 DEF ShutterMoves, Ready, Unready, Hold, Unhold, Press, Elapse, Fails, Moves, Phase
  <2> QED  BY <2>1, <2>2, MemoryFrame DEF IInv, TypeOK, InSession
<1>5. CASE TimePasses
  BY <1>5, TimeInv
<1>6. CASE Handled
  BY <1>6, RequestInv
<1>7. CASE UNCHANGED vars
  <2>1. UNCHANGED <<phase, started, serving, pin, entries, mutation, now, told, reply>>
    BY <1>7 DEF vars
  <2> QED  BY <2>1, MemoryFrame DEF IInv, TypeOK, InSession
<1> QED  BY <1>1, <1>2, <1>3, <1>4, <1>5, <1>6, <1>7 DEF Next, Handled

\* Every other step clears the reply.
LEMMA OnlyRequestsReply ==
  ASSUME [Next]_vars, ~Handled
  PROVE  reply' = Nothing \/ UNCHANGED vars
BY DEF Next, Handled, StartSession, StopSession, JoinServer, ShutterMoves, TimePasses
-----------------------------------------------------------------------------
(* The theorems about RequestApi. *)

\* Types, the session with its PIN and shutter, and what is remembered.
THEOREM Invariant == Spec => []IInv
<1>1. ASSUME Init
      PROVE  IInv
  <2>1. /\ phase = "off" /\ started = FALSE /\ serving = FALSE /\ pin = NoPin
        /\ entries = <<>> /\ mutation = <<>> /\ now = 0 /\ reply = Nothing
        /\ told = [id \in RequestIds |-> Untold]
    BY <1>1 DEF Init, PhaseInit
  <2>2. \A id \in RequestIds : ~Remembered(id)
    BY <2>1 DEF Remembered, Untold
  <2>3. Remembering
    BY <2>1, <2>2 DEF Remembering, Distinct
  <2>4. told \in [RequestIds -> Told]
    BY <2>1, UntoldType
  <2>5. TypeOK
    <3>1. /\ entries \in Seq(Entry) /\ Len(entries) <= MaximumEntries
          /\ mutation \in Seq(Limiter!Bucket) /\ Len(mutation) <= MaximumKeys
          /\ now \in Nat
      BY <2>1, DeduplicatorAssumption, ApiAssumption
    <3>2. phase \in Phase /\ started \in BOOLEAN /\ serving \in BOOLEAN
      BY <2>1 DEF Phase
    <3> QED  BY <2>1, <2>4, <3>1, <3>2, Zenon DEF TypeOK
  <2> QED  BY <2>1, <2>3, <2>5 DEF IInv, InSession
<1>2. IInv /\ [Next]_vars => IInv'
  BY StepInvariant
<1> QED  BY <1>1, <1>2, PTL DEF Spec

\* TypeOK: with the bounds on the memory of answers and on the limiter.
THEOREM TypeCorrect == Spec => []TypeOK
<1>1. IInv => TypeOK
  BY DEF IInv
<1> QED  BY <1>1, Invariant, PTL

\* RetriesAnsweredAlike: a capture request that is sent again is answered as
\* it was, and does nothing.
THEOREM RetriesAlike == Spec => RetriesAnsweredAlike
<1>1. ASSUME IInv, [Next]_vars, reply'.id # "", Remembered(reply'.id), ~UNCHANGED vars
      PROVE  reply'.code = StatusOf(told[reply'.id].answer) /\ phase' = phase
  <2>1. CASE ~Handled
    BY <1>1, <2>1, OnlyRequestsReply, UntoldType
  <2>2. CASE Handled
    <3>1. PICK id \in RequestIds :
            Recalled(id) \/ \E answer \in Answer : Learned(id, answer)
      BY <1>1, <2>2, RequestMemory DEF Forgettable
    <3>2. reply'.id = id
      BY <3>1 DEF Recalled, Learned
    <3>3. Finds(entries, id, now) /\ Found(entries, id, now) = told[id].answer
      BY <1>1, <3>2, RememberedIsFound
    <3>4. Recalled(id)
      BY <3>1, <3>3 DEF Learned
    <3> QED  BY <3>2, <3>3, <3>4 DEF Recalled
  <2> QED  BY <2>1, <2>2
<1>2. IInv /\ [Next]_vars =>
        [reply'.id # "" /\ Remembered(reply'.id) =>
           reply'.code = StatusOf(told[reply'.id].answer) /\ phase' = phase]_vars
  BY <1>1
<1> QED  BY <1>2, Invariant, PTL DEF Spec, RetriesAnsweredAlike

\* PinGuardsTheShutter: no request moves the shutter without the PIN.
THEOREM PinGuards == Spec => PinGuardsTheShutter
<1>1. ASSUME IInv, [Next]_vars, reply' # Nothing, phase' # phase
      PROVE  started /\ pin # NoPin /\ reply'.pin = pin
  <2>1. Handled
    BY <1>1, OnlyRequestsReply DEF vars
  <2>2. reply'.pin = pin /\ phase # "off"
    BY <1>1, <2>1, PinOrNothing
  <2> QED  BY <1>1, <2>2, RealPin DEF IInv, InSession, TypeOK
<1>2. IInv /\ [Next]_vars =>
        [reply' # Nothing /\ phase' # phase =>
           started /\ pin # NoPin /\ reply'.pin = pin]_vars
  BY <1>1
<1> QED  BY <1>2, Invariant, PTL DEF Spec, PinGuardsTheShutter

\* AnswersAreTrue: 202 is answered just when the request got the shutter.
THEOREM TrueAnswers == Spec => AnswersAreTrue
<1>1. ASSUME Next, reply'.id # "", ~Finds(entries, reply'.id, now)
      PROVE  reply'.code = 202 <=> phase = "armed" /\ phase' \in {"pending", "shooting"}
  <2>1. CASE Handled
    <3>1. PICK c \in Clients, p \in Pins \cup {NoPin}, id \in RequestIds, inRange \in BOOLEAN :
            NewCapture(c, p, id, inRange)
      BY <1>1, <2>1, IdsAreOfCaptures
    <3> QED  BY <3>1, CaptureIsTrue
  <2>2. CASE ~Handled
    <3>1. reply' = Nothing
      BY <1>1, <2>2 DEF Next, Handled, StartSession, StopSession, JoinServer, ShutterMoves,
                        TimePasses
    <3> QED  BY <1>1, <3>1, NothingHasNoId
  <2> QED  BY <2>1, <2>2
<1>2. [Next]_vars =>
        [reply'.id # "" /\ ~Remembered(reply'.id) /\ ~Finds(entries, reply'.id, now) =>
           (reply'.code = 202 <=> phase = "armed" /\ phase' \in {"pending", "shooting"})]_vars
  BY <1>1
<1> QED  BY <1>2, PTL DEF Spec, AnswersAreTrue
-----------------------------------------------------------------------------
(* The verdict on the first bytes of a request. *)

\* A verdict other than "incomplete" is that on any more bytes, but for the
\* ends of chunks that matter.
LEMMA VerdictStays ==
  ASSUME NEW m \in Message, NEW i \in Nat, NEW n \in Nat, i <= n,
         VerdictOn(m, i) # "incomplete", ~Matters(m, i, n)
  PROVE  VerdictOn(m, n) = VerdictOn(m, i)
<1>1. /\ m.nul \in Nat /\ m.lineEnd \in Nat /\ m.headerEnd \in Nat /\ m.headers.length \in Nat
      /\ {MaxRequestLine, MaxHeaders, MaxBody} \subseteq Nat
  BY LimitAssumption DEF Message, Headers
<1>2. /\ i <= MaxHeaders + MaxBody /\ n <= MaxHeaders + MaxBody
      /\ ~(i <= m.nul /\ m.nul < n)
      /\ ~(m.lineEnd = MaxRequestLine /\ i = MaxRequestLine + 1)
  BY <1>1 DEF Matters
<1>3. VerdictOn(m, i) = Parse(m, i) /\ VerdictOn(m, n) = Parse(m, n)
  BY <1>1, <1>2 DEF VerdictOn
<1>4. LineVerdict(m, i) # "incomplete" => LineVerdict(m, n) = LineVerdict(m, i)
  BY <1>1, <1>2 DEF LineVerdict
<1>5. HeaderVerdict(m, i) # "incomplete" => HeaderVerdict(m, n) = HeaderVerdict(m, i)
  BY <1>1 DEF HeaderVerdict
<1>6. BodyVerdict(m, i) # "incomplete" => BodyVerdict(m, n) = BodyVerdict(m, i)
  BY <1>1 DEF BodyVerdict, Total
<1> QED  BY <1>3, <1>4, <1>5, <1>6 DEF Parse

\* The parser has one of its verdicts.
LEMMA VerdictType ==
  ASSUME NEW m \in Message, NEW n \in Nat
  PROVE  VerdictOn(m, n) \in Verdict
<1>1. m.headers.verdict \in Verdict
  BY DEF Message, Headers
<1>2. LineVerdict(m, n) \in Verdict
  BY DEF LineVerdict, LineContents, Verdict
<1>3. HeaderVerdict(m, n) \in Verdict
  BY <1>1 DEF HeaderVerdict, Verdict
<1>4. BodyVerdict(m, n) \in Verdict
  BY DEF BodyVerdict, Verdict
<1>5. "large" \in Verdict
  BY DEF Verdict
<1> QED  BY <1>2, <1>3, <1>4, <1>5 DEF VerdictOn, Parse
-----------------------------------------------------------------------------
(* The fields of the header section. *)

\* What the loop keeps of the fields it has read.
Scan == [verdict : Verdict, hasLength : BOOLEAN, length : Int, pin : Int, contentType : Int]

\* LegalFields, of the first n fields.
LegalUpTo(fs, n) ==
  /\ \A i \in 1 .. n :
       /\ fs[i].name # "malformed"
       /\ fs[i].name = "transfer-encoding" => fs[i].value = 0
       /\ fs[i].name = "content-length" => fs[i].value \in 0 .. MaxBody
  /\ \A i, j \in 1 .. n :
       /\ fs[i].name = "content-length" /\ fs[j].name = "content-length" =>
            fs[i].value = fs[j].value
       /\ fs[i].name = "x-legacyalpha-pin" /\ fs[j].name = "x-legacyalpha-pin" =>
            (i < j /\ fs[i].value # 0 => fs[j].value = fs[i].value)

\* What the loop knows of the first n fields: whether they are legal, and
\* then their length and their PIN.
Knows(fs, n, s) ==
  /\ s \in Scan
  /\ s.verdict = "ok" <=> LegalUpTo(fs, n)
  /\ s.verdict = "ok" =>
       /\ s.hasLength <=> \E i \in 1 .. n : fs[i].name = "content-length"
       /\ ~s.hasLength => s.length = 0
       /\ \A i \in 1 .. n : fs[i].name = "content-length" => s.length = fs[i].value
       /\ \A i \in 1 .. n : fs[i].name = "x-legacyalpha-pin" /\ fs[i].value # 0 =>
            s.pin = fs[i].value
       /\ s.pin # 0 => \E i \in 1 .. n : fs[i].name = "x-legacyalpha-pin" /\ fs[i].value = s.pin

\* A round of the loop over the fields keeps the type of its state.
LEMMA ReadFieldType ==
  ASSUME NEW s \in Scan, NEW f \in Field
  PROVE  ReadField(s, f) \in Scan
<1>1. f.value \in Int /\ {"ok", "bad", "large", "unsupported"} \subseteq Verdict
  BY DEF Field, Verdict
<1>2. ReadLength(s, f.value) \in Scan
  BY <1>1 DEF ReadLength, Scan
<1>3. ReadPin(s, f.value) \in Scan
  BY <1>1 DEF ReadPin, Scan
<1>4. \A v \in Verdict : [s EXCEPT !.verdict = v] \in Scan
  BY DEF Scan
<1>5. [s EXCEPT !.contentType = f.value] \in Scan
  BY <1>1 DEF Scan
<1>6. (IF f.value # 0 THEN "unsupported" ELSE "ok") \in Verdict
  BY <1>1
<1> QED  BY <1>1, <1>2, <1>3, <1>4, <1>5, <1>6 DEF ReadField

\* The rounds of the loop.
LEMMA FieldRuns ==
  ASSUME NEW fs \in Seq(Field)
  PROVE  \E h : /\ h[0] = NoHeaders
                /\ \A i \in 1 .. Len(fs) : h[i] = ReadField(h[i - 1], fs[i])
                /\ ReadFields(fs) = h[Len(fs)]
<1> DEFINE n == Len(fs)
           next == [p \in (1 .. n) \X Scan |-> ReadField(p[2], fs[p[1]])]
           Rounds(g) == [i \in 0 .. n |->
                           IF i = 0 THEN NoHeaders ELSE ReadField(g[i - 1], fs[i])]
           f == CHOOSE g : g = Rounds(g)
<1>1. n \in Nat /\ \A i \in 1 .. n : fs[i] \in Field
  OBVIOUS
<1>2. NoHeaders \in Scan
  BY DEF NoHeaders, Scan, Verdict
<1>3. \A i \in 1 .. n, s \in Scan : next[<<i, s>>] = ReadField(s, fs[i])
  OBVIOUS
<1>4. \A i \in 1 .. n, s \in Scan : next[<<i, s>>] \in Scan
  BY <1>1, <1>3, ReadFieldType
<1> HIDE DEF next
<1>5. PICK h : Course(Scan, n, NoHeaders, next, h)
  BY <1>1, <1>2, <1>4, LoopRuns
<1>6. /\ h \in [0 .. n -> Scan] /\ h[0] = NoHeaders
      /\ \A i \in 1 .. n : h[i] = next[<<i, h[i - 1]>>]
  BY <1>5 DEF Course
<1>7. h = Rounds(h)
  <2>1. ASSUME NEW i \in 0 .. n
        PROVE  h[i] = Rounds(h)[i]
    <3>1. CASE i = 0
      BY <1>6, <3>1
    <3>2. CASE i # 0
      <4>1. i \in 1 .. n /\ i - 1 \in 0 .. n /\ h[i - 1] \in Scan
        BY <1>1, <1>6, <3>2
      <4>2. h[i] = ReadField(h[i - 1], fs[i])
        BY <1>3, <1>6, <4>1
      <4> QED  BY <3>2, <4>2
    <3> QED  BY <3>1, <3>2
  <2> DEFINE r == Rounds(h)
  <2>2. r = [i \in 0 .. n |-> r[i]] /\ h = [i \in 0 .. n |-> h[i]]
    BY <1>6
  <2>3. \A i \in 0 .. n : h[i] = r[i]
    BY <2>1
  <2> HIDE DEF r
  <2>4. h = r
    BY <2>2, <2>3
  <2> QED  BY <2>4 DEF r
<1>8. f = Rounds(f)
  BY <1>7, Zenon
<1>9. ReadFields(fs) = f[n]
  BY DEF ReadFields
<1> HIDE DEF f
<1>10. f[0] = NoHeaders
  BY <1>1, <1>8
<1>11. \A i \in 1 .. n : f[i] = ReadField(f[i - 1], fs[i])
  <2>1. ASSUME NEW i \in 1 .. n
        PROVE  f[i] = ReadField(f[i - 1], fs[i])
    <3>1. i \in 0 .. n /\ i # 0
      BY <1>1
    <3>2. f[i] = Rounds(f)[i]
      BY <1>8, Zenon
    <3> QED  BY <3>1, <3>2
  <2> QED  BY <2>1
<1> QED  BY <1>9, <1>10, <1>11

\* What LegalUpTo says of one field more.
LEMMA OneFieldMore ==
  ASSUME NEW fs, NEW n \in Nat \ {0}
  PROVE  LegalUpTo(fs, n) <=>
           /\ LegalUpTo(fs, n - 1)
           /\ fs[n].name # "malformed"
           /\ fs[n].name = "transfer-encoding" => fs[n].value = 0
           /\ fs[n].name = "content-length" =>
                /\ fs[n].value \in 0 .. MaxBody
                /\ \A i \in 1 .. n - 1 : fs[i].name = "content-length" => fs[i].value = fs[n].value
           /\ fs[n].name = "x-legacyalpha-pin" =>
                \A i \in 1 .. n - 1 :
                   fs[i].name = "x-legacyalpha-pin" /\ fs[i].value # 0 => fs[n].value = fs[i].value
<1>1. /\ \A i : i \in 1 .. n <=> i \in 1 .. n - 1 \/ i = n
      /\ \A i \in 1 .. n - 1 : i < n /\ ~(n < i)
      /\ ~(n < n)
  OBVIOUS
<1> DEFINE N == 1 .. n
           M == 1 .. n - 1
<1>2. /\ \A i : i \in N <=> i \in M \/ i = n
      /\ \A i \in M : i < n /\ ~(n < i)
  BY <1>1
<1>3. /\ LegalUpTo(fs, n) <=>
           /\ \A i \in N :
                /\ fs[i].name # "malformed"
                /\ fs[i].name = "transfer-encoding" => fs[i].value = 0
                /\ fs[i].name = "content-length" => fs[i].value \in 0 .. MaxBody
           /\ \A i, j \in N :
                /\ fs[i].name = "content-length" /\ fs[j].name = "content-length" =>
                     fs[i].value = fs[j].value
                /\ fs[i].name = "x-legacyalpha-pin" /\ fs[j].name = "x-legacyalpha-pin" =>
                     (i < j /\ fs[i].value # 0 => fs[j].value = fs[i].value)
      /\ LegalUpTo(fs, n - 1) <=>
           /\ \A i \in M :
                /\ fs[i].name # "malformed"
                /\ fs[i].name = "transfer-encoding" => fs[i].value = 0
                /\ fs[i].name = "content-length" => fs[i].value \in 0 .. MaxBody
           /\ \A i, j \in M :
                /\ fs[i].name = "content-length" /\ fs[j].name = "content-length" =>
                     fs[i].value = fs[j].value
                /\ fs[i].name = "x-legacyalpha-pin" /\ fs[j].name = "x-legacyalpha-pin" =>
                     (i < j /\ fs[i].value # 0 => fs[j].value = fs[i].value)
  BY DEF LegalUpTo
<1> HIDE DEF N, M
<1> QED  BY <1>1, <1>2, <1>3 DEF M

\* One more field.
LEMMA FieldStep ==
  ASSUME NEW fs \in Seq(Field), NEW n \in 1 .. Len(fs), NEW s, Knows(fs, n - 1, s)
  PROVE  Knows(fs, n, ReadField(s, fs[n]))
<1> DEFINE f == fs[n]
           v == f.value
           t == ReadField(s, f)
<1>1. /\ f \in Field /\ v \in Int /\ n \in Nat \ {0} /\ s \in Scan
      /\ 1 .. n = (1 .. n - 1) \cup {n}
  <2>1. Len(fs) \in Nat /\ f \in Field
    OBVIOUS
  <2>2. v \in Int
    BY <2>1 DEF Field
  <2> QED  BY <2>1, <2>2 DEF Knows
<1>2. t \in Scan
  BY <1>1, ReadFieldType
<1>3. CASE s.verdict # "ok"
  <2>1. t = s
    BY <1>3 DEF ReadField
  <2>2. ~LegalUpTo(fs, n)
    BY <1>1, <1>3, OneFieldMore DEF Knows
  <2> QED  BY <1>2, <1>3, <2>1, <2>2 DEF Knows
<1>4. CASE s.verdict = "ok" /\ f.name = "content-length"
  <2>1. t = ReadLength(s, v)
    BY <1>4 DEF ReadField
  <2>2. CASE v < 0 \/ (s.hasLength /\ v # s.length)
    <3>1. t.verdict = "bad"
      BY <1>1, <2>1, <2>2 DEF ReadLength, Scan
    <3>2. ~LegalUpTo(fs, n)
      BY <1>1, <1>4, <2>2, OneFieldMore DEF Knows
    <3> QED  BY <1>2, <3>1, <3>2 DEF Knows
  <2>3. CASE ~(v < 0 \/ (s.hasLength /\ v # s.length))
    <3>1. /\ t.verdict = IF v > MaxBody THEN "large" ELSE "ok"
          /\ t.hasLength = TRUE /\ t.length = v /\ t.pin = s.pin
      BY <1>1, <2>1, <2>3 DEF ReadLength, Scan
    <3>2. LegalUpTo(fs, n) <=> ~(v > MaxBody)
      BY <1>1, <1>4, <2>3, LimitAssumption, OneFieldMore DEF Knows
    <3>3. t.verdict = "ok" <=> LegalUpTo(fs, n)
      BY <3>1, <3>2
    <3>4. \A i \in 1 .. n : fs[i].name = "content-length" => t.length = fs[i].value
      BY <1>1, <1>4, <2>3, <3>1 DEF Knows
    <3>5. \E i \in 1 .. n : fs[i].name = "content-length"
      BY <1>1, <1>4
    <3>6. /\ \A i \in 1 .. n : fs[i].name = "x-legacyalpha-pin" /\ fs[i].value # 0 =>
               t.pin = fs[i].value
          /\ t.pin # 0 =>
               \E i \in 1 .. n : fs[i].name = "x-legacyalpha-pin" /\ fs[i].value = t.pin
      BY <1>1, <1>4, <3>1 DEF Knows
    <3>7. t.hasLength
      BY <3>1
    <3> HIDE DEF t
    <3> QED  BY <1>2, <3>3, <3>4, <3>5, <3>6, <3>7, Zenon DEF Knows, t
  <2> QED  BY <2>2, <2>3
<1>5. CASE s.verdict = "ok" /\ f.name = "x-legacyalpha-pin"
  <2>1. t = ReadPin(s, v)
    BY <1>5 DEF ReadField
  <2>2. CASE s.pin # 0 /\ s.pin # v
    <3>1. t.verdict = "bad"
      BY <1>1, <2>1, <2>2 DEF ReadPin, Scan
    <3>2. ~LegalUpTo(fs, n)
      BY <1>1, <1>5, <2>2, OneFieldMore DEF Knows
    <3> QED  BY <1>2, <3>1, <3>2 DEF Knows
  <2>3. CASE ~(s.pin # 0 /\ s.pin # v)
    <3>1. /\ t.verdict = "ok" /\ t.pin = v
          /\ t.hasLength = s.hasLength /\ t.length = s.length
      BY <1>1, <1>5, <2>1, <2>3 DEF ReadPin, Scan
    <3>2. LegalUpTo(fs, n)
      BY <1>1, <1>5, <2>3, OneFieldMore DEF Knows
    <3>3. /\ s.hasLength <=> \E i \in 1 .. n : fs[i].name = "content-length"
          /\ ~s.hasLength => s.length = 0
          /\ \A i \in 1 .. n : fs[i].name = "content-length" => s.length = fs[i].value
      BY <1>1, <1>5 DEF Knows
    <3>4. \A i \in 1 .. n : fs[i].name = "x-legacyalpha-pin" /\ fs[i].value # 0 =>
            t.pin = fs[i].value
      BY <1>1, <1>5, <2>3, <3>1 DEF Knows
    <3>5. \E i \in 1 .. n : fs[i].name = "x-legacyalpha-pin" /\ fs[i].value = t.pin
      BY <1>1, <1>5, <3>1
    <3>6. t.hasLength <=> s.hasLength
      BY <3>1
    <3> HIDE DEF t
    <3> QED  BY <1>2, <3>1, <3>2, <3>3, <3>4, <3>5, <3>6, Zenon DEF Knows, t
  <2> QED  BY <2>2, <2>3
<1>6. ASSUME s.verdict = "ok", t.hasLength = s.hasLength, t.length = s.length, t.pin = s.pin,
             f.name \notin {"content-length", "x-legacyalpha-pin"},
             t.verdict = "ok" <=> LegalUpTo(fs, n)
      PROVE  Knows(fs, n, t)
  <2> HIDE DEF t
  <2> QED  BY <1>1, <1>2, <1>6 DEF Knows
<1>7. CASE s.verdict = "ok" /\ f.name = "transfer-encoding"
  <2>1. t = [s EXCEPT !.verdict = IF v # 0 THEN "unsupported" ELSE "ok"]
    BY <1>7 DEF ReadField
  <2>2. /\ t.verdict = IF v # 0 THEN "unsupported" ELSE "ok"
        /\ t.hasLength = s.hasLength /\ t.length = s.length /\ t.pin = s.pin
    BY <1>1, <2>1 DEF Scan
  <2>3. LegalUpTo(fs, n) <=> v = 0
    BY <1>1, <1>7, OneFieldMore DEF Knows
  <2> QED  BY <1>6, <1>7, <2>2, <2>3
<1>8. CASE s.verdict = "ok" /\ f.name = "malformed"
  <2>1. t = [s EXCEPT !.verdict = "bad"]
    BY <1>8 DEF ReadField
  <2>2. t.verdict = "bad"
    BY <1>1, <2>1 DEF Scan
  <2>3. ~LegalUpTo(fs, n)
    BY <1>1, <1>8, OneFieldMore
  <2> QED  BY <1>2, <2>2, <2>3 DEF Knows
<1>9. CASE s.verdict = "ok" /\ f.name \in {"content-type", "other"}
  <2>1. t = s \/ t = [s EXCEPT !.contentType = v]
    BY <1>9 DEF ReadField
  <2>2. /\ t.verdict = "ok"
        /\ t.hasLength = s.hasLength /\ t.length = s.length /\ t.pin = s.pin
    BY <1>1, <1>9, <2>1 DEF Scan
  <2>3. LegalUpTo(fs, n)
    BY <1>1, <1>9, OneFieldMore DEF Knows
  <2> QED  BY <1>6, <1>9, <2>2, <2>3
<1> QED  BY <1>1, <1>3, <1>4, <1>5, <1>7, <1>8, <1>9 DEF Field

\* The whole section.
LEMMA SectionKnown ==
  ASSUME NEW fs \in Seq(Field)
  PROVE  Knows(fs, Len(fs), ReadFields(fs))
<1> DEFINE n == Len(fs)
<1>1. PICK h : /\ h[0] = NoHeaders
               /\ \A i \in 1 .. n : h[i] = ReadField(h[i - 1], fs[i])
               /\ ReadFields(fs) = h[n]
  BY FieldRuns
<1> DEFINE T == {i \in 0 .. n : Knows(fs, i, h[i])}
<1>2. n \in Nat
  OBVIOUS
<1>3. 0 \in T
  <2>1. Knows(fs, 0, NoHeaders)
    BY DEF Knows, LegalUpTo, NoHeaders, Scan, Verdict
  <2> QED  BY <1>1, <1>2, <2>1
<1>4. \A i \in 1 .. n : i - 1 \in T => i \in T
  BY <1>1, <1>2, FieldStep
<1> HIDE DEF T
<1>5. n \in T
  <2>1. 0 .. n \subseteq T
    BY <1>2, <1>3, <1>4, Counting
  <2> QED  BY <1>2, <2>1
<1> QED  BY <1>1, <1>5 DEF T

\* The verdict of the loop is that of the reference definition.
LEMMA SectionVerdict ==
  ASSUME NEW fs \in Seq(Field)
  PROVE  /\ ReadFields(fs).verdict = "ok" <=> LegalFields(fs)
         /\ LegalFields(fs) =>
              (ReadFields(fs).hasLength <=> \E i \in DOMAIN fs : fs[i].name = "content-length")
<1> DEFINE n == Len(fs)
<1>1. DOMAIN fs = 1 .. n
  OBVIOUS
<1>2. LegalFields(fs) <=> LegalUpTo(fs, n)
  <2> DEFINE D == DOMAIN fs
  <2>1. LegalUpTo(fs, n) <=>
          /\ \A i \in D :
               /\ fs[i].name # "malformed"
               /\ fs[i].name = "transfer-encoding" => fs[i].value = 0
               /\ fs[i].name = "content-length" => fs[i].value \in 0 .. MaxBody
          /\ \A i, j \in D :
               /\ fs[i].name = "content-length" /\ fs[j].name = "content-length" =>
                    fs[i].value = fs[j].value
               /\ fs[i].name = "x-legacyalpha-pin" /\ fs[j].name = "x-legacyalpha-pin" =>
                    (i < j /\ fs[i].value # 0 => fs[j].value = fs[i].value)
    BY <1>1 DEF LegalUpTo
  <2>2. LegalFields(fs) <=>
          /\ \A i \in D : fs[i].name # "malformed"
          /\ \A i, j \in D : fs[i].name = "content-length" /\ fs[j].name = "content-length" =>
               fs[i].value = fs[j].value /\ fs[i].value \in 0 .. MaxBody
          /\ \A i \in D : fs[i].name = "transfer-encoding" => fs[i].value = 0
          /\ \A i, j \in D : fs[i].name = "x-legacyalpha-pin" /\ fs[j].name = "x-legacyalpha-pin" =>
               (i < j /\ fs[i].value # 0 => fs[j].value = fs[i].value)
    BY DEF LegalFields
  <2> HIDE DEF D
  <2> QED  BY <2>1, <2>2
<1> QED  BY <1>1, <1>2, SectionKnown DEF Knows

-----------------------------------------------------------------------------
(* The members of the body. *)

\* What the loop keeps of the members it has seen.
Seen == [keys : SUBSET CaptureKeys, at : {"member", "end", "rejected"}]

\* The first n members have values of their types, and names that the parser
\* knows, once each.
Proper(ms, n) ==
  /\ \A i \in 1 .. n : ms[i].value /\ ms[i].key \in CaptureKeys
  /\ \A i, j \in 1 .. n : ms[i].key = ms[j].key => i = j

\* What the loop knows of the first n members.
Took(ms, n, s) ==
  /\ s \in Seen
  /\ s.at = "member" <=> Proper(ms, n) /\ \A i \in 1 .. n : ms[i].next = ","
  /\ s.at = "end" <=> /\ n > 0 /\ Proper(ms, n)
                      /\ \A i \in 1 .. n - 1 : ms[i].next = ","
                      /\ ms[n].next = "}"
  /\ s.at # "rejected" => s.keys = {ms[i].key : i \in 1 .. n}

\* A round of the loop over the members keeps the type of its state.
LEMMA ReadMemberType ==
  ASSUME NEW s \in Seen, NEW m \in Member
  PROVE  ReadMember(s, m) \in Seen
<1>1. [s EXCEPT !.at = "rejected"] \in Seen
  BY DEF Seen
<1>2. CASE s.at # "member" \/ ~m.value \/ m.next = "else" \/ m.key \notin CaptureKeys \ s.keys
  BY <1>1, <1>2 DEF ReadMember
<1>3. CASE ~(s.at # "member" \/ ~m.value \/ m.next = "else" \/ m.key \notin CaptureKeys \ s.keys)
  <2> DEFINE keys == s.keys \cup {m.key}
             at == IF m.next = "}" THEN "end" ELSE "member"
  <2>1. ReadMember(s, m) = [keys |-> keys, at |-> at]
    BY <1>3 DEF ReadMember
  <2>2. keys \in SUBSET CaptureKeys
    BY <1>3 DEF Seen
  <2>3. at \in {"member", "end", "rejected"}
    OBVIOUS
  <2> HIDE DEF keys, at
  <2> QED  BY <2>1, <2>2, <2>3 DEF Seen
<1> QED  BY <1>2, <1>3

\* The rounds of the loop.
LEMMA MemberRuns ==
  ASSUME NEW ms \in Seq(Member)
  PROVE  \E h : /\ h[0] = NoMembers
                /\ \A i \in 1 .. Len(ms) : h[i] = ReadMember(h[i - 1], ms[i])
                /\ ReadMembers(ms) = h[Len(ms)]
<1> DEFINE n == Len(ms)
           next == [p \in (1 .. n) \X Seen |-> ReadMember(p[2], ms[p[1]])]
           Rounds(g) == [i \in 0 .. n |->
                           IF i = 0 THEN NoMembers ELSE ReadMember(g[i - 1], ms[i])]
           f == CHOOSE g : g = Rounds(g)
<1>1. n \in Nat /\ \A i \in 1 .. n : ms[i] \in Member
  OBVIOUS
<1>2. NoMembers \in Seen
  BY DEF NoMembers, Seen
<1>3. \A i \in 1 .. n, s \in Seen : next[<<i, s>>] = ReadMember(s, ms[i])
  OBVIOUS
<1>4. \A i \in 1 .. n, s \in Seen : next[<<i, s>>] \in Seen
  BY <1>1, <1>3, ReadMemberType
<1> HIDE DEF next
<1>5. PICK h : Course(Seen, n, NoMembers, next, h)
  BY <1>1, <1>2, <1>4, LoopRuns
<1>6. /\ h \in [0 .. n -> Seen] /\ h[0] = NoMembers
      /\ \A i \in 1 .. n : h[i] = next[<<i, h[i - 1]>>]
  BY <1>5 DEF Course
<1>7. h = Rounds(h)
  <2>1. ASSUME NEW i \in 0 .. n
        PROVE  h[i] = Rounds(h)[i]
    <3>1. CASE i = 0
      BY <1>6, <3>1
    <3>2. CASE i # 0
      <4>1. i \in 1 .. n /\ i - 1 \in 0 .. n /\ h[i - 1] \in Seen
        BY <1>1, <1>6, <3>2
      <4>2. h[i] = ReadMember(h[i - 1], ms[i])
        BY <1>3, <1>6, <4>1
      <4> QED  BY <3>2, <4>2
    <3> QED  BY <3>1, <3>2
  <2> DEFINE r == Rounds(h)
  <2>2. r = [i \in 0 .. n |-> r[i]] /\ h = [i \in 0 .. n |-> h[i]]
    BY <1>6
  <2>3. \A i \in 0 .. n : h[i] = r[i]
    BY <2>1
  <2> HIDE DEF r
  <2>4. h = r
    BY <2>2, <2>3
  <2> QED  BY <2>4 DEF r
<1>8. f = Rounds(f)
  BY <1>7, Zenon
<1>9. ReadMembers(ms) = f[n]
  BY DEF ReadMembers
<1> HIDE DEF f
<1>10. f[0] = NoMembers
  BY <1>1, <1>8
<1>11. \A i \in 1 .. n : f[i] = ReadMember(f[i - 1], ms[i])
  <2>1. ASSUME NEW i \in 1 .. n
        PROVE  f[i] = ReadMember(f[i - 1], ms[i])
    <3>1. i \in 0 .. n /\ i # 0
      BY <1>1
    <3>2. f[i] = Rounds(f)[i]
      BY <1>8, Zenon
    <3> QED  BY <3>1, <3>2
  <2> QED  BY <2>1
<1> QED  BY <1>9, <1>10, <1>11

\* What Proper says of one member more.
LEMMA OneMemberMore ==
  ASSUME NEW ms, NEW n \in Nat \ {0}
  PROVE  Proper(ms, n) <=>
           /\ Proper(ms, n - 1)
           /\ ms[n].value /\ ms[n].key \in CaptureKeys
           /\ ms[n].key \notin {ms[i].key : i \in 1 .. n - 1}
<1>1. 1 .. n = (1 .. n - 1) \cup {n} /\ n \notin 1 .. n - 1
  OBVIOUS
<1> DEFINE N == 1 .. n
           M == 1 .. n - 1
<1>2. N = M \cup {n} /\ n \notin M
  BY <1>1
<1>3. Proper(ms, n) <=> /\ \A i \in N : ms[i].value /\ ms[i].key \in CaptureKeys
                        /\ \A i, j \in N : ms[i].key = ms[j].key => i = j
  BY DEF Proper
<1>4. Proper(ms, n - 1) <=> /\ \A i \in M : ms[i].value /\ ms[i].key \in CaptureKeys
                            /\ \A i, j \in M : ms[i].key = ms[j].key => i = j
  BY DEF Proper
<1> HIDE DEF N, M
<1> QED  BY <1>2, <1>3, <1>4 DEF M

\* One more member.
LEMMA MemberStep ==
  ASSUME NEW ms \in Seq(Member), NEW n \in 1 .. Len(ms), NEW s, Took(ms, n - 1, s)
  PROVE  Took(ms, n, ReadMember(s, ms[n]))
<1> DEFINE m == ms[n]
           t == ReadMember(s, m)
           before == {ms[i].key : i \in 1 .. n - 1}
<1>1. /\ m \in Member /\ n \in Nat \ {0} /\ s \in Seen
      /\ 1 .. n = (1 .. n - 1) \cup {n}
  <2>1. Len(ms) \in Nat /\ m \in Member
    OBVIOUS
  <2>2. s \in Seen
    BY DEF Took
  <2> QED  BY <2>1, <2>2
<1>2. t \in Seen
  BY <1>1, ReadMemberType
<1>3. CASE s.at # "member" \/ ~m.value \/ m.next = "else" \/ m.key \notin CaptureKeys \ s.keys
  <2>1. t.at = "rejected"
    BY <1>1, <1>3 DEF ReadMember, Seen
  <2>2. ~(Proper(ms, n) /\ \A i \in 1 .. n - 1 : ms[i].next = ",") \/ m.next = "else"
    BY <1>1, <1>3, OneMemberMore DEF Took
  <2> QED  BY <1>1, <1>2, <2>1, <2>2 DEF Took
<1>4. CASE ~(s.at # "member" \/ ~m.value \/ m.next = "else" \/ m.key \notin CaptureKeys \ s.keys)
  <2>1. /\ t.keys = s.keys \cup {m.key}
        /\ t.at = IF m.next = "}" THEN "end" ELSE "member"
    BY <1>4 DEF ReadMember
  <2>2. m.next \in {",", "}"}
    BY <1>1, <1>4 DEF Member
  <2>3. Proper(ms, n) /\ \A i \in 1 .. n - 1 : ms[i].next = ","
    BY <1>1, <1>4, OneMemberMore DEF Took
  <2>4. t.keys = {ms[i].key : i \in 1 .. n}
    BY <1>1, <1>4, <2>1 DEF Took
  <2>5. t.at = "member" <=> Proper(ms, n) /\ \A i \in 1 .. n : ms[i].next = ","
    BY <1>1, <2>1, <2>2, <2>3
  <2>6. t.at = "end" <=> /\ n > 0 /\ Proper(ms, n)
                         /\ \A i \in 1 .. n - 1 : ms[i].next = ","
                         /\ ms[n].next = "}"
    <3>1. n > 0
      BY <1>1
    <3>2. t.at = "end" <=> m.next = "}"
      BY <2>1
    <3> HIDE DEF t
    <3> QED  BY <2>3, <3>1, <3>2, Zenon
  <2> SUFFICES Took(ms, n, t)
    OBVIOUS
  <2> HIDE DEF t
  <2> QED  BY <1>2, <2>4, <2>5, <2>6 DEF Took
<1> QED  BY <1>3, <1>4

\* What the loop knows when it has seen all members.
LEMMA BodyTook ==
  ASSUME NEW ms \in Seq(Member)
  PROVE  Took(ms, Len(ms), ReadMembers(ms))
<1> DEFINE n == Len(ms)
<1>1. PICK h : /\ h[0] = NoMembers
               /\ \A i \in 1 .. n : h[i] = ReadMember(h[i - 1], ms[i])
               /\ ReadMembers(ms) = h[n]
  BY MemberRuns
<1> DEFINE T == {i \in 0 .. n : Took(ms, i, h[i])}
<1>2. n \in Nat
  OBVIOUS
<1>3. 0 \in T
  <2>1. Took(ms, 0, NoMembers)
    BY DEF Took, Proper, NoMembers, Seen
  <2> QED  BY <1>1, <1>2, <2>1
<1>4. \A i \in 1 .. n : i - 1 \in T => i \in T
  BY <1>1, <1>2, MemberStep
<1> HIDE DEF T
<1>5. n \in T
  <2>1. 0 .. n \subseteq T
    BY <1>2, <1>3, <1>4, Counting
  <2> QED  BY <1>2, <2>1
<1> QED  BY <1>1, <1>5 DEF T

\* Names of a set of three, once each and all of them, are three.
LEMMA ThreeKeys ==
  ASSUME NEW ms, NEW n \in Nat, Proper(ms, n)
  PROVE  {ms[i].key : i \in 1 .. n} = CaptureKeys <=> n = 3
<1>1. CaptureKeys = {"request_id", "delay_ms", "autofocus"}
  BY DEF CaptureKeys
<1>2. /\ \A i \in 1 .. n : ms[i].key \in CaptureKeys
      /\ \A i, j \in 1 .. n : ms[i].key = ms[j].key => i = j
  BY DEF Proper
<1>3. n <= 3
  <2> SUFFICES ASSUME n > 3
               PROVE  FALSE
    OBVIOUS
  <2>1. 1 \in 1 .. n /\ 2 \in 1 .. n /\ 3 \in 1 .. n /\ 4 \in 1 .. n
    OBVIOUS
  <2> QED  BY <1>1, <1>2, <2>1
<1>4. ASSUME {ms[i].key : i \in 1 .. n} = CaptureKeys
      PROVE  n >= 3
  <2>1. PICK i \in 1 .. n : ms[i].key = "request_id"
    BY <1>1, <1>4
  <2>2. PICK j \in 1 .. n : ms[j].key = "delay_ms"
    BY <1>1, <1>4
  <2>3. PICK k \in 1 .. n : ms[k].key = "autofocus"
    BY <1>1, <1>4
  <2>4. i # j /\ j # k /\ i # k
    BY <2>1, <2>2, <2>3
  <2> QED  BY <2>4
<1>5. ASSUME n = 3
      PROVE  CaptureKeys \subseteq {ms[i].key : i \in 1 .. n}
  <2>1. 1 \in 1 .. n /\ 2 \in 1 .. n /\ 3 \in 1 .. n
    BY <1>5
  <2>2. ms[1].key # ms[2].key /\ ms[1].key # ms[3].key /\ ms[2].key # ms[3].key
    BY <1>2, <2>1
  <2>3. CaptureKeys = {ms[1].key, ms[2].key, ms[3].key}
    BY <1>1, <1>2, <2>1, <2>2
  <2> QED  BY <2>1, <2>3
<1>6. {ms[i].key : i \in 1 .. n} \subseteq CaptureKeys
  BY <1>2
<1> QED  BY <1>3, <1>4, <1>5, <1>6

\* The verdict of the loop is that of the reference definition.
LEMMA BodyVerdictIsExact ==
  ASSUME NEW ms \in Seq(Member)
  PROVE  CaptureParsed(ms, TRUE) <=> LegalMembers(ms)
<1> DEFINE n == Len(ms)
           s == ReadMembers(ms)
           keys == {ms[i].key : i \in 1 .. n}
<1>1. n \in Nat
  OBVIOUS
<1>2. Took(ms, n, s)
  BY BodyTook
<1>3. /\ s.at = "end" <=> /\ n > 0 /\ Proper(ms, n)
                          /\ \A i \in 1 .. n - 1 : ms[i].next = ","
                          /\ ms[n].next = "}"
      /\ s.at = "end" => s.keys = keys
  <2> HIDE DEF n, s
  <2>1. "end" # "rejected"
    OBVIOUS
  <2> QED  BY <1>2, <2>1, Zenon DEF Took
<1>4. Proper(ms, n) => (keys = CaptureKeys <=> n = 3)
  <2> HIDE DEF n
  <2> QED  BY <1>1, ThreeKeys
<1>5. CaptureParsed(ms, TRUE) <=> s.at = "end" /\ s.keys = CaptureKeys
  BY DEF CaptureParsed
<1>6. LegalMembers(ms) <=>
        /\ n = 3
        /\ {ms[i].key : i \in 1 .. 3} = CaptureKeys
        /\ \A i \in 1 .. 3 : ms[i].value /\ ms[i].next = IF i = 3 THEN "}" ELSE ","
  BY DEF LegalMembers
<1>7. 1 .. 3 = {1, 2, 3} /\ 1 .. 3 - 1 = {1, 2} /\ 3 > 0
  OBVIOUS
<1> HIDE DEF n, s
<1>8. ASSUME s.at = "end", s.keys = CaptureKeys
      PROVE  LegalMembers(ms)
  <2>1. n = 3 /\ keys = CaptureKeys /\ Proper(ms, 3) /\ ms[3].next = "}"
        /\ \A i \in 1 .. 3 - 1 : ms[i].next = ","
    BY <1>3, <1>4, <1>8
  <2>2. \A i \in 1 .. 3 : ms[i].next = IF i = 3 THEN "}" ELSE ","
    BY <1>7, <2>1
  <2>3. \A i \in 1 .. 3 : ms[i].value
    BY <2>1, Zenon DEF Proper
  <2> QED  BY <1>6, <2>1, <2>2, <2>3
<1>9. ASSUME LegalMembers(ms)
      PROVE  s.at = "end" /\ s.keys = CaptureKeys
  <2>1. /\ n = 3 /\ keys = CaptureKeys
        /\ \A i \in 1 .. 3 : ms[i].next = IF i = 3 THEN "}" ELSE ","
    BY <1>6, <1>9
  <2>2. Proper(ms, n)
    <3>1. \A i \in 1 .. 3 : ms[i].value
      BY <1>6, <1>9, Zenon
    <3>2. {ms[i].key : i \in {1, 2, 3}} = CaptureKeys
      BY <1>7, <2>1
    <3>3. CaptureKeys = {ms[1].key, ms[2].key, ms[3].key}
      BY <3>2
    <3>4. ms[1].key # ms[2].key /\ ms[1].key # ms[3].key /\ ms[2].key # ms[3].key
      <4>1. /\ "request_id" \in {ms[1].key, ms[2].key, ms[3].key}
            /\ "delay_ms" \in {ms[1].key, ms[2].key, ms[3].key}
            /\ "autofocus" \in {ms[1].key, ms[2].key, ms[3].key}
        BY <3>3 DEF CaptureKeys
      <4> QED  BY <4>1
    <3>5. \A i \in {1, 2, 3} : ms[i].key \in CaptureKeys
      BY <3>3
    <3>6. \A i, j \in {1, 2, 3} : ms[i].key = ms[j].key => i = j
      BY <3>4
    <3> QED  BY <1>7, <2>1, <3>1, <3>5, <3>6, Zenon DEF Proper
  <2>3. n > 0 /\ ms[n].next = "}"
    BY <1>7, <2>1
  <2>4. \A i \in 1 .. n - 1 : ms[i].next = ","
    <3>1. n = 3
      BY <2>1
    <3>2. \A i \in 1 .. n - 1 : i \in 1 .. 3 /\ i # 3
      BY <3>1
    <3> QED  BY <2>1, <3>2
  <2> QED  BY <1>3, <2>1, <2>2, <2>3, <2>4
<1> QED  BY <1>5, <1>8, <1>9

-----------------------------------------------------------------------------
(* The theorems about HttpReader. *)

\* The verdict is that on the bytes received.
ReaderInv ==
  /\ ReaderTypeOK
  /\ verdict # "closed" => verdict = VerdictOn(request.message, received)

\* The types of the parts of a request.
LEMMA RequestTypes ==
  ASSUME NEW r \in Requests
  PROVE  /\ r.message \in Message /\ r.fields \in Seq(Field) /\ r.members \in Seq(Member)
         /\ r.message.headers = ReadFields(r.fields)
         /\ r.message.lineEnd + 2 <= r.message.headerEnd
         /\ r.message.size \in Nat
<1>1. r \in ClientRequest
  BY RequestAssumption
<1>2. r.message \in Message /\ r.fields \in Seq(Field) /\ r.members \in Seq(Member)
  BY <1>1 DEF ClientRequest
<1> QED  BY <1>2, RequestAssumption DEF Message

\* A connection that is gone is no verdict.
LEMMA NotClosed == "closed" \notin Verdict
BY DEF Verdict

\* A chunk, and the end of the connection, preserve the invariant.
LEMMA ReaderStep ==
  ASSUME ReaderInv, [ReaderNext]_readerVars
  PROVE  ReaderInv'
<1>1. ASSUME NEW chunk \in 1 .. request.message.size, Receive(chunk), verdict # "closed"
      PROVE  ReaderInv'
  <2>1. request \in Requests /\ received \in 0 .. request.message.size
    BY <1>1, NotClosed DEF ReaderInv, ReaderTypeOK
  <2> DEFINE m == request.message
  <2>2. m \in Message /\ m.size \in Nat
    BY <2>1, RequestTypes
  <2>3. /\ request' = request /\ received' = received + chunk
        /\ received + chunk <= m.size
        /\ verdict' = VerdictOn(m, received')
    BY <1>1 DEF Receive
  <2> HIDE DEF m
  <2>4. received' \in 0 .. m.size
    BY <2>1, <2>2, <2>3 DEF m
  <2>5. verdict' \in Verdict
    BY <2>2, <2>3, <2>4, VerdictType
  <2> QED  BY <2>1, <2>3, <2>4, <2>5, Zenon DEF ReaderInv, ReaderTypeOK, m
<1>2. CASE Close
  BY <1>2 DEF Close, ReaderInv, ReaderTypeOK
<1>3. CASE UNCHANGED readerVars
  BY <1>3 DEF readerVars, ReaderInv, ReaderTypeOK
<1> QED  BY <1>1, <1>2, <1>3 DEF ReaderNext

\* What the reader has answered is the verdict on what it has received, and
\* both have their types.
THEOREM ReaderInvariant == ReaderSpec => []ReaderInv
<1>1. ASSUME ReaderInit
      PROVE  ReaderInv
  <2>1. /\ request \in Requests /\ received = 0 /\ verdict = "incomplete"
    BY <1>1 DEF ReaderInit
  <2> DEFINE m == request.message
  <2>2. m \in Message /\ m.size \in Nat
    BY <2>1, RequestTypes
  <2>3. /\ m.nul \in Nat /\ m.lineEnd \in Nat
        /\ {MaxRequestLine, MaxHeaders, MaxBody} \subseteq Nat
    BY <2>2, LimitAssumption DEF Message
  <2> HIDE DEF m
  <2>4. VerdictOn(m, 0) = "incomplete"
    <3>1. LineVerdict(m, 0) = "incomplete"
      BY <2>3 DEF LineVerdict
    <3> QED  BY <2>3, <3>1 DEF VerdictOn, Parse
  <2>5. received \in 0 .. m.size /\ verdict \in Verdict
    BY <2>1, <2>2 DEF Verdict
  <2> QED  BY <2>1, <2>4, <2>5 DEF ReaderInv, ReaderTypeOK, m
<1>2. ReaderInv /\ [ReaderNext]_readerVars => ReaderInv'
  BY ReaderStep
<1> QED  BY <1>1, <1>2, PTL DEF ReaderSpec

\* ChunksDoNotMatter in one state: the verdict stays when more has come, unless
\* the end of the chunk matters.
LEMMA ChunksLemma ==
  ASSUME ReaderInv
  PROVE  ChunksDoNotMatter
<1> SUFFICES ASSUME Decided, NEW n \in received .. request.message.size,
                    ~Matters(request.message, received, n)
             PROVE  VerdictOn(request.message, n) = verdict
  BY DEF ChunksDoNotMatter
<1>1. verdict \in Verdict /\ verdict # "incomplete" /\ verdict # "closed"
  BY NotClosed DEF Decided
<1>2. request \in Requests /\ received \in 0 .. request.message.size
  BY <1>1 DEF ReaderInv, ReaderTypeOK
<1>3. request.message \in Message /\ request.message.size \in Nat
  BY <1>2, RequestTypes
<1>4. received \in Nat /\ n \in Nat /\ received <= n
  BY <1>2, <1>3
<1>5. verdict = VerdictOn(request.message, received)
  BY <1>1 DEF ReaderInv
<1> QED  BY <1>1, <1>3, <1>4, <1>5, VerdictStays

\* ChunksDoNotMatter: the answer is the same wherever the chunks end.
THEOREM ChunksAreFree == ReaderSpec => []ChunksDoNotMatter
<1>1. ReaderInv => ChunksDoNotMatter
  BY ChunksLemma
<1> QED  BY <1>1, ReaderInvariant, PTL

\* The verdict on all of a request that fits into the buffer.
LEMMA WholeVerdict ==
  ASSUME NEW r \in Requests, r.message.size <= MaxHeaders + MaxBody
  PROVE  VerdictOn(r.message, r.message.size) = "ok" <=> Legal(r)
<1> DEFINE m == r.message
           n == m.size
           lengthGiven == \E i \in DOMAIN r.fields : r.fields[i].name = "content-length"
<1>1. /\ m \in Message /\ n \in Nat /\ r.fields \in Seq(Field)
      /\ m.headers = ReadFields(r.fields) /\ m.lineEnd + 2 <= m.headerEnd
  BY RequestTypes
<1>2. /\ m.headers.verdict = "ok" <=> LegalFields(r.fields)
      /\ LegalFields(r.fields) => (m.headers.hasLength <=> lengthGiven)
  BY <1>1, SectionVerdict
<1>3. /\ m.nul \in Nat /\ m.lineEnd \in Nat /\ m.headerEnd \in Nat /\ m.headers.length \in Nat
      /\ {MaxRequestLine, MaxHeaders, MaxBody} \subseteq Nat
  BY <1>1, LimitAssumption DEF Message, Headers
<1>4. Legal(r) <=> /\ LineContents(m.line) = "ok"
                   /\ m.lineEnd <= MaxRequestLine /\ m.headerEnd + 4 <= MaxHeaders
                   /\ LegalFields(r.fields)
                   /\ m.line.method = "POST" => lengthGiven
                   /\ m.nul >= n /\ Total(m) <= n
  BY DEF Legal
<1> HIDE DEF m, n, lengthGiven
<1>5. VerdictOn(m, n) = Parse(m, n)
  <2>1. ~(n > MaxHeaders + MaxBody)
    BY <1>1, <1>3 DEF m, n
  <2> QED  BY <2>1 DEF VerdictOn
<1>6. LineVerdict(m, n) = "ok" <=> /\ m.nul >= n /\ m.lineEnd + 2 <= n
                                   /\ m.lineEnd <= MaxRequestLine
                                   /\ LineContents(m.line) = "ok"
  BY <1>1, <1>3 DEF LineVerdict
<1>7. HeaderVerdict(m, n) = "ok" <=> /\ m.headerEnd + 4 <= n /\ m.headerEnd + 4 <= MaxHeaders
                                     /\ m.headers.verdict = "ok"
                                     /\ m.line.method = "POST" => m.headers.hasLength
  BY <1>1, <1>3 DEF HeaderVerdict
<1>8. BodyVerdict(m, n) = "ok" <=> Total(m) <= n
  BY <1>1, <1>3, SMTT(20) DEF BodyVerdict, Total
<1>9. Parse(m, n) = "ok" <=> /\ LineVerdict(m, n) = "ok" /\ HeaderVerdict(m, n) = "ok"
                             /\ BodyVerdict(m, n) = "ok"
  BY DEF Parse
<1>10. Total(m) <= n => m.headerEnd + 4 <= n /\ m.lineEnd + 2 <= n
  BY <1>1, <1>3, SMTT(20) DEF Total
<1> QED  BY <1>2, <1>4, <1>5, <1>6, <1>7, <1>8, <1>9, <1>10 DEF m, n

\* LegalIsAccepted in one state.
LEMMA LegalLemma ==
  ASSUME ReaderInv
  PROVE  LegalIsAccepted
<1> SUFFICES ASSUME Decided, ~Matters(request.message, received, request.message.size)
             PROVE  verdict = "ok" <=> Legal(request)
  BY DEF LegalIsAccepted
<1>1. request \in Requests /\ received \in 0 .. request.message.size
  BY NotClosed DEF Decided, ReaderInv, ReaderTypeOK
<1>2. request.message.size \in Nat
  BY <1>1, RequestTypes
<1>3. VerdictOn(request.message, request.message.size) = verdict
  <2>1. request.message.size \in received .. request.message.size
    BY <1>1, <1>2
  <2> QED  BY <2>1, ChunksLemma DEF ChunksDoNotMatter
<1>4. request.message.size <= MaxHeaders + MaxBody
  BY <1>2, LimitAssumption DEF Matters
<1> QED  BY <1>1, <1>3, <1>4, WholeVerdict

\* LegalIsAccepted: the legal requests are handed to the runtime, and no other.
THEOREM LegalRequests == ReaderSpec => []LegalIsAccepted
<1>1. ReaderInv => LegalIsAccepted
  BY LegalLemma
<1> QED  BY <1>1, ReaderInvariant, PTL

\* BodiesExact: a capture request has its three members, once each, and
\* nothing else.
THEOREM BodiesAreExact == ReaderSpec => []BodiesExact
<1>1. ASSUME ReaderInv
      PROVE  BodiesExact
  <2> SUFFICES ASSUME verdict = "ok"
               PROVE  CaptureParsed(request.members, TRUE) <=> LegalMembers(request.members)
    BY DEF BodiesExact
  <2>1. request \in Requests
    BY <1>1 DEF ReaderInv, ReaderTypeOK
  <2>2. request.members \in Seq(Member)
    BY <2>1, RequestTypes
  <2> HIDE DEF CaptureParsed
  <2> QED  BY <2>2, BodyVerdictIsExact
<1>2. ReaderInv => BodiesExact
  BY <1>1
<1> QED  BY <1>2, ReaderInvariant, PTL

\* Of any header section, the loop over the fields makes what the section is
\* as a whole: legal or not, with one length and one PIN.
THEOREM SectionsExact ==
  ASSUME NEW fs \in Seq(Field)
  PROVE  LET read == ReadFields(fs)
             Having(name) == {i \in DOMAIN fs : fs[i].name = name}
         IN  /\ read.verdict = "ok" <=> LegalFields(fs)
             /\ read.verdict = "ok" =>
                  /\ \A i \in Having("content-length") : read.length = fs[i].value
                  /\ Having("content-length") = {} => read.length = 0
                  /\ \A i \in Having("x-legacyalpha-pin") :
                       fs[i].value # 0 => read.pin = fs[i].value
                  /\ (\A i \in Having("x-legacyalpha-pin") : fs[i].value = 0) => read.pin = 0
<1>1. DOMAIN fs = 1 .. Len(fs)
  OBVIOUS
<1>2. ReadFields(fs).verdict = "ok" <=> LegalFields(fs)
  BY SectionVerdict
<1> QED  BY <1>1, <1>2, SectionKnown DEF Knows
=============================================================================
