------------------------- MODULE RequestDeduplicator -------------------------
(***************************************************************************)
(* The class RequestDeduplicator (request_deduplicator.cpp): the answers   *)
(* given to capture requests, the oldest first, kept for Retention, and no *)
(* more than MaximumEntries of them.                                       *)
(***************************************************************************)
EXTENDS Integers, Sequences

CONSTANTS RequestIds, MaximumEntries, Retention

ASSUME DeduplicatorAssumption ==
  MaximumEntries \in Nat \ {0} /\ Retention \in Nat

\* The status and body that answer a capture request.
Answer == {"accepted", "refused", "invalid"}

Entry == [requestId : RequestIds, answer : Answer, expires : Nat]

\* prune(): the loop keeps the entries that have not expired, in their order.
Pruned(entries, now) ==
  LET kept[i \in 0 .. Len(entries)] ==
        IF i = 0 THEN <<>>
        ELSE IF entries[i].expires > now THEN Append(kept[i - 1], entries[i])
        ELSE kept[i - 1]
  IN  kept[Len(entries)]

Finds(entries, id, now) ==
  \E i \in DOMAIN entries : entries[i].requestId = id /\ entries[i].expires > now

\* The answer of the first entry, of those that find() leaves.
Found(entries, id, now) ==
  LET live == Pruned(entries, now)
      match == {i \in DOMAIN live : live[i].requestId = id}
  IN  live[CHOOSE i \in match : \A j \in match : i <= j].answer

\* Mutant: one entry too many is dropped.
RememberFewerMutant(entries, id, answer, now) ==
  LET live == Pruned(entries, now)
  IN  Append(IF Len(live) + 1 >= MaximumEntries /\ live # <<>> THEN Tail(live) ELSE live,
             [requestId |-> id, answer |-> answer, expires |-> now + Retention])

Remember(entries, id, answer, now) ==
  LET live == Pruned(entries, now)
  IN  Append(IF Len(live) >= MaximumEntries THEN Tail(live) ELSE live,
             [requestId |-> id, answer |-> answer, expires |-> now + Retention])
=============================================================================
