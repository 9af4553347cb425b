----------------------------- MODULE MCRequests -----------------------------
(***************************************************************************)
(* HttpReader and RateLimits for TLC, one after the other, as a request    *)
(* meets them: the request of one client is read in every way, and when    *)
(* its connection is closed the rate limiter has its turn.  The two share  *)
(* no state.                                                               *)
(*                                                                         *)
(* RateLimits: one client more than there are buckets, and a cost of two   *)
(* refills, so that buckets hold fractions of a request.                   *)
(***************************************************************************)
EXTENDS HttpReader, RateLimits, SequencesExt, TLC

CONSTANT MaxSize  \* of a request

Symmetry == Permutations(Keys \ {Watched})

-----------------------------------------------------------------------------
(* Requests on both sides of each limit.  They vary in their positions, in *)
(* their header fields or in their body.                                   *)

MCLine(method, version) ==
  [spaces |-> TRUE, method |-> method, path |-> TRUE, version |-> version]

MCLines == {MCLine(m, v) : m \in {"GET", "POST", "other"}, v \in BOOLEAN}

MCMessage(nul, lineEnd, line, headerEnd, fields, size) ==
  [nul |-> nul, lineEnd |-> lineEnd, line |-> line, headerEnd |-> headerEnd,
   headers |-> ReadFields(fields), size |-> size]

Length(n) == [name |-> "content-length", value |-> n]

MCPositions ==
  {[message |-> MCMessage(nul, lineEnd, line, headerEnd, fields, MaxSize),
    fields |-> fields, members |-> <<>>] :
     nul \in {1, MaxRequestLine + 3, MaxSize}, lineEnd \in 1 .. MaxRequestLine + 2,
     line \in MCLines, headerEnd \in MaxRequestLine + 4 .. MaxHeaders - 2,
     fields \in {<<>>, <<Length(1)>>, <<Length(MaxBody)>>, <<Length(MaxBody + 1)>>}}

MCField ==
  [name : {"content-length"}, value : {-1, 0, 1, MaxBody + 1}]
  \cup [name : {"x-legacyalpha-pin"}, value : 0 .. 2]
  \cup [name : {"transfer-encoding", "content-type"}, value : 0 .. 1]
  \cup [name : {"other", "malformed"}, value : {0}]

MCSections ==
  {[message |-> MCMessage(MaxSize, 1, MCLine(method, TRUE), 3, fields, 8),
    fields |-> fields, members |-> <<>>] :
     method \in {"GET", "POST"}, fields \in SeqOf(MCField, 3)}

MCMember == {m \in Member : m.value /\ m.next # "else"}

MCBodies ==
  {[message |-> MCMessage(MaxSize, 1, MCLine("POST", TRUE), 3, <<Length(1)>>, 8),
    fields |-> <<Length(1)>>, members |-> members] :
     members \in SeqOf(Member, 2) \cup SeqOf(MCMember, 4)}

MCRequestSet == MCPositions \cup MCSections \cup MCBodies

-----------------------------------------------------------------------------

MCInit == ReaderInit /\ Init

MCNext ==
  \/ ReaderNext /\ UNCHANGED vars
  \/ verdict = "closed" /\ Next /\ UNCHANGED readerVars

MCSpec == MCInit /\ [][MCNext]_<<readerVars, vars>>
=============================================================================
