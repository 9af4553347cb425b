----------------------------- MODULE HttpReader ------------------------------
(***************************************************************************)
(* One client of the HTTP server and its request, byte by byte: what the   *)
(* client sends arrives in chunks of any size, readClient() appends each   *)
(* to the input and has the whole parsed again, until there is an answer.  *)
(*                                                                         *)
(* HttpServer has the other side of this: many clients, whose chunks get   *)
(* any verdict.                                                            *)
(***************************************************************************)
EXTENDS HttpParser

CONSTANTS
  Requests,  \* what the client may send, with the fields of its header
             \* section and the members of its body
  NoRequest  \* of a client that is gone

ClientRequest == [message : Message, fields : Seq(Field), members : Seq(Member)]

ASSUME RequestAssumption ==
  /\ NoRequest \notin Requests
  /\ \A r \in Requests :
       /\ r \in ClientRequest
       /\ r.message.headers = ReadFields(r.fields)
       \* the end of the section is looked for behind that of the line
       /\ r.message.lineEnd + 2 <= r.message.headerEnd

VARIABLES
  request,   \* what the client sends
  received,  \* the size of the input
  verdict    \* on the input; "closed" when the connection is gone

readerVars == <<request, received, verdict>>

ReaderInit ==
  /\ request \in Requests
  /\ received = 0
  /\ verdict = "incomplete"

\* readClient(): a client that has its answer is read no more.
Receive(chunk) ==
  /\ verdict = "incomplete"
  /\ received + chunk <= request.message.size
  /\ received' = received + chunk
  /\ verdict' = VerdictOn(request.message, received')
  /\ UNCHANGED request

\* closeClient(): the answer is sent, or the client is silent or gone.
Close ==
  /\ request' = NoRequest
  /\ received' = 0
  /\ verdict' = "closed"

ReaderNext ==
  /\ verdict # "closed"
  /\ \/ \E chunk \in 1 .. request.message.size : Receive(chunk)
     \/ Close

ReaderSpec == ReaderInit /\ [][ReaderNext]_readerVars
-----------------------------------------------------------------------------
(* Properties. *)

\* Types.
ReaderTypeOK ==
  \/ /\ request \in Requests
     /\ received \in 0 .. request.message.size
     /\ verdict \in Verdict
  \/ /\ request = NoRequest
     /\ received = 0
     /\ verdict = "closed"

Decided == verdict \in Verdict \ {"incomplete"}

\* The ends of chunks that do matter: a NUL that comes behind the bytes that
\* were enough for an answer; a request line of the greatest length whose \r
\* has come without its \n; bytes behind the request that exceed the buffer.
Matters(m, i, j) ==
  \/ i <= m.nul /\ m.nul < j
  \/ m.lineEnd = MaxRequestLine /\ i = MaxRequestLine + 1
  \/ j > MaxHeaders + MaxBody

\* The answer is the verdict on all that the client sends, or has sent up to
\* any later point: it does not matter where the chunks end.
ChunksDoNotMatter ==
  Decided =>
    \A n \in received .. request.message.size :
       ~Matters(request.message, received, n) => VerdictOn(request.message, n) = verdict

\* The header section as a whole: no field is malformed, the lengths agree
\* and are allowed, nothing is encoded, and no PIN is contradicted.
LegalFields(fields) ==
  LET Having(name) == {i \in DOMAIN fields : fields[i].name = name}
  IN  /\ Having("malformed") = {}
      /\ \A i, j \in Having("content-length") :
           fields[i].value = fields[j].value /\ fields[i].value \in 0 .. MaxBody
      /\ \A i \in Having("transfer-encoding") : fields[i].value = 0
      /\ \A i, j \in Having("x-legacyalpha-pin") :
           i < j /\ fields[i].value # 0 => fields[j].value = fields[i].value

\* The request as a whole, with everything within its limit.
Legal(r) ==
  LET m == r.message
  IN  /\ LineContents(m.line) = "ok"
      /\ m.lineEnd <= MaxRequestLine /\ m.headerEnd + 4 <= MaxHeaders
      /\ LegalFields(r.fields)
      /\ m.line.method = "POST" => \E i \in DOMAIN r.fields : r.fields[i].name = "content-length"
      /\ m.nul >= m.size /\ Total(m) <= m.size

\* A legal request, and no other, is handed to the runtime, whatever the
\* order of its fields and however it is cut, with the same exceptions.
LegalIsAccepted ==
  Decided /\ ~Matters(request.message, received, request.message.size) =>
    (verdict = "ok" <=> Legal(request))

\* The body of a capture request as a whole: each name once, nothing else.
LegalMembers(members) ==
  /\ Len(members) = 3
  /\ {members[i].key : i \in 1 .. 3} = CaptureKeys
  /\ \A i \in 1 .. 3 : members[i].value /\ members[i].next = IF i = 3 THEN "}" ELSE ","

\* The parser takes the body of a capture request if and only if it has the
\* three members, in any order, once each, and nothing else.
BodiesExact ==
  verdict = "ok" =>
    (CaptureParsed(request.members, TRUE) <=> LegalMembers(request.members))
=============================================================================
