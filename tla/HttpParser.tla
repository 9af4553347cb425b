----------------------------- MODULE HttpParser ------------------------------
(***************************************************************************)
(* parseHttpRequest() and parseCaptureJson() (http_parser.cpp), with the   *)
(* limit of readClient() (http_server.cpp) in front: what the server makes *)
(* of the first n bytes of what a client sends.                            *)
(*                                                                         *)
(* The server parses from the start again whenever a chunk has come, and   *)
(* answers the first verdict other than "incomplete".                      *)
(*                                                                         *)
(* Bytes are abstracted to where the parts of a request end.  A position   *)
(* at or behind the last byte stands for a part that is not there.         *)
(***************************************************************************)
EXTENDS Integers, Sequences

CONSTANTS MaxRequestLine, MaxHeaders, MaxBody

ASSUME LimitAssumption == {MaxRequestLine, MaxHeaders, MaxBody} \subseteq Nat

\* ParseResult.
Verdict == {"incomplete", "bad", "large", "unsupported", "ok"}

-----------------------------------------------------------------------------
(* The request line. *)

RequestLine == [spaces : BOOLEAN,  \* it has two of them
                method : {"GET", "POST", "other"},
                path : BOOLEAN,    \* validPath()
                version : BOOLEAN] \* HTTP/1.0 or HTTP/1.1

LineContents(line) ==
  IF ~line.spaces \/ line.method = "other" \/ ~line.path THEN "bad"
  ELSE IF ~line.version THEN "unsupported"
  ELSE "ok"

-----------------------------------------------------------------------------
(* The header fields. *)

\* A value is a length, -1 for no number; a PIN or a transfer coding, 0 for
\* an empty one or "identity"; a content type.
Field == [name : {"content-length", "transfer-encoding", "x-legacyalpha-pin",
                  "content-type", "other", "malformed"},
          value : Nat \cup {-1}]

\* What the loop over the fields has found.
Headers == [verdict : Verdict, hasLength : BOOLEAN, length : Nat,
            pin : Nat, contentType : Nat]

NoHeaders == [verdict |-> "ok", hasLength |-> FALSE, length |-> 0,
              pin |-> 0, contentType |-> 0]

ReadLength(h, value) ==
  IF value < 0 \/ (h.hasLength /\ value # h.length)
  THEN [h EXCEPT !.verdict = "bad"]
  ELSE [h EXCEPT !.hasLength = TRUE, !.length = value,
                 !.verdict = IF value > MaxBody THEN "large" ELSE "ok"]

\* Mutant: a second PIN replaces the first.
ReadPinMutant(h, value) == [h EXCEPT !.pin = value]

ReadPin(h, value) ==
  IF h.pin # 0 /\ h.pin # value
  THEN [h EXCEPT !.verdict = "bad"]
  ELSE [h EXCEPT !.pin = value]

ReadField(h, field) ==
  CASE h.verdict # "ok" -> h
    [] h.verdict = "ok" /\ field.name = "content-length" -> ReadLength(h, field.value)
    [] h.verdict = "ok" /\ field.name = "x-legacyalpha-pin" -> ReadPin(h, field.value)
    [] h.verdict = "ok" /\ field.name = "content-type" ->
         [h EXCEPT !.contentType = field.value]
    [] h.verdict = "ok" /\ field.name = "transfer-encoding" ->
         [h EXCEPT !.verdict = IF field.value # 0 THEN "unsupported" ELSE "ok"]
    [] h.verdict = "ok" /\ field.name = "malformed" -> [h EXCEPT !.verdict = "bad"]
    [] OTHER -> h

\* The loop over the fields, up to each of them.
ReadFields(fields) ==
  LET read[i \in 0 .. Len(fields)] ==
        IF i = 0 THEN NoHeaders ELSE ReadField(read[i - 1], fields[i])
  IN  read[Len(fields)]

-----------------------------------------------------------------------------
(* The request. *)

\* What a client sends: the positions of the first NUL, of the end of the
\* request line and of the end of the header section, what the loop finds in
\* the section, and the number of bytes.
Message == [nul : Nat, lineEnd : Nat, line : RequestLine,
            headerEnd : Nat, headers : Headers, size : Nat]

\* The verdict on the request line among the first n bytes.
\* Mutant: the limit is tested before the line has ended.
LineVerdictMutant(m, n) ==
  IF m.nul < n THEN "bad"
  ELSE IF n > MaxRequestLine THEN "large"
  ELSE IF m.lineEnd + 2 > n THEN "incomplete"
  ELSE LineContents(m.line)

LineVerdict(m, n) ==
  IF m.nul < n THEN "bad"
  ELSE IF m.lineEnd + 2 > n
       THEN IF n > MaxRequestLine THEN "large" ELSE "incomplete"
  ELSE IF m.lineEnd > MaxRequestLine THEN "large"
  ELSE LineContents(m.line)

HeaderVerdict(m, n) ==
  IF m.headerEnd + 4 > n
  THEN IF n > MaxHeaders THEN "large" ELSE "incomplete"
  ELSE IF m.headerEnd + 4 > MaxHeaders THEN "large"
  ELSE IF m.headers.verdict # "ok" THEN m.headers.verdict
  ELSE IF m.line.method = "POST" /\ ~m.headers.hasLength THEN "bad"
  ELSE "ok"

\* The end of the request, and of what is consumed of it.
Total(m) == m.headerEnd + 4 + m.headers.length

BodyVerdict(m, n) == IF n < Total(m) THEN "incomplete" ELSE "ok"

\* parseHttpRequest() of the first n bytes.
Parse(m, n) ==
  IF LineVerdict(m, n) # "ok" THEN LineVerdict(m, n)
  ELSE IF HeaderVerdict(m, n) # "ok" THEN HeaderVerdict(m, n)
  ELSE BodyVerdict(m, n)

\* readClient(), when it has read n bytes in all.
VerdictOn(m, n) ==
  IF n > MaxHeaders + MaxBody THEN "large" ELSE Parse(m, n)

-----------------------------------------------------------------------------
(* The body of a capture request. *)

CaptureKeys == {"request_id", "delay_ms", "autofocus"}

\* A member with its name, whether its value is of the type of its name, and
\* the character that follows.
Member == [key : CaptureKeys \cup {"unknown"}, value : BOOLEAN,
           next : {",", "}", "else"}]

\* The members that are read, and where the cursor is.
NoMembers == [keys |-> {}, at |-> "member"]

\* Mutant: a name may come twice.
ReadMemberMutant(seen, member) ==
  IF seen.at # "member" \/ ~member.value \/ member.key \notin CaptureKeys
     \/ member.next = "else"
  THEN [seen EXCEPT !.at = "rejected"]
  ELSE [keys |-> seen.keys \cup {member.key},
        at |-> IF member.next = "}" THEN "end" ELSE "member"]

ReadMember(seen, member) ==
  IF seen.at # "member" \/ ~member.value \/ member.next = "else"
     \/ member.key \notin CaptureKeys \ seen.keys
  THEN [seen EXCEPT !.at = "rejected"]
  ELSE [keys |-> seen.keys \cup {member.key},
        at |-> IF member.next = "}" THEN "end" ELSE "member"]

\* The loop of parseCaptureJson(), of a body that opens with a brace.
ReadMembers(members) ==
  LET seen[i \in 0 .. Len(members)] ==
        IF i = 0 THEN NoMembers ELSE ReadMember(seen[i - 1], members[i])
  IN  seen[Len(members)]

\* parseCaptureJson(); validId is validRequestId() of its id.
CaptureParsed(members, validId) ==
  /\ ReadMembers(members).at = "end"
  /\ ReadMembers(members).keys = CaptureKeys
  /\ validId

=============================================================================
