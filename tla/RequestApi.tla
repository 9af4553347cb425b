------------------------------ MODULE RequestApi ------------------------------
(***************************************************************************)
(* The POST half of NativeRuntime::handleRequest(): what stands between a  *)
(* client and the shutter logic.  Every request passes the rate limiter,   *)
(* the PIN and the content type; a capture request is answered from memory *)
(* when its id is known, so that a client may send it again.               *)
(*                                                                         *)
(* The shutter logic is the one of Shutter, which RemoteControl implements. *)
(* A request is handled with mutex_ held, in one step, and so is every     *)
(* call of the main thread.  Requests are lost, repeated and reordered     *)
(* between clients at will: any client may send any request at any time.   *)
(*                                                                         *)
(* Bound for TLC: the clock stops at MaxNow.                               *)
(***************************************************************************)
EXTENDS Shutter, RequestDeduplicator

CONSTANTS Clients, MaximumKeys, Capacity, Cost,
          Pins,    \* the PINs that generatePin() may choose
          NoPin,   \* the empty text: no session, or a request without a PIN
          MaxNow

ASSUME ApiAssumption ==
  /\ NoPin \notin Pins /\ MaxNow \in Nat
  /\ MaximumKeys \in Nat \ {0}
  /\ Cost \in Nat \ {0} /\ Capacity \in Nat /\ Capacity >= Cost

Limiter == INSTANCE RateLimiter WITH Keys <- Clients

VARIABLES
  started,   \* started_
  serving,   \* the server thread runs
  pin,       \* pin_
  entries,   \* the deduplicator
  mutation,  \* the buckets of mutationLimiter_
  now,
  told,      \* history: how an id was answered first, in this session
  reply      \* the request of this step and its answer

runtime == <<started, serving, pin>>
vars == <<phase, started, serving, pin, entries, mutation, now, told, reply>>

\* "newer" counts the ids answered since, up to the limit of the memory.
Told == [answer : Answer \cup {"none"}, until : Nat, newer : 0 .. MaximumEntries]

Untold == [answer |-> "none", until |-> 0, newer |-> 0]

Nothing == [id |-> "", pin |-> NoPin, code |-> 0]

Code == {200, 202, 400, 401, 404, 409, 415, 429}

Reply == [id : RequestIds \cup {""}, pin : Pins \cup {NoPin}, code : Code]

-----------------------------------------------------------------------------
(* Sessions. *)

Init ==
  /\ PhaseInit
  /\ started = FALSE /\ serving = FALSE /\ pin = NoPin
  /\ entries = <<>> /\ mutation = <<>>
  /\ now = 0
  /\ told = [id \in RequestIds |-> Untold]
  /\ reply = Nothing

\* start() of a new object.
StartSession ==
  /\ ~serving
  /\ Begin
  /\ started' = TRUE /\ serving' = TRUE
  /\ pin' \in Pins
  /\ entries' = <<>> /\ mutation' = <<>>
  /\ told' = [id \in RequestIds |-> Untold]
  /\ reply' = Nothing
  /\ UNCHANGED now

\* Mutant: the session ends for the clients before it ends for the shutter.
StopSessionMutant ==
  /\ started
  /\ started' = FALSE /\ pin' = NoPin /\ reply' = Nothing
  /\ UNCHANGED <<phase, serving, entries, mutation, now, told>>

\* stop(), under the lock; the server thread goes on until it is joined.
StopSession ==
  /\ started
  /\ End
  /\ started' = FALSE
  /\ pin' = NoPin
  /\ reply' = Nothing
  /\ UNCHANGED <<serving, entries, mutation, now, told>>

JoinServer ==
  /\ serving /\ ~started
  /\ serving' = FALSE
  /\ reply' = Nothing
  /\ UNCHANGED <<phase, started, pin, entries, mutation, now, told>>

\* What happens to the shutter logic without the clients.
ShutterMoves ==
  /\ started
  /\ Ready \/ Unready \/ Hold \/ Unhold \/ Press \/ Elapse \/ Fails
  /\ reply' = Nothing
  /\ UNCHANGED <<runtime, entries, mutation, now, told>>

TimePasses ==
  /\ now < MaxNow
  /\ now' = now + 1
  /\ told' = [id \in RequestIds |->
                IF told[id].until > now' THEN told[id] ELSE Untold]
  /\ reply' = Nothing
  /\ UNCHANGED <<phase, runtime, entries, mutation>>

-----------------------------------------------------------------------------
(* Requests, in the order of their checks. *)

Answered(id, p, code) == reply' = [id |-> id, pin |-> p, code |-> code]

\* A POST of client c reaches the limiter.
Arrives(c) ==
  /\ serving
  /\ mutation' = Limiter!Served(mutation, c, now)
  /\ UNCHANGED <<runtime, now>>

Limited(c) == ~Limiter!Allows(mutation, c, now)

Rejected(c, p, json) ==
  /\ Arrives(c)
  /\ \/ Limited(c) /\ Answered("", p, 429)
     \/ ~Limited(c) /\ p # pin /\ Answered("", p, 401)
     \/ ~Limited(c) /\ p = pin /\ ~json /\ Answered("", p, 415)
  /\ UNCHANGED <<phase, entries, told>>

\* A request that is let in.
Admitted(c, p) == Arrives(c) /\ ~Limited(c) /\ p = pin

\* A body that does not parse, or a path that is not known.
Malformed(c, p) ==
  /\ Admitted(c, p)
  /\ \E code \in {400, 404} : Answered("", p, code)
  /\ UNCHANGED <<phase, entries, told>>

StatusOf(answer) ==
  CASE answer = "accepted" -> 202
    [] answer = "refused" -> 409
    [] answer = "invalid" -> 400

KnownCapture(c, p, id) ==
  /\ Admitted(c, p)
  /\ Finds(entries, id, now)
  /\ Answered(id, p, StatusOf(Found(entries, id, now)))
  /\ entries' = Pruned(entries, now)
  /\ UNCHANGED <<phase, told>>

\* What becomes of the shutter, and the answer.
\* Mutant: requestCapture() does not look for an error.
OutcomeMutant(inRange, answer) ==
  \/ ~inRange /\ answer = "invalid" /\ UNCHANGED phase
  \/ inRange /\ Request /\ answer = "accepted"
  \/ inRange /\ phase # "armed" /\ answer = "refused" /\ UNCHANGED phase

Outcome(inRange, answer) ==
  \/ ~inRange /\ answer = "invalid" /\ UNCHANGED phase
  \/ inRange /\ Request /\ answer = (IF phase' = "error" THEN "refused" ELSE "accepted")
  \/ inRange /\ phase # "armed" /\ answer = "refused" /\ UNCHANGED phase

NewCapture(c, p, id, inRange) ==
  /\ Admitted(c, p)
  /\ ~Finds(entries, id, now)
  /\ \E answer \in Answer :
       /\ Outcome(inRange, answer)
       /\ Answered(id, p, StatusOf(answer))
       /\ entries' = Remember(Pruned(entries, now), id, answer, now)
       /\ told' = [other \in RequestIds |->
                     IF other = id
                     THEN [answer |-> answer, until |-> now + Retention, newer |-> 0]
                     ELSE IF told[other] = Untold \/ told[other].newer = MaximumEntries
                     THEN told[other] ELSE [told[other] EXCEPT !.newer = @ + 1]]

CancelCountdown(c, p) ==
  /\ Admitted(c, p)
  /\ \/ Cancel /\ Answered("", p, 200)
     \/ phase \notin {"pending", "held"} /\ UNCHANGED phase /\ Answered("", p, 409)
  /\ UNCHANGED <<entries, told>>

SetFocus(c, p, pressed) ==
  /\ Admitted(c, p)
  /\ \/ pressed /\ Hold /\ Answered("", p, IF phase' = "held" THEN 200 ELSE 409)
     \/ ~pressed /\ Unhold /\ Answered("", p, 200)
     \/ /\ phase # (IF pressed THEN "armed" ELSE "held")
        /\ UNCHANGED phase
        /\ Answered("", p, 409)
  /\ UNCHANGED <<entries, told>>

Next ==
  \/ StartSession \/ StopSession \/ JoinServer
  \/ ShutterMoves \/ TimePasses
  \/ \E c \in Clients, p \in Pins \cup {NoPin} :
       \/ \E flag \in BOOLEAN : Rejected(c, p, flag) \/ SetFocus(c, p, flag)
       \/ Malformed(c, p) \/ CancelCountdown(c, p)
       \/ \E id \in RequestIds :
            \/ KnownCapture(c, p, id)
            \/ \E inRange \in BOOLEAN : NewCapture(c, p, id, inRange)

Spec == Init /\ [][Next]_vars
-----------------------------------------------------------------------------
(* Properties. *)

\* Types; the memory of answers and the limiter keep their bounds.
TypeOK ==
  /\ phase \in Phase
  /\ started \in BOOLEAN /\ serving \in BOOLEAN /\ pin \in Pins \cup {NoPin}
  /\ entries \in Seq(Entry) /\ Len(entries) <= MaximumEntries
  /\ mutation \in Seq(Limiter!Bucket) /\ Len(mutation) <= MaximumKeys
  /\ now \in Nat
  /\ told \in [RequestIds -> Told]
  /\ reply \in Reply \cup {Nothing}

Remembered(id) == told[id].until > now /\ told[id].newer < MaximumEntries

\* A capture request that is sent again, by any client and whatever happened
\* in between, gets the answer it got first and does nothing to the shutter:
\* for Retention, and while fewer than MaximumEntries new ids came in.
RetriesAnsweredAlike ==
  [][reply'.id # "" /\ Remembered(reply'.id) =>
       reply'.code = StatusOf(told[reply'.id].answer) /\ phase' = phase]_vars

\* The answer to a new capture request is true: the client that is told 202
\* has got the shot, and the one that is told 409 or 400 has not.
AnswersAreTrue ==
  [][reply'.id # "" /\ ~Remembered(reply'.id) /\ ~Finds(entries, reply'.id, now) =>
       (reply'.code = 202 <=> phase = "armed" /\ phase' \in {"pending", "shooting"})]_vars

\* No request has an effect on the shutter without the PIN of the session,
\* also not while the session ends.
PinGuardsTheShutter ==
  [][reply' # Nothing /\ phase' # phase =>
       started /\ pin # NoPin /\ reply'.pin = pin]_vars
=============================================================================
