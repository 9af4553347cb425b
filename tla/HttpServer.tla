----------------------------- MODULE HttpServer ------------------------------
(***************************************************************************)
(* The class HttpServer (http_server.cpp): one thread that polls a         *)
(* listener and at most MaxClients clients, one request to a connection.   *)
(*                                                                         *)
(* The thread keeps the events of the clients by position, from poll() to  *)
(* the end of the round, while it accepts and closes clients: the round is *)
(* therefore modelled step by step, and the peers act between the steps.   *)
(*                                                                         *)
(* Data are counted in chunks: MaxInput of them fit into the buffers, and  *)
(* a reply has ReplyParts.  What the parser makes of the chunks of a peer  *)
(* is any verdict, since peers send what they like: HttpReader looks at    *)
(* one of them byte by byte.  TCP is external, as the code sees it.        *)
(*                                                                         *)
(* No bound is needed: silence and waiting are counted up to their limits. *)
(***************************************************************************)
EXTENDS Integers, Sequences, SequencesExt

CONSTANTS
  Connections,  \* the connections that peers open, one after another
  MaxClients,   \* maxClients
  MaxInput,     \* maxHeaders + maxBody
  ReplyParts,
  IdleTimeout,  \* idleTimeoutMs
  RetryDelay    \* the second between two attempts to listen

ASSUME ServerAssumption ==
  /\ {MaxClients, MaxInput, ReplyParts, RetryDelay} \subseteq Nat \ {0}
  /\ IdleTimeout \in Nat

VARIABLES
  pc,        \* where the thread is; "off" without a thread
  stopping,  \* stopping_
  ready,     \* serverReady()
  listener,  \* the listener is open
  retry,     \* how long until nextListenAttemptMs_
  clients,   \* clients_
  polled,    \* the events of the clients, by position
  calls,     \* the listener has a connection to accept
  index,     \* the client that is next in a loop of the round
  peer,      \* the other end of each connection, and the kernel's buffers
  handled    \* history: how often the request of a connection was handled

thread == <<pc, listener, retry, clients, polled, calls, index>>
world  == <<stopping, ready, peer>>
vars   == <<thread, world, handled>>

Event == {"none", "in", "out", "error"}

\* A reply is the number of its parts that are not sent yet.
Client == [conn : Connections, input : 0 .. MaxInput,
           output : 0 .. ReplyParts, idle : 0 .. IdleTimeout + 1]

\* A peer that is gone has closed or reset the connection.
Peer == [link : {"free", "queued", "open", "gone"}, unread : BOOLEAN]

Away == [link |-> "free", unread |-> FALSE]

\* What the server makes of a verdict of HttpParser; every refusal is alike.
Verdict == {"incomplete", "bad", "ok"}

Init ==
  /\ pc = "off" /\ stopping = FALSE /\ ready = FALSE
  /\ listener = FALSE /\ retry = 0
  /\ clients = <<>> /\ polled = <<>> /\ calls = FALSE /\ index = 0
  /\ peer = [c \in Connections |-> Away]
  /\ handled = [c \in Connections |-> 0]

-----------------------------------------------------------------------------
(* The owner of the server, and the readiness that the thread asks for. *)

Start ==
  /\ pc = "off"
  /\ pc' = "top" /\ stopping' = FALSE
  /\ UNCHANGED <<ready, listener, retry, clients, polled, calls, index, peer, handled>>

Stop ==
  /\ pc # "off"
  /\ stopping' = TRUE
  /\ UNCHANGED <<thread, ready, peer, handled>>

\* pthread_join() in stop().
Join ==
  /\ pc = "ended" /\ stopping
  /\ pc' = "off"
  /\ UNCHANGED <<listener, retry, clients, polled, calls, index, world, handled>>

ReadyChanges ==
  /\ ready' = ~ready
  /\ UNCHANGED <<thread, stopping, peer, handled>>

-----------------------------------------------------------------------------
(* Peers and the kernel. *)

Queued == {c \in Connections : peer[c].link = "queued"}

Connect(c) ==
  /\ listener /\ peer[c].link = "free"
  /\ peer' = [peer EXCEPT ![c].link = "queued"]
  /\ handled' = [handled EXCEPT ![c] = 0]
  /\ UNCHANGED <<thread, stopping, ready>>

\* The peer sends at its own pace, also more than its request.
Send(c) ==
  /\ peer[c].link \in {"queued", "open"} /\ ~peer[c].unread
  /\ peer' = [peer EXCEPT ![c].unread = TRUE]
  /\ UNCHANGED <<thread, stopping, ready, handled>>

HangUp(c) ==
  /\ \/ peer[c].link = "open" /\ peer' = [peer EXCEPT ![c].link = "gone"]
     \/ peer[c].link = "queued" /\ peer' = [peer EXCEPT ![c] = Away]
  /\ UNCHANGED <<thread, stopping, ready, handled>>

TimePasses ==
  /\ clients' = [i \in DOMAIN clients |->
                   [clients[i] EXCEPT !.idle = IF @ > IdleTimeout THEN @ ELSE @ + 1]]
  /\ retry' = IF retry > 0 THEN retry - 1 ELSE 0
  /\ UNCHANGED <<pc, listener, polled, calls, index, world, handled>>

-----------------------------------------------------------------------------
(* The round of the thread. *)

\* Connections that nobody accepted are gone with the listener.
CloseListener ==
  /\ listener' = FALSE
  /\ peer' = [c \in Connections |-> IF c \in Queued THEN Away ELSE peer[c]]

\* openListener() succeeds, or the next attempt has to wait.
OpenListener ==
  /\ ready /\ ~listener /\ retry = 0
  /\ \/ listener' = TRUE /\ UNCHANGED retry
     \/ listener' = FALSE /\ retry' = RetryDelay
  /\ UNCHANGED peer

\* Mutant: the listener is not closed when the readiness is lost.
FollowReadinessMutant ==
  \/ OpenListener
  \/ (~ready \/ listener \/ retry > 0) /\ UNCHANGED <<listener, retry, peer>>

FollowReadiness ==
  \/ ~ready /\ CloseListener /\ UNCHANGED retry
  \/ OpenListener
  \/ ready /\ (listener \/ retry > 0) /\ UNCHANGED <<listener, retry, peer>>

BeginRound ==
  /\ pc = "top" /\ ~stopping
  /\ FollowReadiness
  /\ pc' = "poll"
  /\ UNCHANGED <<clients, polled, calls, index, stopping, ready, handled>>

\* What poll() may return for a client.
\* Mutant: a client that waits for its reply is read too.
EventsMutant(client) ==
  LET p == peer[client.conn]
  IN  IF p.link = "gone" THEN {"in", "out", "error"}
      ELSE IF p.unread THEN {"in"}
      ELSE IF client.output > 0 THEN {"out", "none"}
      ELSE {"none"}

Events(client) ==
  LET p == peer[client.conn]
  IN  IF p.link = "gone" THEN {"error", IF client.output > 0 THEN "out" ELSE "in"}
      ELSE IF client.output > 0 THEN {"out", "none"}
      ELSE IF p.unread THEN {"in"}
      ELSE {"none"}

\* poll() returns: events, a timeout or an error.
Poll ==
  /\ pc = "poll"
  /\ \/ /\ polled' \in {s \in [DOMAIN clients -> Event] :
                          \A i \in DOMAIN clients : s[i] \in Events(clients[i])}
        /\ calls' = (listener /\ Queued # {})
     \/ /\ polled' = [i \in DOMAIN clients |-> "none"]
        /\ calls' = FALSE
  /\ pc' = "accept"
  /\ UNCHANGED <<listener, retry, clients, index, world, handled>>

\* Mutant: one client too many.
AdmitsMutant == Len(clients) <= MaxClients

Admits == Len(clients) < MaxClients

Accepted(c) == Append(clients, [conn |-> c, input |-> 0, output |-> 0, idle |-> 0])

\* acceptClient().  A connection that is one too many is closed at once.
Accept ==
  /\ pc = "accept"
  /\ \/ \E c \in Queued :
          /\ calls
          /\ clients' = IF Admits THEN Accepted(c) ELSE clients
          /\ peer' = IF Admits THEN [peer EXCEPT ![c].link = "open"]
                     ELSE [peer EXCEPT ![c] = Away]
     \/ (~calls \/ Queued = {}) /\ UNCHANGED <<clients, peer>>
  /\ pc' = "serve" /\ index' = Len(clients')
  /\ UNCHANGED <<listener, retry, polled, calls, stopping, ready, handled>>

CloseClient(i) ==
  /\ clients' = RemoveAt(clients, i)
  /\ peer' = [peer EXCEPT ![clients[i].conn] = Away]
  /\ UNCHANGED handled

\* Mutant: a request that is too large is not answered.
ReadMutant(i, verdict) ==
  /\ clients' = [clients EXCEPT ![i].input = IF @ >= MaxInput THEN @ ELSE @ + 1,
                                ![i].idle = 0,
                                ![i].output = IF verdict = "incomplete" THEN @ ELSE ReplyParts]
  /\ handled' = IF verdict = "ok" THEN [handled EXCEPT ![clients[i].conn] = @ + 1]
                ELSE handled

\* A chunk is read.  Too much input is answered without a look at it.
Read(i, verdict) ==
  LET client   == clients[i]
      tooLarge == client.input >= MaxInput
      input    == IF tooLarge THEN client.input ELSE client.input + 1
      output   == IF tooLarge \/ verdict # "incomplete" THEN ReplyParts ELSE client.output
  IN  /\ clients' = [clients EXCEPT ![i] =
              [client EXCEPT !.input = input, !.idle = 0, !.output = output]]
      /\ handled' = IF ~tooLarge /\ verdict = "ok"
                    THEN [handled EXCEPT ![client.conn] = @ + 1] ELSE handled

\* readClient(): a chunk, the end of the connection, or nothing (EINTR).
ReadClient(i) ==
  LET c == clients[i].conn
  IN  \/ /\ peer[c].unread
         /\ \E verdict \in Verdict : Read(i, verdict)
         /\ peer' = [peer EXCEPT ![c].unread = FALSE]
      \/ peer[c].link = "gone" /\ CloseClient(i)
      \/ UNCHANGED <<clients, peer, handled>>

\* writeClient(): a part is sent, or nothing for now, or the peer is gone.
WriteClient(i) ==
  LET client == clients[i]
  IN  \/ peer[client.conn].link # "open" /\ CloseClient(i)
      \/ client.output <= 1 /\ CloseClient(i)
      \/ /\ client.output > 1
         /\ clients' = [clients EXCEPT ![i] = [client EXCEPT !.output = @ - 1, !.idle = 0]]
         /\ UNCHANGED <<peer, handled>>
      \/ UNCHANGED <<clients, peer, handled>>

\* Mutant: the listener is forgotten in the positions.
EventOfMutant(i) == IF i + 1 \in DOMAIN polled THEN polled[i + 1] ELSE "none"

\* A client that came after poll() has no events.
EventOf(i) == IF i \in DOMAIN polled THEN polled[i] ELSE "none"

\* From the last client to the first.
Serve ==
  /\ pc = "serve" /\ index > 0
  /\ CASE EventOf(index) = "error" -> CloseClient(index)
       [] EventOf(index) = "in"    -> ReadClient(index)
       [] EventOf(index) = "out"   -> WriteClient(index)
       [] OTHER                    -> UNCHANGED <<clients, peer, handled>>
  /\ index' = index - 1
  /\ UNCHANGED <<pc, listener, retry, polled, calls, stopping, ready>>

Silent(client) == client.idle > IdleTimeout

EndServe ==
  /\ pc = "serve" /\ index = 0
  /\ polled' = <<>> /\ calls' = FALSE
  /\ pc' = "sweep" /\ index' = 1
  /\ UNCHANGED <<listener, retry, clients, world, handled>>

\* Clients that are silent for too long leave, from the first to the last.
\* The code reads the clock once for all of them.
Sweep ==
  /\ pc = "sweep" /\ index <= Len(clients)
  /\ \/ Silent(clients[index]) /\ CloseClient(index) /\ UNCHANGED index
     \/ /\ ~Silent(clients[index]) /\ index' = index + 1
        /\ UNCHANGED <<clients, peer, handled>>
  /\ UNCHANGED <<pc, listener, retry, polled, calls, stopping, ready>>

EndRound ==
  /\ pc = "sweep" /\ index > Len(clients)
  /\ pc' = "top" /\ index' = 0
  /\ UNCHANGED <<listener, retry, clients, polled, calls, world, handled>>

\* Mutant: the thread ends when it is idle only.
EndThreadIdleMutant ==
  /\ pc = "top" /\ stopping /\ ~listener /\ clients = <<>>
  /\ pc' = "ended"
  /\ UNCHANGED <<listener, retry, clients, polled, calls, index, stopping, ready, peer, handled>>

EndThread ==
  /\ pc = "top" /\ stopping
  /\ listener' = FALSE
  /\ clients' = <<>>
  /\ peer' = [c \in Connections |-> Away]
  /\ pc' = "ended"
  /\ UNCHANGED <<retry, polled, calls, index, stopping, ready, handled>>

Run ==
  BeginRound \/ Poll \/ Accept \/ Serve \/ EndServe \/ Sweep \/ EndRound \/ EndThread

Next ==
  \/ Start \/ Stop \/ Join \/ ReadyChanges
  \/ \E c \in Connections : Connect(c) \/ Send(c) \/ HangUp(c)
  \/ TimePasses
  \/ Run

Spec == Init /\ [][Next]_vars

\* The thread runs, the owner waits for it, time passes; to listen succeeds
\* if it is tried again and again.  Peers do what they like.
FairSpec ==
  /\ Spec
  /\ WF_vars(Run) /\ WF_vars(Join) /\ WF_vars(TimePasses)
  /\ SF_vars(BeginRound /\ listener')
-----------------------------------------------------------------------------
(* Properties. *)

Serves(c) == \E i \in DOMAIN clients : clients[i].conn = c

\* Types; no more clients than the limit, each connection once, and no client
\* left without its connection.
TypeOK ==
  /\ pc \in {"off", "top", "poll", "accept", "serve", "sweep", "ended"}
  /\ {stopping, ready, listener, calls} \subseteq BOOLEAN
  /\ retry \in 0 .. RetryDelay
  /\ clients \in Seq(Client) /\ Len(clients) <= MaxClients
  /\ polled \in Seq(Event) /\ index \in 0 .. MaxClients + 1
  /\ peer \in [Connections -> Peer]
  /\ \A i, j \in DOMAIN clients : clients[i].conn = clients[j].conn => i = j
  /\ \A c \in Connections : Serves(c) <=> peer[c].link \in {"open", "gone"}

\* The request of a connection is handled at most once, whatever the peer
\* sends after it: no picture is taken twice for one request.
HandledOnce == \A c \in Connections : handled[c] <= 1

\* A connection ends for reasons of its own: its peer has gone, its reply is
\* sent, it was silent, or the server stops.  Never for the sake of the
\* events of another, which are kept by position while clients come and go.
NoInnocentClosed ==
  [][\A i \in DOMAIN clients :
       (\A j \in DOMAIN clients' : clients'[j].conn # clients[i].conn) =>
         \/ peer[clients[i].conn].link # "open"
         \/ clients[i].output = 1
         \/ Silent(clients[i])
         \/ stopping]_vars

\* Every client leaves in the end, also one that sends its request byte by
\* byte for ever, or does not read its reply: no peer keeps a place for good.
ClientsLeave == \A c \in Connections : []<>~Serves(c)

\* The thread ends when it is told to.
StopEnds == stopping ~> pc = "off"

\* In the end the listener is open if the runtime stays ready, and closed if
\* it stays unready.
ListenerFollows ==
  /\ <>[](ready /\ ~stopping /\ pc # "off") => <>[]listener
  /\ <>[]~ready => <>[]~listener
=============================================================================
