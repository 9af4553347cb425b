-------------------------- MODULE HttpServerProofs --------------------------
(***************************************************************************)
(* Proofs about HttpServer, for any number of places and connections, any  *)
(* sizes of buffers and replies, and any timeouts.                         *)
(***************************************************************************)
EXTENDS HttpServer, SequenceTheorems, TLAPS

Places == 1 .. Len(clients)

\* The clients and their connections: as many as there are places, each
\* connection once, and no client without its connection.
Connected ==
  /\ clients \in Seq(Client) /\ Len(clients) <= MaxClients
  /\ peer \in [Connections -> Peer]
  /\ \A i, j \in Places : clients[i].conn = clients[j].conn => i = j
  /\ \A i \in Places : peer[clients[i].conn].link \in {"open", "gone"}
  /\ \A c \in Connections :
       peer[c].link \in {"open", "gone"} => \E i \in Places : clients[i].conn = c

\* A request is handled once, and then its client has a reply to send until
\* it leaves.
Accounted ==
  /\ handled \in [Connections -> {0, 1}]
  /\ \A c \in Connections : peer[c].link = "queued" => handled[c] = 0
  /\ \A i \in Places : handled[clients[i].conn] = 0 \/ clients[i].output > 0

\* The event at position i is one of the client at position i.
Fits(i) ==
  /\ polled[i] = "in" => clients[i].output = 0
  /\ polled[i] = "out" => clients[i].output > 0
  /\ polled[i] = "error" => peer[clients[i].conn].link = "gone"

\* The events of the clients that are still to be served are their own.
EventsFit ==
  /\ polled \in Seq(Event)
  /\ pc = "accept" => Len(polled) = Len(clients)
  /\ pc = "serve" => index <= Len(clients)
  /\ \A i \in DOMAIN polled :
       \/ pc = "accept"
       \/ pc = "serve" /\ i <= index
       => Fits(i)

Control ==
  /\ pc \in {"off", "top", "poll", "accept", "serve", "sweep", "ended"}
  /\ stopping \in BOOLEAN /\ ready \in BOOLEAN /\ listener \in BOOLEAN /\ calls \in BOOLEAN
  /\ retry \in 0 .. RetryDelay
  /\ index \in 0 .. MaxClients + 1
  /\ pc = "sweep" => index > 0

IInv ==
  /\ Control
  /\ Connected
  /\ Accounted
  /\ EventsFit

-----------------------------------------------------------------------------
LEMMA Limits ==
  /\ MaxClients \in Nat /\ MaxClients > 0 /\ MaxInput \in Nat /\ MaxInput > 0
  /\ ReplyParts \in Nat /\ ReplyParts > 0 /\ RetryDelay \in Nat /\ RetryDelay > 0
  /\ IdleTimeout \in Nat
BY ServerAssumption

(* Sequences. *)

LEMMA RemoveAtProperties ==
  ASSUME NEW S, NEW s \in Seq(S), NEW i \in 1 .. Len(s)
  PROVE  /\ RemoveAt(s, i) \in Seq(S)
         /\ Len(RemoveAt(s, i)) = Len(s) - 1
         /\ \A j \in 1 .. Len(s) - 1 :
              RemoveAt(s, i)[j] = IF j < i THEN s[j] ELSE s[j + 1]
<1> DEFINE head == SubSeq(s, 1, i - 1)
           tail == SubSeq(s, i + 1, Len(s))
<1>1. /\ head \in Seq(S) /\ Len(head) = i - 1
      /\ \A j \in 1 .. i - 1 : head[j] = s[j]
  OBVIOUS
<1>2. /\ tail \in Seq(S) /\ Len(tail) = Len(s) - i
      /\ \A j \in 1 .. Len(s) - i : tail[j] = s[i + j]
  OBVIOUS
<1> HIDE DEF head, tail
<1>3. /\ head \o tail \in Seq(S) /\ Len(head \o tail) = Len(s) - 1
      /\ \A j \in 1 .. Len(s) - 1 :
           (head \o tail)[j] = IF j <= i - 1 THEN head[j] ELSE tail[j - (i - 1)]
  <2>1. /\ head \o tail \in Seq(S) /\ Len(head \o tail) = Len(head) + Len(tail)
        /\ \A j \in 1 .. Len(head) + Len(tail) :
             (head \o tail)[j] = IF j <= Len(head) THEN head[j] ELSE tail[j - Len(head)]
    BY <1>1, <1>2, ConcatProperties
  <2>2. Len(head) + Len(tail) = Len(s) - 1
    BY <1>1, <1>2
  <2>3. QED
    BY <1>1, <2>1, <2>2
<1>4. ASSUME NEW j \in 1 .. Len(s) - 1
      PROVE  (head \o tail)[j] = IF j < i THEN s[j] ELSE s[j + 1]
  <2>1. i \in Nat /\ j \in Nat /\ Len(s) \in Nat
    OBVIOUS
  <2>2. CASE j < i
    BY <1>1, <1>3, <2>1, <2>2
  <2>3. CASE j >= i
    <3> DEFINE k == j - (i - 1)
    <3>1. k \in 1 .. Len(s) - i /\ i + k = j + 1 /\ ~(j <= i - 1)
      BY <2>1, <2>3
    <3>2. tail[k] = s[i + k]
      BY <1>2, <3>1
    <3>3. (head \o tail)[j] = tail[k]
      BY <1>3, <3>1
    <3>4. QED
      BY <2>1, <2>3, <3>1, <3>2, <3>3
  <2>4. j < i \/ j >= i
    BY <2>1
  <2>5. QED
    BY <2>2, <2>3, <2>4, Zenon
<1>5. QED
  BY <1>3, <1>4 DEF RemoveAt, head, tail

LEMMA ReplacedProperties ==
  ASSUME NEW S, NEW s \in Seq(S), NEW i \in 1 .. Len(s), NEW e \in S
  PROVE  /\ [s EXCEPT ![i] = e] \in Seq(S)
         /\ Len([s EXCEPT ![i] = e]) = Len(s)
         /\ \A j \in 1 .. Len(s) : [s EXCEPT ![i] = e][j] = IF j = i THEN e ELSE s[j]
  OBVIOUS

-----------------------------------------------------------------------------
(* What happens to a client. *)

\* The clients at the positions before i, and their connections, are as before.
Before(i) ==
  \A j \in 1 .. i - 1 :
    /\ j \in 1 .. Len(clients')
    /\ clients'[j] = clients[j]
    /\ peer'[clients[j].conn].link = peer[clients[j].conn].link

LEMMA ClientFields ==
  ASSUME Connected, NEW i \in Places
  PROVE  /\ clients[i] \in Client /\ clients[i].conn \in Connections
         /\ clients[i].input \in 0 .. MaxInput /\ clients[i].output \in 0 .. ReplyParts
         /\ clients[i].idle \in 0 .. IdleTimeout + 1
<1>1. clients[i] \in Client
  BY ElementOfSeq DEF Connected, Places
<1>2. QED
  BY <1>1 DEF Client

LEMMA ClosedClients ==
  ASSUME Connected, NEW i \in Places, CloseClient(i)
  PROVE  /\ clients' \in Seq(Client) /\ Len(clients') = Len(clients) - 1
         /\ \A j \in 1 .. Len(clients) - 1 :
              clients'[j] = IF j < i THEN clients[j] ELSE clients[j + 1]
<1>1. clients \in Seq(Client) /\ i \in 1 .. Len(clients) /\ clients' = RemoveAt(clients, i)
  BY DEF CloseClient, Connected, Places
<1>2. /\ RemoveAt(clients, i) \in Seq(Client)
      /\ Len(RemoveAt(clients, i)) = Len(clients) - 1
      /\ \A j \in 1 .. Len(clients) - 1 :
           RemoveAt(clients, i)[j] = IF j < i THEN clients[j] ELSE clients[j + 1]
  BY <1>1, RemoveAtProperties, Zenon
<1>3. QED
  BY <1>1, <1>2, Zenon

LEMMA CloseClientKeeps ==
  ASSUME Connected, Accounted, NEW i \in Places, CloseClient(i)
  PROVE  Connected' /\ Accounted' /\ Before(i) /\ Len(clients') = Len(clients) - 1
<1> DEFINE conn == clients[i].conn
           at(j) == IF j < i THEN j ELSE j + 1
<1>1. conn \in Connections
  BY ClientFields
<1>2. /\ clients' \in Seq(Client) /\ Len(clients') = Len(clients) - 1
      /\ \A j \in 1 .. Len(clients) - 1 : clients'[j] = IF j < i THEN clients[j] ELSE clients[j + 1]
  BY ClosedClients
<1>3. \A j \in Places' : at(j) \in Places /\ at(j) # i /\ clients'[j] = clients[at(j)]
  <2>1. Len(clients) \in Nat /\ Len(clients') = Len(clients) - 1 /\ i \in 1 .. Len(clients)
    BY <1>2 DEF Places, Connected
  <2>2. ASSUME NEW j \in 1 .. Len(clients) - 1
        PROVE  at(j) \in 1 .. Len(clients) /\ at(j) # i
    BY <2>1
  <2>3. ASSUME NEW j \in 1 .. Len(clients) - 1
        PROVE  clients'[j] = clients[at(j)]
    BY <1>2
  <2>4. QED
    BY <2>1, <2>2, <2>3 DEF Places
<1>4. /\ peer' \in [Connections -> Peer]
      /\ \A c \in Connections : peer'[c] = IF c = conn THEN Away ELSE peer[c]
  BY <1>1 DEF CloseClient, Connected, Peer, Away
<1>5. \A j \in Places : clients[j].conn \in Connections /\ (j # i => clients[j].conn # conn)
  BY ClientFields DEF Connected
<1>6. Connected'
  <2>1. Len(clients') <= MaxClients
    BY <1>2, ServerAssumption DEF Connected, Places
  <2>2. ASSUME NEW j \in Places', NEW k \in Places', clients'[j].conn = clients'[k].conn
        PROVE  j = k
    <3>1. at(j) = at(k)
      BY <1>3, <2>2 DEF Connected
    <3>2. j \in Int /\ k \in Int /\ i \in Int
      BY <1>2 DEF Places, Connected
    <3>3. QED
      BY <3>1, <3>2
  <2>3. ASSUME NEW j \in Places' PROVE peer'[clients'[j].conn].link \in {"open", "gone"}
    BY <1>3, <1>4, <1>5 DEF Connected
  <2>4. ASSUME NEW c \in Connections, peer'[c].link \in {"open", "gone"}
        PROVE  \E j \in Places' : clients'[j].conn = c
    <3>1. c # conn /\ peer[c].link \in {"open", "gone"}
      BY <1>4, <2>4 DEF Away
    <3>2. PICK k \in Places : clients[k].conn = c
      BY <3>1 DEF Connected
    <3>3. k # i
      BY <3>1, <3>2
    <3>4. CASE k < i
      BY <1>2, <3>2, <3>4 DEF Places, Connected
    <3>5. CASE k > i
      <4>1. k - 1 \in Places' /\ clients'[k - 1] = clients[k]
        BY <1>2, <3>5 DEF Places, Connected
      <4>2. QED
        BY <3>2, <4>1
    <3>6. QED
      BY <3>3, <3>4, <3>5 DEF Places, Connected
  <2>5. QED
    BY <1>2, <1>4, <2>1, <2>2, <2>3, <2>4 DEF Connected
<1>7. Accounted'
  <2>1. handled' = handled
    BY DEF CloseClient
  <2>2. \A c \in Connections : peer'[c].link = "queued" => peer[c].link = "queued"
    BY <1>4 DEF Away
  <2>3. \A j \in Places' : handled[clients'[j].conn] = 0 \/ clients'[j].output > 0
    BY <1>3 DEF Accounted
  <2>4. QED
    BY <2>1, <2>2, <2>3 DEF Accounted
<1>8. Before(i)
  BY <1>2, <1>4, <1>5 DEF Before, Places, Connected
<1>9. QED
  BY <1>2, <1>6, <1>7, <1>8

\* A client is read or written: it keeps its place and its connection.
LEMMA ReplaceKeeps ==
  ASSUME Connected, NEW i \in Places, NEW client \in Client,
         client.conn = clients[i].conn,
         clients' = [clients EXCEPT ![i] = client],
         peer' \in [Connections -> Peer],
         \A c \in Connections : peer'[c].link = peer[c].link
  PROVE  /\ Connected' /\ Before(i) /\ Len(clients') = Len(clients)
         /\ \A j \in Places : clients'[j] = IF j = i THEN client ELSE clients[j]
<1>1. /\ clients' \in Seq(Client) /\ Len(clients') = Len(clients)
      /\ \A j \in 1 .. Len(clients) : clients'[j] = IF j = i THEN client ELSE clients[j]
  <2>1. clients \in Seq(Client) /\ i \in 1 .. Len(clients)
    BY DEF Connected, Places
  <2>2. QED
    BY <2>1, ReplacedProperties
<1>2. Places' = Places
  BY <1>1 DEF Places
<1>3. \A j \in Places : clients'[j].conn = clients[j].conn /\ clients[j].conn \in Connections
  BY <1>1, ClientFields DEF Places
<1>4. Connected'
  <2>1. \A j, k \in Places : clients'[j].conn = clients'[k].conn => j = k
    BY <1>3 DEF Connected
  <2>2. \A j \in Places : peer'[clients'[j].conn].link \in {"open", "gone"}
    BY <1>3 DEF Connected
  <2>3. \A c \in Connections :
          peer'[c].link \in {"open", "gone"} => \E j \in Places : clients'[j].conn = c
    BY <1>3 DEF Connected
  <2>4. Len(clients) <= MaxClients
    BY DEF Connected
  <2>5. QED
    BY <1>1, <1>2, <2>1, <2>2, <2>3, <2>4 DEF Connected
<1>5. Before(i)
  BY <1>1, <1>3 DEF Before, Places, Connected
<1>6. QED
  BY <1>1, <1>4, <1>5 DEF Places

\* What a client has gone through keeps the account of the requests.
LEMMA ReadKeeps ==
  ASSUME IInv, NEW i \in Places, clients[i].output = 0, ReadClient(i)
  PROVE  Connected' /\ Accounted' /\ Before(i) /\ Len(clients') >= i - 1
<1> DEFINE conn == clients[i].conn
<1> USE DEF IInv
<1>1. /\ clients[i] \in Client /\ conn \in Connections
      /\ clients[i].input \in 0 .. MaxInput /\ i \in Nat /\ Len(clients) \in Nat /\ i <= Len(clients)
  BY ClientFields DEF Connected, Places
<1>2. ASSUME NEW verdict \in Verdict, Read(i, verdict), peer' = [peer EXCEPT ![conn].unread = FALSE]
      PROVE  Connected' /\ Accounted' /\ Before(i) /\ Len(clients') >= i - 1
  <2> DEFINE tooLarge == clients[i].input >= MaxInput
             input == IF tooLarge THEN clients[i].input ELSE clients[i].input + 1
             output == IF tooLarge \/ verdict # "incomplete" THEN ReplyParts ELSE clients[i].output
             client == [clients[i] EXCEPT !.input = input, !.idle = 0, !.output = output]
  <2>1. ReplyParts \in Nat /\ ReplyParts > 0 /\ MaxInput \in Nat /\ IdleTimeout \in Nat
    BY ServerAssumption
  <2>2. client \in Client /\ client.conn = conn /\ client.output = output
    <3>1. input \in 0 .. MaxInput /\ output \in 0 .. ReplyParts /\ 0 \in 0 .. IdleTimeout + 1
      BY <1>1, <2>1, ClientFields DEF Connected
    <3> HIDE DEF input, output
    <3>2. QED
      BY <1>1, <3>1 DEF Client
  <2>3. output > 0 \/ ~(~tooLarge /\ verdict = "ok")
    BY <2>1
  <2>4. clients' = [clients EXCEPT ![i] = client]
    BY <1>2, Zenon DEF Read
  <2>5. /\ peer' \in [Connections -> Peer]
        /\ \A c \in Connections : peer'[c].link = peer[c].link
    <3>1. peer \in [Connections -> Peer] /\ peer[conn] \in Peer
      BY <1>1 DEF Connected
    <3>2. [peer[conn] EXCEPT !.unread = FALSE] \in Peer
      BY <3>1 DEF Peer
    <3>3. [peer[conn] EXCEPT !.unread = FALSE].link = peer[conn].link
      BY <3>1 DEF Peer
    <3>4. peer' = [peer EXCEPT ![conn] = [peer[conn] EXCEPT !.unread = FALSE]]
      BY <1>2
    <3>5. QED
      BY <1>1, <3>1, <3>2, <3>3, <3>4
  <2> HIDE DEF client, output
  <2>6. /\ Connected' /\ Before(i) /\ Len(clients') = Len(clients)
        /\ \A j \in Places : clients'[j] = IF j = i THEN client ELSE clients[j]
    BY <2>2, <2>4, <2>5, ReplaceKeeps
  <2>7. handled' \in [Connections -> {0, 1}]
        /\ \A c \in Connections : c # conn => handled'[c] = handled[c]
    <3>1. handled \in [Connections -> {0, 1}] /\ handled[conn] = 0
      BY <1>1 DEF Accounted
    <3>2. handled' = handled \/ handled' = [handled EXCEPT ![conn] = @ + 1]
      BY <1>2 DEF Read
    <3>3. QED
      BY <1>1, <3>1, <3>2
  <2>8. handled'[conn] = 0 \/ client.output > 0
    <3>1. handled[conn] = 0
      BY <1>1 DEF Accounted
    <3>2. CASE ~tooLarge /\ verdict = "ok"
      BY <2>2, <2>3, <3>2
    <3>3. CASE ~(~tooLarge /\ verdict = "ok")
      BY <1>2, <3>1, <3>3 DEF Read
    <3>4. QED
      BY <3>2, <3>3
  <2>9. Accounted'
    <3>1. \A c \in Connections : peer'[c].link = "queued" => handled'[c] = 0
      BY <2>5, <2>7 DEF Accounted, Connected
    <3>2. \A j \in Places : j # i => clients[j].conn # conn /\ clients[j].conn \in Connections
      BY ClientFields DEF Connected
    <3>3. \A j \in Places : handled'[clients'[j].conn] = 0 \/ clients'[j].output > 0
      BY <2>2, <2>6, <2>7, <2>8, <3>2 DEF Accounted
    <3>4. Places' = Places
      BY <2>6 DEF Places
    <3>5. QED
      BY <2>7, <3>1, <3>3, <3>4 DEF Accounted
  <2>10. QED
    BY <1>1, <2>6, <2>9
<1>3. ASSUME CloseClient(i)
      PROVE  Connected' /\ Accounted' /\ Before(i) /\ Len(clients') >= i - 1
  BY <1>1, <1>3, CloseClientKeeps
<1>4. ASSUME UNCHANGED <<clients, peer, handled>>
      PROVE  Connected' /\ Accounted' /\ Before(i) /\ Len(clients') >= i - 1
  BY <1>1, <1>4 DEF Connected, Accounted, Before, Places
<1>5. QED
  BY <1>2, <1>3, <1>4 DEF ReadClient

LEMMA WriteKeeps ==
  ASSUME IInv, NEW i \in Places, clients[i].output > 0, WriteClient(i)
  PROVE  Connected' /\ Accounted' /\ Before(i) /\ Len(clients') >= i - 1
<1> DEFINE conn == clients[i].conn
           client == [clients[i] EXCEPT !.output = @ - 1, !.idle = 0]
<1> USE DEF IInv
<1>1. /\ clients[i] \in Client /\ conn \in Connections
      /\ clients[i].output \in 0 .. ReplyParts /\ i \in Nat /\ Len(clients) \in Nat /\ i <= Len(clients)
  BY ClientFields DEF Connected, Places
<1>2. ASSUME clients[i].output > 1, clients' = [clients EXCEPT ![i] = client], UNCHANGED <<peer, handled>>
      PROVE  Connected' /\ Accounted' /\ Before(i) /\ Len(clients') >= i - 1
  <2>1. ReplyParts \in Nat /\ IdleTimeout \in Nat
    BY ServerAssumption
  <2>2. client \in Client /\ client.conn = conn /\ client.output > 0
    <3>1. /\ clients[i].output - 1 \in 0 .. ReplyParts /\ clients[i].output - 1 > 0
          /\ 0 \in 0 .. IdleTimeout + 1
      BY <1>1, <1>2, <2>1
    <3>2. QED
      BY <1>1, <3>1 DEF Client
  <2>3. /\ peer' \in [Connections -> Peer]
        /\ \A c \in Connections : peer'[c].link = peer[c].link
    BY <1>2 DEF Connected
  <2> HIDE DEF client
  <2>4. /\ Connected' /\ Before(i) /\ Len(clients') = Len(clients)
        /\ \A j \in Places : clients'[j] = IF j = i THEN client ELSE clients[j]
    BY <1>2, <2>2, <2>3, ReplaceKeeps
  <2>5. Accounted'
    <3>1. Places' = Places
      BY <2>4 DEF Places
    <3>2. \A j \in Places : handled[clients'[j].conn] = 0 \/ clients'[j].output > 0
      BY <2>2, <2>4 DEF Accounted
    <3>3. QED
      BY <1>2, <3>1, <3>2 DEF Accounted
  <2>6. QED
    BY <1>1, <2>4, <2>5
<1>3. ASSUME CloseClient(i)
      PROVE  Connected' /\ Accounted' /\ Before(i) /\ Len(clients') >= i - 1
  BY <1>1, <1>3, CloseClientKeeps
<1>4. ASSUME UNCHANGED <<clients, peer, handled>>
      PROVE  Connected' /\ Accounted' /\ Before(i) /\ Len(clients') >= i - 1
  BY <1>1, <1>4 DEF Connected, Accounted, Before, Places
<1>5. \/ CloseClient(i)
      \/ /\ clients[i].output > 1
         /\ clients' = [clients EXCEPT ![i] = client]
         /\ UNCHANGED <<peer, handled>>
      \/ UNCHANGED <<clients, peer, handled>>
  BY Zenon DEF WriteClient
<1>6. QED
  BY <1>2, <1>3, <1>4, <1>5, Zenon

-----------------------------------------------------------------------------
(* The actions. *)

LEMMA InitInvariant == Init => IInv
<1> SUFFICES ASSUME Init PROVE IInv
  OBVIOUS
<1>1. Len(clients) = 0 /\ clients \in Seq(Client) /\ polled \in Seq(Event) /\ Len(polled) = 0
  BY EmptySeq DEF Init
<1>2. Control
  <2>1. retry \in 0 .. RetryDelay /\ index \in 0 .. MaxClients + 1
    BY Limits DEF Init
  <2>2. stopping \in BOOLEAN /\ ready \in BOOLEAN /\ listener \in BOOLEAN /\ calls \in BOOLEAN
    BY Zenon DEF Init
  <2>3. QED
    BY <2>1, <2>2 DEF Init, Control
<1>3. Connected
  BY <1>1, ServerAssumption DEF Init, Connected, Places, Peer, Away
<1>4. Accounted
  BY <1>1 DEF Init, Accounted, Places, Away
<1>5. EventsFit
  BY <1>1 DEF Init, EventsFit
<1>6. QED
  BY <1>2, <1>3, <1>4, <1>5 DEF IInv

\* Steps that leave the clients, their connections and the account alone.
LEMMA SameClients ==
  ASSUME Connected, Accounted, UNCHANGED <<clients, peer, handled>>
  PROVE  Connected' /\ Accounted'
BY DEF Connected, Accounted, Places

LEMMA OwnerInvariant ==
  ASSUME IInv, Start \/ Stop \/ Join \/ ReadyChanges
  PROVE  IInv'
<1> USE DEF IInv
<1>1. UNCHANGED <<clients, peer, handled, polled, index, listener, calls, retry>>
  BY DEF Start, Stop, Join, ReadyChanges, thread, world
<1>2. /\ stopping' \in BOOLEAN /\ ready' \in BOOLEAN
      /\ \/ pc' = pc
         \/ pc = "off" /\ pc' = "top"
         \/ pc = "ended" /\ pc' = "off"
  BY DEF Start, Stop, Join, ReadyChanges, thread, world, Control
<1>3. Control'
  BY <1>1, <1>2 DEF Control
<1>4. Connected' /\ Accounted'
  BY <1>1, SameClients
<1>5. EventsFit'
  BY <1>1, <1>2 DEF EventsFit, Fits
<1>6. QED
  BY <1>3, <1>4, <1>5

\* A peer acts on its own connection only.
LEMMA PeerInvariant ==
  ASSUME IInv, NEW c \in Connections, Connect(c) \/ Send(c) \/ HangUp(c)
  PROVE  IInv'
<1> USE DEF IInv
<1>1. UNCHANGED <<thread, stopping, ready>>
  BY DEF Connect, Send, HangUp
<1>2. /\ peer \in [Connections -> Peer] /\ peer[c] \in Peer
      /\ peer[c].link \in {"free", "queued", "open", "gone"} /\ peer[c].unread \in BOOLEAN
  BY DEF Connected, Peer
<1>3. /\ peer' \in [Connections -> Peer]
      /\ \A d \in Connections : d # c => peer'[d] = peer[d]
      /\ \/ peer'[c].link = peer[c].link /\ UNCHANGED handled
         \/ /\ listener /\ peer[c].link = "free" /\ peer'[c].link = "queued"
            /\ handled' = [handled EXCEPT ![c] = 0]
         \/ peer[c].link = "open" /\ peer'[c].link = "gone" /\ UNCHANGED handled
         \/ peer[c].link = "queued" /\ peer'[c].link = "free" /\ UNCHANGED handled
  <2>1. CASE Connect(c)
    <3>1. peer' = [peer EXCEPT ![c] = [peer[c] EXCEPT !.link = "queued"]]
      BY <2>1 DEF Connect
    <3>2. /\ [peer[c] EXCEPT !.link = "queued"] \in Peer
          /\ [peer[c] EXCEPT !.link = "queued"].link = "queued"
      BY <1>2 DEF Peer
    <3>3. QED
      BY <1>2, <2>1, <3>1, <3>2 DEF Connect
  <2>2. CASE Send(c)
    <3>1. peer' = [peer EXCEPT ![c] = [peer[c] EXCEPT !.unread = TRUE]]
      BY <2>2 DEF Send
    <3>2. /\ [peer[c] EXCEPT !.unread = TRUE] \in Peer
          /\ [peer[c] EXCEPT !.unread = TRUE].link = peer[c].link
      BY <1>2 DEF Peer
    <3>3. QED
      BY <1>2, <2>2, <3>1, <3>2 DEF Send
  <2>3. CASE HangUp(c)
    <3>1. CASE peer[c].link = "open" /\ peer' = [peer EXCEPT ![c].link = "gone"]
      <4>1. peer' = [peer EXCEPT ![c] = [peer[c] EXCEPT !.link = "gone"]]
        BY <3>1
      <4>2. /\ [peer[c] EXCEPT !.link = "gone"] \in Peer
            /\ [peer[c] EXCEPT !.link = "gone"].link = "gone"
        BY <1>2 DEF Peer
      <4>3. QED
        BY <1>2, <2>3, <3>1, <4>1, <4>2 DEF HangUp
    <3>2. CASE peer[c].link = "queued" /\ peer' = [peer EXCEPT ![c] = Away]
      <4>1. Away \in Peer /\ Away.link = "free"
        BY DEF Peer, Away
      <4>2. QED
        BY <1>2, <2>3, <3>2, <4>1 DEF HangUp
    <3>3. QED
      BY <2>3, <3>1, <3>2 DEF HangUp
  <2>4. QED
    BY <2>1, <2>2, <2>3
<1>4. Control'
  BY <1>1 DEF Control, thread
<1>5. Connected'
  <2>1. \A d \in Connections :
          peer'[d].link \in {"open", "gone"} <=> peer[d].link \in {"open", "gone"}
    BY <1>3
  <2>2. UNCHANGED clients /\ Places' = Places
    BY <1>1 DEF thread, Places
  <2>3. QED
    BY <1>3, <2>1, <2>2, ClientFields DEF Connected
<1>6. Accounted'
  <2>1. handled' \in [Connections -> {0, 1}]
    BY <1>3 DEF Accounted
  <2>2. \A d \in Connections : peer'[d].link = "queued" => handled'[d] = 0
    BY <1>3 DEF Accounted
  <2>3. \A i \in Places : handled'[clients[i].conn] = 0 \/ clients[i].output > 0
    BY <1>3, ClientFields DEF Accounted
  <2>4. UNCHANGED clients /\ Places' = Places
    BY <1>1 DEF thread, Places
  <2>5. QED
    BY <2>1, <2>2, <2>3, <2>4 DEF Accounted
<1>7. EventsFit'
  <2>1. UNCHANGED <<pc, clients, polled, index>>
    BY <1>1 DEF thread
  <2>2. ASSUME NEW i \in DOMAIN polled, pc = "accept" \/ (pc = "serve" /\ i <= index)
        PROVE  Fits(i)'
    <3>1. Fits(i)
      BY <2>2 DEF EventsFit
    <3>2. polled \in Seq(Event) /\ i \in 1 .. Len(polled) /\ i <= Len(clients)
      BY <2>2 DEF EventsFit, Connected, Control
    <3>3. clients[i].conn \in Connections
      BY <3>2, ClientFields DEF Places, Connected
    <3>4. peer[clients[i].conn].link = "gone" => peer'[clients[i].conn].link = "gone"
      BY <1>3, <3>3
    <3>5. QED
      BY <2>1, <3>1, <3>4 DEF Fits
  <2>3. /\ polled' \in Seq(Event)
        /\ pc' = "accept" => Len(polled') = Len(clients')
        /\ pc' = "serve" => index' <= Len(clients')
    BY <2>1 DEF EventsFit
  <2>4. \A i \in DOMAIN polled' : pc' = "accept" \/ (pc' = "serve" /\ i <= index') => Fits(i)'
    BY <2>1, <2>2
  <2>5. QED
    BY <2>3, <2>4 DEF EventsFit
<1>8. QED
  BY <1>4, <1>5, <1>6, <1>7

LEMMA TimeInvariant == ASSUME IInv, TimePasses PROVE IInv'
<1> USE DEF IInv
<1>1. /\ UNCHANGED <<pc, listener, polled, calls, index, stopping, ready, peer, handled>>
      /\ retry' \in 0 .. RetryDelay
  BY Limits DEF TimePasses, world, Control
<1>2. /\ clients' \in Seq(Client) /\ Len(clients') = Len(clients)
      /\ \A i \in Places : clients'[i].conn = clients[i].conn /\ clients'[i].output = clients[i].output
  <2> DEFINE older(i) == [clients[i] EXCEPT !.idle = IF @ > IdleTimeout THEN @ ELSE @ + 1]
  <2>1. ASSUME NEW i \in Places
        PROVE  older(i) \in Client /\ older(i).conn = clients[i].conn /\ older(i).output = clients[i].output
    BY ClientFields, Limits DEF Client
  <2>2. clients \in Seq(Client) /\ Len(clients) \in Nat /\ DOMAIN clients = Places
    BY DEF Connected, Places
  <2>3. clients' = [i \in Places |-> older(i)]
    BY <2>2, Zenon DEF TimePasses
  <2> HIDE DEF older
  <2>4. clients' \in [1 .. Len(clients) -> Client]
    BY <2>1, <2>3 DEF Places
  <2>5. clients' \in Seq(Client) /\ Len(clients') = Len(clients)
    BY <2>2, <2>4
  <2>6. QED
    BY <2>1, <2>3, <2>5
<1>3. Places' = Places
  BY <1>2 DEF Places
<1>4. Control'
  BY <1>1 DEF Control
<1>5. Connected'
  <2>1. \A i, j \in Places : clients'[i].conn = clients'[j].conn => i = j
    BY <1>2 DEF Connected
  <2>2. \A i \in Places : peer[clients'[i].conn].link \in {"open", "gone"}
    BY <1>2 DEF Connected
  <2>3. \A c \in Connections :
          peer[c].link \in {"open", "gone"} => \E i \in Places : clients'[i].conn = c
    BY <1>2 DEF Connected
  <2>4. QED
    BY <1>1, <1>2, <1>3, <2>1, <2>2, <2>3 DEF Connected
<1>6. Accounted'
  BY <1>1, <1>2, <1>3 DEF Accounted
<1>7. EventsFit'
  <2>1. /\ polled' \in Seq(Event)
        /\ pc' = "accept" => Len(polled') = Len(clients')
        /\ pc' = "serve" => index' <= Len(clients')
    BY <1>1, <1>2 DEF EventsFit
  <2>2. ASSUME NEW i \in DOMAIN polled, pc = "accept" \/ (pc = "serve" /\ i <= index)
        PROVE  Fits(i)'
    <3>1. Fits(i)
      BY <2>2 DEF EventsFit
    <3>2. i \in Places
      BY <2>2 DEF EventsFit, Connected, Control, Places
    <3>3. QED
      BY <1>1, <1>2, <3>1, <3>2 DEF Fits
  <2>3. \A i \in DOMAIN polled' : pc' = "accept" \/ (pc' = "serve" /\ i <= index') => Fits(i)'
    BY <1>1, <2>2
  <2>4. QED
    BY <2>1, <2>3 DEF EventsFit
<1>8. QED
  BY <1>4, <1>5, <1>6, <1>7

\* Between two rounds there are no events to fit.
LEMMA NoEvents ==
  ASSUME polled \in Seq(Event), UNCHANGED polled, pc' \notin {"accept", "serve"}
  PROVE  EventsFit'
BY DEF EventsFit

LEMMA BeginRoundInvariant == ASSUME IInv, BeginRound PROVE IInv'
<1> USE DEF IInv
<1>1. /\ pc = "top" /\ pc' = "poll"
      /\ UNCHANGED <<clients, polled, calls, index, stopping, ready, handled>>
  BY DEF BeginRound
<1>2. /\ listener' \in BOOLEAN /\ retry' \in 0 .. RetryDelay
      /\ CloseListener \/ UNCHANGED peer
  <2>1. FollowReadiness /\ retry \in 0 .. RetryDelay /\ listener \in BOOLEAN
    BY DEF BeginRound, Control
  <2>2. retry' \in 0 .. RetryDelay
    BY <2>1, Limits DEF FollowReadiness, OpenListener
  <2>3. listener' \in BOOLEAN
    BY <2>1, Zenon DEF FollowReadiness, OpenListener, CloseListener
  <2>4. CloseListener \/ UNCHANGED peer
    BY <2>1, Zenon DEF FollowReadiness, OpenListener
  <2>5. QED
    BY <2>2, <2>3, <2>4
<1>3. /\ peer' \in [Connections -> Peer]
      /\ \A c \in Connections :
           \/ peer'[c] = peer[c]
           \/ peer[c].link = "queued" /\ peer'[c].link = "free"
  <2>1. CASE UNCHANGED peer
    BY <2>1 DEF Connected
  <2>2. CASE CloseListener
    <3>1. Away \in Peer /\ Away.link = "free"
      BY DEF Away, Peer
    <3>2. peer' = [c \in Connections |-> IF peer[c].link = "queued" THEN Away ELSE peer[c]]
      BY <2>2 DEF CloseListener, Queued
    <3>3. QED
      BY <3>1, <3>2 DEF Connected
  <2>3. QED
    BY <1>2, <2>1, <2>2
<1>4. Control'
  BY <1>1, <1>2 DEF Control
<1>5. Connected'
  <2>1. \A c \in Connections :
          peer'[c].link \in {"open", "gone"} <=> peer[c].link \in {"open", "gone"}
    BY <1>3
  <2>2. Places' = Places
    BY <1>1 DEF Places
  <2>3. QED
    BY <1>1, <1>3, <2>1, <2>2, ClientFields DEF Connected
<1>6. Accounted'
  BY <1>1, <1>3 DEF Accounted, Places
<1>7. EventsFit'
  BY <1>1, NoEvents DEF EventsFit
<1>8. QED
  BY <1>4, <1>5, <1>6, <1>7

LEMMA PollInvariant == ASSUME IInv, Poll PROVE IInv'
<1> USE DEF IInv
<1>1. /\ pc = "poll" /\ pc' = "accept"
      /\ UNCHANGED <<listener, retry, clients, index, stopping, ready, peer, handled>>
  BY DEF Poll, world
<1>2. DOMAIN clients = Places /\ Len(clients) \in Nat
  BY DEF Connected, Places
<1>3. /\ polled' \in [Places -> Event]
      /\ \A i \in Places : polled'[i] = "none" \/ polled'[i] \in Events(clients[i])
  BY <1>2 DEF Poll, Event
<1>4. polled' \in Seq(Event) /\ Len(polled') = Len(clients) /\ DOMAIN polled' = Places
  BY <1>2, <1>3 DEF Places
<1>5. \A i \in Places : Fits(i)'
  BY <1>1, <1>3, ClientFields DEF Fits, Events
<1>6. calls' \in BOOLEAN
  BY DEF Poll, Control
<1>7. Control'
  BY <1>1, <1>6 DEF Control
<1>8. Connected' /\ Accounted'
  BY <1>1, SameClients
<1>9. EventsFit'
  BY <1>1, <1>4, <1>5 DEF EventsFit
<1>10. QED
  BY <1>7, <1>8, <1>9

\* The new client comes after the others, whose events keep their places.
LEMMA AdmitKeeps ==
  ASSUME Connected, Accounted, NEW c \in Queued, Admits,
         clients' = Accepted(c), peer' = [peer EXCEPT ![c].link = "open"], UNCHANGED handled
  PROVE  /\ Connected' /\ Accounted' /\ Len(clients') = Len(clients) + 1
         /\ \A i \in Places :
              clients'[i] = clients[i] /\ peer'[clients[i].conn] = peer[clients[i].conn]
<1> DEFINE client == [conn |-> c, input |-> 0, output |-> 0, idle |-> 0]
<1>1. /\ c \in Connections /\ peer[c].link = "queued" /\ peer[c] \in Peer
      /\ clients \in Seq(Client) /\ Len(clients) \in Nat /\ Len(clients) < MaxClients
  BY DEF Queued, Admits, Connected
<1>2. client \in Client
  BY <1>1, Limits DEF Client
<1>3. /\ clients' \in Seq(Client) /\ Len(clients') = Len(clients) + 1
      /\ \A i \in 1 .. Len(clients) : clients'[i] = clients[i]
      /\ clients'[Len(clients) + 1] = client
  BY <1>1, <1>2, AppendProperties DEF Accepted
<1>4. /\ peer' \in [Connections -> Peer] /\ peer'[c].link = "open"
      /\ \A d \in Connections : d # c => peer'[d] = peer[d]
  <2>1. [peer[c] EXCEPT !.link = "open"] \in Peer /\ [peer[c] EXCEPT !.link = "open"].link = "open"
    BY <1>1 DEF Peer
  <2>2. peer' = [peer EXCEPT ![c] = [peer[c] EXCEPT !.link = "open"]]
    OBVIOUS
  <2>3. QED
    BY <1>1, <2>1, <2>2 DEF Connected
<1>5. \A i \in Places : clients[i].conn \in Connections /\ clients[i].conn # c
  BY <1>1, ClientFields DEF Connected
<1>6. ASSUME NEW i \in Places'
      PROVE  \/ i \in Places /\ clients'[i] = clients[i] /\ clients'[i].conn # c
             \/ i = Len(clients) + 1 /\ clients'[i] = client
  BY <1>1, <1>3, <1>5 DEF Places
<1>7. Connected'
  <2>1. \A i, j \in Places' : clients'[i].conn = clients'[j].conn => i = j
    BY <1>6 DEF Connected
  <2>2. \A i \in Places' : peer'[clients'[i].conn].link \in {"open", "gone"}
    BY <1>4, <1>5, <1>6 DEF Connected
  <2>3. ASSUME NEW d \in Connections, peer'[d].link \in {"open", "gone"}
        PROVE  \E i \in Places' : clients'[i].conn = d
    <3>1. CASE d = c
      <4>1. Len(clients) + 1 \in Places'
        BY <1>1, <1>3 DEF Places
      <4>2. QED
        BY <1>3, <3>1, <4>1
    <3>2. CASE d # c
      <4>1. PICK i \in Places : clients[i].conn = d
        BY <1>4, <2>3, <3>2 DEF Connected
      <4>2. i \in Places' /\ clients'[i] = clients[i]
        BY <1>1, <1>3 DEF Places
      <4>3. QED
        BY <4>1, <4>2
    <3>3. QED
      BY <3>1, <3>2
  <2>4. Len(clients') <= MaxClients
    BY <1>1, <1>3, Limits
  <2>5. QED
    BY <1>3, <1>4, <2>1, <2>2, <2>3, <2>4 DEF Connected
<1>8. Accounted'
  <2>1. handled[c] = 0
    BY <1>1 DEF Accounted
  <2>2. \A d \in Connections : peer'[d].link = "queued" => handled[d] = 0
    BY <1>4 DEF Accounted
  <2>3. \A i \in Places' : handled[clients'[i].conn] = 0 \/ clients'[i].output > 0
    BY <1>6, <2>1 DEF Accounted
  <2>4. QED
    BY <2>2, <2>3 DEF Accounted
<1>9. QED
  BY <1>3, <1>4, <1>5, <1>7, <1>8 DEF Places

LEMMA AcceptInvariant == ASSUME IInv, Accept PROVE IInv'
<1> USE DEF IInv
<1>1. /\ pc = "accept" /\ pc' = "serve" /\ index' = Len(clients')
      /\ UNCHANGED <<listener, retry, polled, calls, stopping, ready, handled>>
  BY DEF Accept
<1>2. ASSUME Connected', Accounted',
             Len(clients') = Len(clients) \/ Len(clients') = Len(clients) + 1,
             \A i \in Places : /\ clients'[i] = clients[i]
                               /\ peer'[clients[i].conn].link = peer[clients[i].conn].link
      PROVE  IInv'
  <2>1. Len(clients') \in Nat /\ Len(clients') <= MaxClients
    BY <1>2 DEF Connected
  <2>2. Control'
    <3>1. index' \in 0 .. MaxClients + 1
      BY <1>1, <2>1, Limits
    <3>2. QED
      BY <1>1, <3>1 DEF Control
  <2>3. EventsFit'
    <3>1. polled' \in Seq(Event) /\ index' <= Len(clients')
      BY <1>1, <2>1 DEF EventsFit
    <3>2. ASSUME NEW i \in DOMAIN polled
          PROVE  Fits(i)'
      <4>1. Fits(i) /\ i \in Places
        BY <1>1 DEF EventsFit, Places
      <4>2. QED
        BY <1>1, <1>2, <4>1 DEF Fits
    <3>3. QED
      BY <1>1, <3>1, <3>2 DEF EventsFit
  <2>4. QED
    BY <1>2, <2>2, <2>3
<1>3. CASE UNCHANGED <<clients, peer>>
  BY <1>1, <1>2, <1>3, SameClients
<1>4. ASSUME NEW c \in Queued, Admits, clients' = Accepted(c), peer' = [peer EXCEPT ![c].link = "open"]
      PROVE  IInv'
  <2>1. /\ Connected' /\ Accounted' /\ Len(clients') = Len(clients) + 1
        /\ \A i \in Places :
             clients'[i] = clients[i] /\ peer'[clients[i].conn] = peer[clients[i].conn]
    BY <1>1, <1>4, AdmitKeeps
  <2>2. QED
    BY <1>2, <2>1
<1>5. ASSUME NEW c \in Queued, clients' = clients, peer' = [peer EXCEPT ![c] = Away]
      PROVE  IInv'
  <2>1. /\ c \in Connections /\ peer[c].link = "queued"
        /\ peer' \in [Connections -> Peer] /\ peer'[c].link = "free"
        /\ \A d \in Connections : d # c => peer'[d] = peer[d]
    BY <1>5 DEF Queued, Connected, Away, Peer
  <2>2. Places' = Places
    BY <1>5 DEF Places
  <2>3. \A i \in Places : clients[i].conn \in Connections /\ clients[i].conn # c
    BY <2>1, ClientFields DEF Connected
  <2>4. Connected'
    BY <1>5, <2>1, <2>2, <2>3 DEF Connected
  <2>5. Accounted'
    BY <1>1, <1>5, <2>1, <2>2 DEF Accounted
  <2>6. QED
    BY <1>2, <1>5, <2>1, <2>3, <2>4, <2>5
<1>6. \/ UNCHANGED <<clients, peer>>
      \/ \E c \in Queued :
           /\ clients' = IF Admits THEN Accepted(c) ELSE clients
           /\ peer' = IF Admits THEN [peer EXCEPT ![c].link = "open"] ELSE [peer EXCEPT ![c] = Away]
  BY Zenon DEF Accept
<1>7. QED
  BY <1>3, <1>4, <1>5, <1>6

\* The client at index is done with; the events of those before it still fit.
LEMMA ServeInvariant == ASSUME IInv, Serve PROVE IInv'
<1> USE DEF IInv
<1>1. /\ pc = "serve" /\ index > 0 /\ index' = index - 1
      /\ UNCHANGED <<pc, listener, retry, polled, calls, stopping, ready>>
  BY DEF Serve
<1>2. index \in Places /\ index \in Nat /\ Len(clients) \in Nat
  BY <1>1 DEF Control, EventsFit, Connected, Places
<1>3. Connected' /\ Accounted' /\ Before(index) /\ Len(clients') >= index - 1
  <2>1. index \in DOMAIN polled => Fits(index)
    BY <1>1, <1>2 DEF EventsFit
  <2>2. CASE EventOf(index) = "error" /\ CloseClient(index)
    BY <1>2, <2>2, CloseClientKeeps DEF Places
  <2>3. CASE EventOf(index) = "in" /\ ReadClient(index)
    <3>1. clients[index].output = 0
      BY <2>1, <2>3 DEF EventOf, Fits
    <3>2. QED
      BY <1>2, <2>3, <3>1, ReadKeeps
  <2>4. CASE EventOf(index) = "out" /\ WriteClient(index)
    <3>1. clients[index].output > 0
      BY <2>1, <2>4 DEF EventOf, Fits
    <3>2. QED
      BY <1>2, <2>4, <3>1, WriteKeeps
  <2>5. CASE UNCHANGED <<clients, peer, handled>>
    <3>1. Before(index) /\ Len(clients') >= index - 1
      BY <1>2, <2>5 DEF Before, Places
    <3>2. QED
      BY <2>5, <3>1, SameClients
  <2>6. QED
    BY <2>2, <2>3, <2>4, <2>5 DEF Serve
<1>4. Control'
  <2>1. index' \in 0 .. MaxClients + 1
    BY <1>1, <1>2, Limits DEF Control
  <2>2. QED
    BY <1>1, <2>1 DEF Control
<1>5. EventsFit'
  <2>1. polled' \in Seq(Event) /\ index' <= Len(clients') /\ pc' = "serve"
    BY <1>1, <1>2, <1>3 DEF EventsFit
  <2>2. ASSUME NEW i \in DOMAIN polled, i <= index'
        PROVE  Fits(i)'
    <3>1. i \in Nat /\ i > 0 /\ i <= index - 1
      BY <1>1, <2>2 DEF EventsFit
    <3>2. Fits(i)
      BY <1>1, <1>2, <2>2, <3>1 DEF EventsFit
    <3>3. i \in 1 .. index - 1
      BY <1>2, <3>1
    <3>4. clients'[i] = clients[i] /\ peer'[clients[i].conn].link = peer[clients[i].conn].link
      BY <1>3, <3>3 DEF Before
    <3>5. QED
      BY <1>1, <3>2, <3>4 DEF Fits
  <2>3. QED
    BY <1>1, <2>1, <2>2 DEF EventsFit
<1>6. QED
  BY <1>3, <1>4, <1>5

LEMMA EndServeInvariant == ASSUME IInv, EndServe \/ EndRound PROVE IInv'
<1> USE DEF IInv
<1>1. /\ UNCHANGED <<listener, retry, clients, stopping, ready, peer, handled>>
      /\ \/ pc' = "sweep" /\ index' = 1 /\ polled' = <<>> /\ calls' = FALSE
         \/ pc' = "top" /\ index' = 0 /\ UNCHANGED <<polled, calls>>
  BY DEF EndServe, EndRound, world
<1>2. Control'
  <2>1. index' \in 0 .. MaxClients + 1 /\ (pc' = "sweep" => index' > 0)
    BY <1>1, Limits
  <2>2. calls' \in BOOLEAN
    BY <1>1, Zenon DEF Control
  <2>3. QED
    BY <1>1, <2>1, <2>2 DEF Control
<1>3. Connected' /\ Accounted'
  BY <1>1, SameClients
<1>4. EventsFit'
  BY <1>1, EmptySeq DEF EventsFit
<1>5. QED
  BY <1>2, <1>3, <1>4

LEMMA SweepInvariant == ASSUME IInv, Sweep PROVE IInv'
<1> USE DEF IInv
<1>1. /\ pc = "sweep" /\ index <= Len(clients)
      /\ UNCHANGED <<pc, listener, retry, polled, calls, stopping, ready>>
      /\ \/ CloseClient(index) /\ UNCHANGED index
         \/ index' = index + 1 /\ UNCHANGED <<clients, peer, handled>>
  BY DEF Sweep
<1>2. index \in Places /\ Len(clients) \in Nat /\ Len(clients) <= MaxClients /\ index \in Nat
  BY <1>1 DEF Control, Connected, Places
<1>3. Connected' /\ Accounted'
  BY <1>1, <1>2, CloseClientKeeps, SameClients
<1>4. Control'
  <2>1. index' \in 0 .. MaxClients + 1 /\ index' > 0
    BY <1>1, <1>2, Limits DEF Places
  <2>2. QED
    BY <1>1, <2>1 DEF Control
<1>5. EventsFit'
  BY <1>1, NoEvents DEF EventsFit
<1>6. QED
  BY <1>3, <1>4, <1>5

LEMMA EndThreadInvariant == ASSUME IInv, EndThread PROVE IInv'
<1> USE DEF IInv
<1>1. /\ listener' = FALSE /\ clients' = <<>> /\ pc' = "ended"
      /\ peer' = [c \in Connections |-> Away]
      /\ UNCHANGED <<retry, polled, calls, index, stopping, ready, handled>>
  BY DEF EndThread
<1>2. clients' \in Seq(Client) /\ Len(clients') = 0 /\ Places' = {}
  BY <1>1, EmptySeq DEF Places
<1>3. Away \in Peer /\ Away.link = "free"
  BY DEF Away, Peer
<1>4. Control'
  <2>1. listener' \in BOOLEAN
    BY <1>1, Zenon
  <2>2. QED
    BY <1>1, <2>1 DEF Control
<1>5. Connected'
  BY <1>1, <1>2, <1>3, Limits DEF Connected
<1>6. Accounted'
  BY <1>1, <1>2, <1>3 DEF Accounted
<1>7. EventsFit'
  BY <1>1, NoEvents DEF EventsFit
<1>8. QED
  BY <1>4, <1>5, <1>6, <1>7

LEMMA StepInvariant == ASSUME IInv, [Next]_vars PROVE IInv'
<1>1. CASE UNCHANGED vars
  <2>1. UNCHANGED <<clients, peer, handled>>
    BY <1>1 DEF vars, thread, world
  <2>2. Connected' /\ Accounted'
    BY <2>1, SameClients DEF IInv
  <2>3. Control' /\ EventsFit'
    BY <1>1 DEF IInv, vars, thread, world, Control, EventsFit, Fits
  <2>4. QED
    BY <2>2, <2>3 DEF IInv
<1>2. CASE Start \/ Stop \/ Join \/ ReadyChanges
  BY <1>2, OwnerInvariant
<1>3. ASSUME NEW c \in Connections, Connect(c) \/ Send(c) \/ HangUp(c) PROVE IInv'
  BY <1>3, PeerInvariant
<1>4. CASE TimePasses
  BY <1>4, TimeInvariant
<1>5. CASE Run
  BY <1>5, BeginRoundInvariant, PollInvariant, AcceptInvariant, ServeInvariant,
     EndServeInvariant, SweepInvariant, EndThreadInvariant DEF Run
<1>6. QED
  BY <1>1, <1>2, <1>3, <1>4, <1>5 DEF Next

-----------------------------------------------------------------------------
(* The theorems. *)

\* The events of a round stay those of the clients they are taken for, though
\* they are kept by position while clients are accepted and closed (poll() to
\* the end of run()'s loop), and a request is counted with its reply.
THEOREM Invariant == Spec => []IInv
<1>1. Init => IInv
  BY InitInvariant
<1>2. IInv /\ [Next]_vars => IInv'
  BY StepInvariant
<1>3. QED
  BY <1>1, <1>2, PTL DEF Spec

\* The types of the server's state; no more clients than maxClients, each with
\* a connection of its own, and no connection without its client.
THEOREM TypeCorrect == Spec => []TypeOK
<1>1. IInv => TypeOK
  <2> SUFFICES ASSUME IInv PROVE TypeOK
    OBVIOUS
  <2> USE DEF IInv
  <2>1. DOMAIN clients = Places
    BY DEF Connected, Places
  <2>2. \A c \in Connections : Serves(c) <=> peer[c].link \in {"open", "gone"}
    BY <2>1 DEF Serves, Connected
  <2>3. QED
    BY <2>1, <2>2 DEF TypeOK, Control, Connected, EventsFit
<1>2. QED
  BY <1>1, Invariant, PTL

\* readClient() and handleRequest(): a connection's request is handled at most
\* once, whatever its peer sends and however the rounds interleave with it.
THEOREM RequestsHandledOnce == Spec => []HandledOnce
<1>1. IInv => HandledOnce
  BY DEF IInv, Accounted, HandledOnce
<1>2. QED
  BY <1>1, Invariant, PTL

-----------------------------------------------------------------------------
(* Why a client leaves. *)

Stays(i) == \E j \in DOMAIN clients' : clients'[j].conn = clients[i].conn

HasReason(i) ==
  \/ peer[clients[i].conn].link # "open"
  \/ clients[i].output = 1
  \/ Silent(clients[i])
  \/ stopping

LEMMA OthersStay ==
  ASSUME Connected, NEW i \in Places, CloseClient(i), NEW j \in Places, j # i
  PROVE  Stays(j)
<1> DEFINE k == IF j < i THEN j ELSE j - 1
<1>1. /\ clients' \in Seq(Client) /\ Len(clients') = Len(clients) - 1 /\ Len(clients) \in Nat
      /\ \A n \in 1 .. Len(clients) - 1 : clients'[n] = IF n < i THEN clients[n] ELSE clients[n + 1]
  <2>1. Len(clients) \in Nat
    BY DEF Connected
  <2>2. QED
    BY <2>1, ClosedClients
<1>2. i \in Nat /\ j \in Nat /\ i >= 1 /\ j >= 1 /\ i <= Len(clients) /\ j <= Len(clients)
  BY <1>1 DEF Places
<1>3. k \in 1 .. Len(clients) - 1 /\ clients'[k] = clients[j]
  <2>1. CASE j < i
    BY <1>1, <1>2, <2>1
  <2>2. CASE j > i
    <3>1. k = j - 1 /\ k \in 1 .. Len(clients) - 1 /\ ~(k < i) /\ k + 1 = j
      BY <1>1, <1>2, <2>2
    <3>2. QED
      BY <1>1, <3>1
  <2>3. QED
    BY <1>2, <2>1, <2>2
<1>4. k \in DOMAIN clients'
  BY <1>1, <1>3
<1>5. QED
  BY <1>3, <1>4 DEF Stays

LEMMA ReplacedStay ==
  ASSUME Connected, NEW i \in Places, NEW client, client.conn = clients[i].conn,
         clients' = [clients EXCEPT ![i] = client], NEW j \in Places
  PROVE  Stays(j)
<1>1. DOMAIN clients = Places
  BY DEF Connected, Places
<1>2. j \in DOMAIN clients' /\ clients'[j].conn = clients[j].conn
  BY <1>1
<1>3. QED
  BY <1>2 DEF Stays

LEMMA ServeReasons ==
  ASSUME IInv, Serve, NEW j \in Places
  PROVE  Stays(j) \/ HasReason(j)
<1> USE DEF IInv
<1>1. index \in Places /\ index \in Nat /\ Len(clients) \in Nat /\ DOMAIN clients = Places
  BY DEF Serve, Control, EventsFit, Connected, Places
<1>2. index \in DOMAIN polled => Fits(index)
  BY <1>1 DEF Serve, EventsFit
<1>3. /\ clients[index] \in Client /\ clients[index].output \in Nat
  BY <1>1, ClientFields
<1>4. ASSUME CloseClient(index), HasReason(index)
      PROVE  Stays(j) \/ HasReason(j)
  BY <1>1, <1>4, OthersStay
<1>5. ASSUME UNCHANGED clients
      PROVE  Stays(j)
  BY <1>1, <1>5 DEF Stays
<1>6. CASE EventOf(index) = "error" /\ CloseClient(index)
  BY <1>2, <1>4, <1>6 DEF EventOf, Fits, HasReason
<1>7. CASE EventOf(index) = "in" /\ ReadClient(index)
  <2>1. ASSUME NEW verdict \in Verdict, Read(index, verdict)
        PROVE  Stays(j)
    <3> DEFINE tooLarge == clients[index].input >= MaxInput
               input == IF tooLarge THEN clients[index].input ELSE clients[index].input + 1
               output == IF tooLarge \/ verdict # "incomplete" THEN ReplyParts
                         ELSE clients[index].output
               client == [clients[index] EXCEPT !.input = input, !.idle = 0, !.output = output]
    <3>1. clients' = [clients EXCEPT ![index] = client]
      BY <2>1, Zenon DEF Read
    <3>2. client.conn = clients[index].conn
      BY <1>3 DEF Client
    <3> HIDE DEF client
    <3>3. QED
      BY <1>1, <3>1, <3>2, ReplacedStay
  <2>2. CASE peer[clients[index].conn].link = "gone" /\ CloseClient(index)
    BY <1>4, <2>2 DEF HasReason
  <2>3. CASE UNCHANGED <<clients, peer, handled>>
    BY <1>5, <2>3
  <2>4. QED
    BY <1>7, <2>1, <2>2, <2>3 DEF ReadClient
<1>8. CASE EventOf(index) = "out" /\ WriteClient(index)
  <2> DEFINE client == [clients[index] EXCEPT !.output = @ - 1, !.idle = 0]
  <2>1. clients[index].output > 0
    BY <1>2, <1>8 DEF EventOf, Fits
  <2>2. CASE peer[clients[index].conn].link # "open" /\ CloseClient(index)
    BY <1>4, <2>2 DEF HasReason
  <2>3. CASE clients[index].output <= 1 /\ CloseClient(index)
    <3>1. clients[index].output = 1
      BY <1>3, <2>1, <2>3
    <3>2. QED
      BY <1>4, <2>3, <3>1 DEF HasReason
  <2>4. CASE clients' = [clients EXCEPT ![index] = client]
    <3>1. client.conn = clients[index].conn
      BY <1>3 DEF Client
    <3> HIDE DEF client
    <3>2. QED
      BY <1>1, <2>4, <3>1, ReplacedStay
  <2>5. CASE UNCHANGED <<clients, peer, handled>>
    BY <1>5, <2>5
  <2>6. \/ peer[clients[index].conn].link # "open" /\ CloseClient(index)
        \/ clients[index].output <= 1 /\ CloseClient(index)
        \/ clients' = [clients EXCEPT ![index] = client]
        \/ UNCHANGED <<clients, peer, handled>>
    BY <1>8, Zenon DEF WriteClient
  <2>7. QED
    BY <2>2, <2>3, <2>4, <2>5, <2>6, Zenon
<1>9. CASE UNCHANGED <<clients, peer, handled>>
  BY <1>5, <1>9
<1>10. QED
  BY <1>6, <1>7, <1>8, <1>9 DEF Serve

LEMMA StepReasons ==
  ASSUME IInv, [Next]_vars, NEW j \in DOMAIN clients
  PROVE  Stays(j) \/ HasReason(j)
<1>1. j \in Places /\ DOMAIN clients = Places /\ Len(clients) \in Nat
  BY DEF IInv, Connected, Places
<1>2. ASSUME UNCHANGED clients PROVE Stays(j)
  BY <1>2 DEF Stays
<1>3. CASE Serve
  BY <1>1, <1>3, ServeReasons
<1>4. CASE Sweep
  <2>1. index \in Places
    BY <1>1, <1>4 DEF IInv, Control, Sweep, Places
  <2>2. \/ Silent(clients[index]) /\ CloseClient(index)
        \/ UNCHANGED clients
    BY <1>4 DEF Sweep
  <2>3. QED
    BY <1>1, <1>2, <2>1, <2>2, OthersStay DEF IInv, HasReason
<1>5. CASE EndThread
  BY <1>5 DEF EndThread, HasReason
<1>6. CASE Accept
  <2>1. UNCHANGED clients \/ \E c \in Connections : clients' = Accepted(c)
    BY <1>6 DEF Accept, Queued
  <2>2. ASSUME NEW c \in Connections, clients' = Accepted(c) PROVE Stays(j)
    <3>1. [conn |-> c, input |-> 0, output |-> 0, idle |-> 0] \in Client
      BY Limits DEF Client
    <3>2. clients' \in Seq(Client) /\ Len(clients') = Len(clients) + 1 /\ clients'[j] = clients[j]
      BY <1>1, <2>2, <3>1, AppendProperties DEF IInv, Connected, Accepted, Places
    <3>3. j \in DOMAIN clients'
      BY <1>1, <3>2 DEF Places
    <3>4. QED
      BY <3>2, <3>3 DEF Stays
  <2>3. QED
    BY <1>2, <2>1, <2>2
<1>7. CASE TimePasses
  <2>1. clients[j] \in Client
    BY <1>1, ClientFields DEF IInv
  <2>2. [clients[j] EXCEPT !.idle = IF @ > IdleTimeout THEN @ ELSE @ + 1].conn = clients[j].conn
    BY <2>1 DEF Client
  <2>3. j \in DOMAIN clients' /\ clients'[j].conn = clients[j].conn
    BY <1>1, <1>7, <2>2 DEF TimePasses
  <2>4. QED
    BY <2>3 DEF Stays
<1>8. CASE \/ Start \/ Stop \/ Join \/ ReadyChanges
           \/ \E c \in Connections : Connect(c) \/ Send(c) \/ HangUp(c)
           \/ BeginRound \/ Poll \/ EndServe \/ EndRound
           \/ UNCHANGED vars
  <2>1. UNCHANGED clients
    BY <1>8 DEF Start, Stop, Join, ReadyChanges, Connect, Send, HangUp, BeginRound, Poll,
                EndServe, EndRound, vars, thread
  <2>2. QED
    BY <1>2, <2>1
<1>9. QED
  BY <1>3, <1>4, <1>5, <1>6, <1>7, <1>8 DEF Next, Run

\* A connection ends for reasons of its own, never for the events of another:
\* the loop over positions in run() never takes one client for its neighbour.
THEOREM ReasonsAreOwn == Spec => NoInnocentClosed
<1>1. ASSUME IInv, [Next]_vars
      PROVE  \A i \in DOMAIN clients :
               (\A j \in DOMAIN clients' : clients'[j].conn # clients[i].conn) =>
                 \/ peer[clients[i].conn].link # "open"
                 \/ clients[i].output = 1
                 \/ Silent(clients[i])
                 \/ stopping
  BY <1>1, StepReasons DEF Stays, HasReason
<1>2. QED
  BY <1>1, Invariant, PTL DEF Spec, NoInnocentClosed
=============================================================================
