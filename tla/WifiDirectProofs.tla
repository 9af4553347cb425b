-------------------------- MODULE WifiDirectProofs --------------------------
(***************************************************************************)
(* Proofs about WifiDirect, for any number of broadcasts under way.        *)
(***************************************************************************)
EXTENDS WifiDirect, SequenceTheorems, TLAPS

\* Whoever has a radio on in a session that began with settled radios wants it,
\* so that none goes off.
StayOn ==
  started /\ ~hasty => (wifi.on => wifi.wanted) /\ (direct.on => direct.wanted)

\* What the broadcasts under way say of the group is still true, unless a radio
\* may go off.
NewsIsTrue ==
  ~hasty =>
    /\ \A i \in 1 .. Len(inbox) :
         inbox[i] \in {"group up", "connected", "disconnected"} => group = "up"
    /\ groupStarted => group = "up"

\* Between sessions there are no receivers and no group of the controller.
Idle == ~started => inbox = <<>> /\ ~groupStarted /\ ~ready

\* Direct is on only with Wi-Fi, now and when the session began.
DirectNeedsWifi ==
  (direct.on => wifi.on) /\ (before.direct => before.wifi)

\* What stop() needs to restore the radios.
Restorable ==
  started /\ ~hasty =>
    /\ wifiOriginal = before.wifi /\ (before.wifi => wifi.wanted)
    /\ directOriginal = before.direct /\ (before.direct => direct.wanted)

IInv ==
  /\ TypeOK
  /\ StayOn
  /\ NewsIsTrue
  /\ Idle
  /\ DirectNeedsWifi
  /\ Restorable
  /\ ReadyMeansNetwork
  /\ RadiosRestored

-----------------------------------------------------------------------------

\* The steps of the controller towards a group change none that is up, and
\* never say that it is ready unless it was said before.
LEMMA CreateGroupKeeps ==
  ASSUME TypeOK, CreateGroup
  PROVE  /\ group' \in {"none", "starting", "up"}
         /\ group = "up" => group' = "up"
         /\ ready' = ready \/ ready' = FALSE
         /\ refused' \in BOOLEAN
<1>1. CASE ~groupStarted /\ RequestGroup
  <2>1. CASE group = "none" /\ group' = "starting" /\ Quiet
    BY <2>1 DEF TypeOK, Quiet
  <2>2. CASE Publish(FALSE) /\ UNCHANGED group /\ refused' = (refused \/ ~Coming)
    BY <2>2 DEF TypeOK, Publish
  <2>3. CASE Coming /\ UNCHANGED group /\ Quiet
    BY <2>3 DEF TypeOK, Quiet
  <2>4. QED
    BY <1>1, <2>1, <2>2, <2>3 DEF RequestGroup
<1>2. CASE groupStarted /\ UNCHANGED group /\ Quiet
  BY <1>2 DEF TypeOK, Quiet
<1>3. QED
  BY <1>1, <1>2 DEF CreateGroup

LEMMA EnableDirectKeeps ==
  ASSUME TypeOK, EnableDirect
  PROVE  /\ group' \in {"none", "starting", "up"}
         /\ group = "up" => group' = "up"
         /\ ready' = ready \/ ready' = FALSE
         /\ refused' \in BOOLEAN
         /\ direct' \in Radio
         /\ direct'.on = direct.on
         /\ direct.wanted => direct'.wanted
         /\ direct.on => direct' = direct
<1>1. CASE direct.on /\ CreateGroup /\ UNCHANGED direct
  BY <1>1, CreateGroupKeeps DEF TypeOK
<1>2. CASE ~direct.on /\ UNCHANGED group /\ direct' = [direct EXCEPT !.wanted = TRUE] /\ Quiet
  BY <1>2 DEF TypeOK, Radio, Quiet
<1>3. CASE ~direct.on /\ UNCHANGED group /\ Fail /\ UNCHANGED direct
  BY <1>3 DEF TypeOK, Fail, Publish
<1>4. QED
  BY <1>1, <1>2, <1>3 DEF EnableDirect

LEMMA InitInvariant == Init => IInv
<1> SUFFICES ASSUME Init PROVE IInv
  OBVIOUS
<1>1. PICK w \in BOOLEAN, d \in BOOLEAN :
        /\ wifi = [on |-> w, wanted |-> w]
        /\ direct = [on |-> d /\ w, wanted |-> d /\ w]
  BY DEF Init
<1>2. TypeOK
  <2>1. wifi \in Radio /\ direct \in Radio
    BY <1>1 DEF Radio
  <2>2. before \in [wifi : BOOLEAN, direct : BOOLEAN]
    BY <2>1 DEF Init, Radio
  <2>3. inbox \in Seq(Broadcast)
    BY DEF Init
  <2>4. QED
    BY <2>1, <2>2, <2>3 DEF Init, TypeOK
<1>3. StayOn /\ Idle /\ Restorable /\ ReadyMeansNetwork
  BY DEF Init, StayOn, Idle, Restorable, ReadyMeansNetwork
<1>4. NewsIsTrue
  BY DEF Init, NewsIsTrue
<1>5. DirectNeedsWifi /\ RadiosRestored
  BY <1>1 DEF Init, DirectNeedsWifi, RadiosRestored
<1>6. QED
  BY <1>2, <1>3, <1>4, <1>5 DEF IInv
-----------------------------------------------------------------------------
(* The steps. *)

LEMMA StartPreserves == IInv /\ Start => IInv'
<1> SUFFICES ASSUME IInv, Start PROVE IInv'
  OBVIOUS
<1> USE DEF IInv
<1>1. /\ ~started /\ started' = TRUE /\ groupStarted' = FALSE /\ groupStarted = FALSE
      /\ ready' = FALSE /\ inbox = <<>> /\ refused' \in BOOLEAN /\ hasty' \in BOOLEAN
  BY DEF Start, Fail, Publish, Idle, TypeOK
<1>2. ~hasty' => wifi.on = wifi.wanted /\ direct.on = direct.wanted
  BY DEF Start, Settled
<1>3. /\ wifiOriginal' = wifi.on /\ before'.wifi = wifi.on
      /\ directOriginal' = direct.on /\ before'.direct = direct.on
  BY DEF Start
<1>4. /\ wifi' \in Radio /\ wifi'.on = wifi.on /\ (wifi.wanted => wifi'.wanted)
      /\ direct' \in Radio /\ direct'.on = direct.on /\ (direct.wanted => direct'.wanted)
      /\ group' \in {"none", "starting", "up"}
  BY DEF Start, radios, TypeOK, Radio
<1>5. inbox' \in Seq(Broadcast) /\ \A i \in 1 .. Len(inbox') : inbox'[i] = "wifi on"
  <2>1. /\ Sticky \in Seq(Broadcast)
        /\ \A i \in 1 .. Len(Sticky) : Sticky[i] = "wifi on"
    <3>1. Sticky = <<"wifi on">> \/ Sticky = <<>>
      BY Zenon DEF Sticky
    <3>2. <<"wifi on">> \in Seq(Broadcast) /\ <<>> \in Seq(Broadcast)
      BY DEF Broadcast
    <3>3. \A i \in 1 .. Len(<<"wifi on">>) : <<"wifi on">>[i] = "wifi on"
      <4>1. Len(<<"wifi on">>) = 1 /\ <<"wifi on">>[1] = "wifi on"
        OBVIOUS
      <4>2. 1 .. 1 = {1}
        OBVIOUS
      <4>3. QED
        BY <4>1, <4>2, Zenon
    <3>4. \A i \in 1 .. Len(<<>>) : FALSE
      OBVIOUS
    <3>5. CASE Sticky = <<"wifi on">>
      BY <3>2, <3>3, <3>5
    <3>6. CASE Sticky = <<>>
      <4>1. \A i \in 1 .. Len(Sticky) : FALSE
        BY <3>4, <3>6
      <4>2. QED
        BY <3>2, <3>6, <4>1
    <3>7. QED
      BY <3>1, <3>5, <3>6
  <2>2. inbox' = Sticky
    BY <1>1, <2>1, ConcatEmptySeq DEF Start
  <2>3. QED
    BY <2>1, <2>2
<1>6. TypeOK'
  <2>1. before' \in [wifi : BOOLEAN, direct : BOOLEAN]
    BY DEF Start, TypeOK, Radio
  <2>2. wifiOriginal' \in BOOLEAN /\ directOriginal' \in BOOLEAN
    BY <1>3 DEF TypeOK, Radio
  <2>3. QED
    BY <1>1, <1>4, <1>5, <2>1, <2>2 DEF TypeOK
<1>7. StayOn' /\ DirectNeedsWifi' /\ Restorable'
  BY <1>1, <1>2, <1>3, <1>4 DEF StayOn, DirectNeedsWifi, Restorable
<1>8. NewsIsTrue' /\ Idle' /\ ReadyMeansNetwork' /\ RadiosRestored'
  BY <1>1, <1>5 DEF NewsIsTrue, Idle, ReadyMeansNetwork, RadiosRestored
<1>9. QED
  BY <1>6, <1>7, <1>8

LEMMA StopPreserves == IInv /\ Stop => IInv'
<1> SUFFICES ASSUME IInv, Stop PROVE IInv'
  OBVIOUS
<1> USE DEF IInv
<1>1. /\ started /\ started' = FALSE /\ groupStarted' = FALSE /\ ready' = FALSE
      /\ inbox' = <<>> /\ group' \in {"none", "starting", "up"}
      /\ UNCHANGED <<wifiOriginal, directOriginal, before, refused, hasty>>
  BY DEF Stop, Publish, InboxAfterStop, Removed, TypeOK, history
<1>2. /\ wifi' \in Radio /\ wifi'.on = wifi.on
      /\ wifi'.wanted = (wifi.wanted /\ wifiOriginal)
      /\ direct' \in Radio /\ direct'.on = direct.on
      /\ direct'.wanted = (direct.wanted /\ directOriginal)
  BY DEF Stop, Wanted, TypeOK, Radio
<1>3. TypeOK'
  <2>1. inbox' \in Seq(Broadcast)
    BY <1>1
  <2>2. before' \in [wifi : BOOLEAN, direct : BOOLEAN]
    BY <1>1 DEF TypeOK
  <2>3. {started', wifiOriginal', directOriginal', groupStarted', ready', refused', hasty'} \subseteq BOOLEAN
    BY <1>1, Zenon DEF TypeOK
  <2>4. QED
    BY <1>1, <1>2, <2>1, <2>2, <2>3 DEF TypeOK
<1>4. RadiosRestored'
  BY <1>1, <1>2 DEF RadiosRestored, Restorable, TypeOK, Radio
<1>5. StayOn' /\ NewsIsTrue' /\ Idle' /\ Restorable' /\ ReadyMeansNetwork'
  <2>1. Len(inbox') = 0
    BY <1>1
  <2>2. \A i \in 1 .. Len(inbox') : FALSE
    BY <2>1
  <2>3. NewsIsTrue'
    BY <1>1, <2>2, Zenon DEF NewsIsTrue
  <2>4. QED
    BY <1>1, <2>3 DEF StayOn, Idle, Restorable, ReadyMeansNetwork
<1>6. DirectNeedsWifi'
  BY <1>1, <1>2 DEF DirectNeedsWifi
<1>7. QED
  BY <1>3, <1>4, <1>5, <1>6

\* A broadcast is received: it says what is true, or leads to a step towards
\* the group.
LEMMA ReceivePreserves == IInv /\ Receive => IInv'
<1> SUFFICES ASSUME IInv, Receive PROVE IInv'
  OBVIOUS
<1> USE DEF IInv
<1>1. /\ started /\ started' = started /\ inbox # <<>> /\ inbox' = Tail(inbox)
      /\ UNCHANGED <<wifiOriginal, directOriginal, before, hasty>>
  BY DEF Receive
<1>2. /\ inbox' \in Seq(Broadcast) /\ 1 \in 1 .. Len(inbox) /\ Head(inbox) = inbox[1]
      /\ \A i \in 1 .. Len(inbox') : i + 1 \in 1 .. Len(inbox) /\ inbox'[i] = inbox[i + 1]
  BY <1>1 DEF TypeOK
<1>3. /\ wifi' = wifi
      /\ direct' \in Radio /\ direct'.on = direct.on
      /\ (direct.wanted => direct'.wanted) /\ (direct.on => direct' = direct)
      /\ group' \in {"none", "starting", "up"} /\ (group = "up" => group' = "up")
      /\ groupStarted' \in BOOLEAN /\ (groupStarted' => groupStarted \/ group' = "up" \/ hasty)
      /\ ready' \in BOOLEAN /\ (ready' => ready \/ group' = "up" \/ hasty)
      /\ refused' \in BOOLEAN
  <2>1. CASE /\ Head(inbox) = "wifi on"
             /\ EnableDirect /\ UNCHANGED <<wifi, groupStarted>>
    <3>1. wifi' = wifi /\ groupStarted' = groupStarted
      BY <2>1
    <3>2. groupStarted \in BOOLEAN /\ ready \in BOOLEAN
      BY DEF TypeOK
    <3>3. /\ group' \in {"none", "starting", "up"} /\ (group = "up" => group' = "up")
          /\ (ready' = ready \/ ready' = FALSE) /\ refused' \in BOOLEAN
          /\ direct' \in Radio /\ direct'.on = direct.on
          /\ (direct.wanted => direct'.wanted) /\ (direct.on => direct' = direct)
      BY <2>1, EnableDirectKeeps
    <3>4. ready' \in BOOLEAN /\ groupStarted' \in BOOLEAN
      BY <3>1, <3>2, <3>3, Zenon
    <3>5. QED
      BY <3>1, <3>2, <3>3, <3>4
  <2>2. CASE /\ Head(inbox) = "direct on" /\ CreateGroup
             /\ UNCHANGED <<wifi, direct, groupStarted>>
    <3>1. wifi' = wifi /\ direct' = direct /\ groupStarted' = groupStarted
      BY <2>2
    <3>2. groupStarted \in BOOLEAN /\ ready \in BOOLEAN /\ direct \in Radio
      BY DEF TypeOK
    <3>3. /\ group' \in {"none", "starting", "up"} /\ (group = "up" => group' = "up")
          /\ (ready' = ready \/ ready' = FALSE) /\ refused' \in BOOLEAN
      BY <2>2, CreateGroupKeeps
    <3>4. ready' \in BOOLEAN /\ groupStarted' \in BOOLEAN
      BY <3>1, <3>2, <3>3, Zenon
    <3>5. QED
      BY <3>1, <3>2, <3>3, <3>4
  <2>3. CASE /\ Head(inbox) = "group up" /\ groupStarted' = TRUE /\ Publish(TRUE)
             /\ UNCHANGED <<radios, refused>>
    BY <1>2, <2>3 DEF TypeOK, Publish, radios, NewsIsTrue
  <2>4. CASE /\ Head(inbox) \in {"group empty", "group failed"} /\ Fail
             /\ UNCHANGED <<radios, groupStarted>>
    BY <2>4 DEF TypeOK, Fail, Publish, radios
  <2>5. CASE /\ Head(inbox) = "connected" /\ Publish(TRUE)
             /\ UNCHANGED <<radios, groupStarted, refused>>
    BY <1>2, <2>5 DEF TypeOK, Publish, radios, NewsIsTrue
  <2>6. CASE /\ Head(inbox) = "disconnected" /\ Publish(groupStarted)
             /\ UNCHANGED <<radios, groupStarted, refused>>
    BY <1>2, <2>6 DEF TypeOK, Publish, radios, NewsIsTrue
  <2>7. QED
    BY <2>1, <2>2, <2>3, <2>4, <2>5, <2>6 DEF Receive
<1>4. TypeOK'
  BY <1>1, <1>2, <1>3 DEF TypeOK
<1>5. StayOn' /\ DirectNeedsWifi'
  BY <1>1, <1>3 DEF StayOn, DirectNeedsWifi
<1>6. NewsIsTrue'
  BY <1>1, <1>2, <1>3 DEF NewsIsTrue
<1>7. Idle' /\ RadiosRestored'
  BY <1>1 DEF Idle, RadiosRestored
<1>8. Restorable'
  BY <1>1, <1>3 DEF Restorable
<1>9. ReadyMeansNetwork'
  BY <1>1, <1>3 DEF ReadyMeansNetwork
<1>10. QED
  BY <1>4, <1>5, <1>6, <1>7, <1>8, <1>9

\* What the framework announces is appended for a session, and says what is
\* true of the group as it is then.
LEMMA AnnouncesKeeps ==
  ASSUME TypeOK, NEW broadcast \in Broadcast, Announces(broadcast)
  PROVE  /\ inbox' \in Seq(Broadcast)
         /\ ~started => inbox' = inbox
         /\ \A i \in 1 .. Len(inbox') :
              (i \in 1 .. Len(inbox) /\ inbox'[i] = inbox[i]) \/ inbox'[i] = broadcast
  BY DEF TypeOK, Announces

LEMMA FrameworkPreserves ==
  IInv /\ (WifiSwitches \/ DirectSwitches \/ GroupComesUp \/ Station) => IInv'
<1> SUFFICES ASSUME IInv, WifiSwitches \/ DirectSwitches \/ GroupComesUp \/ Station
             PROVE  IInv'
  OBVIOUS
<1> USE DEF IInv
<1>1. /\ UNCHANGED controller /\ UNCHANGED before /\ refused' = refused /\ hasty' = hasty
  BY DEF WifiSwitches, DirectSwitches, GroupComesUp, Station, history
<1>2. /\ wifi' \in Radio /\ wifi'.wanted = wifi.wanted
      /\ direct' \in Radio
      /\ direct'.wanted = direct.wanted \/ (direct'.wanted = FALSE /\ wifi.wanted = FALSE)
  <2>1. CASE WifiSwitches
    <3>1. wifi \in Radio /\ direct \in Radio /\ wifi.wanted \in BOOLEAN
      BY DEF TypeOK, Radio
    <3>2. wifi' = [wifi EXCEPT !.on = wifi.wanted]
      BY <2>1 DEF WifiSwitches
    <3>3. direct' = direct \/ (direct' = [on |-> FALSE, wanted |-> FALSE] /\ ~wifi.wanted)
      BY <2>1 DEF WifiSwitches
    <3>4. wifi' \in Radio /\ wifi'.wanted = wifi.wanted
      BY <3>1, <3>2 DEF Radio
    <3>5. [on |-> FALSE, wanted |-> FALSE] \in Radio
      BY DEF Radio
    <3>6. ~wifi.wanted => wifi.wanted = FALSE
      BY <3>1
    <3>7. ASSUME direct' = [on |-> FALSE, wanted |-> FALSE]
          PROVE  direct'.wanted = FALSE
      BY <3>7
    <3>8. direct' \in Radio
      BY <3>1, <3>3, <3>5, Zenon
    <3>9. direct'.wanted = direct.wanted \/ (direct'.wanted = FALSE /\ wifi.wanted = FALSE)
      <4>1. CASE direct' = direct
        BY <4>1, Zenon
      <4>2. CASE direct' = [on |-> FALSE, wanted |-> FALSE] /\ ~wifi.wanted
        BY <3>6, <3>7, <4>2, Zenon
      <4>3. QED
        BY <3>3, <4>1, <4>2, Zenon
    <3>10. QED
      BY <3>4, <3>8, <3>9, Zenon
  <2>2. CASE DirectSwitches
    BY <2>2 DEF DirectSwitches, TypeOK, Radio
  <2>3. CASE GroupComesUp \/ Station
    BY <2>3 DEF GroupComesUp, Station, radios, TypeOK
  <2>4. QED
    BY <2>1, <2>2, <2>3
<1>3. (wifi'.on => wifi.on \/ wifi.wanted) /\ (direct'.on => direct.on \/ direct.wanted)
  BY DEF WifiSwitches, DirectSwitches, GroupComesUp, Station, radios, TypeOK, Radio
<1>4. (direct'.on => wifi'.on)
  BY DEF WifiSwitches, DirectSwitches, GroupComesUp, Station, radios, TypeOK, Radio,
         DirectNeedsWifi
<1>5. /\ group' \in {"none", "starting", "up"}
      /\ started /\ ~hasty /\ group = "up" => group' = "up"
  BY DEF WifiSwitches, DirectSwitches, GroupComesUp, Station, radios, TypeOK, Radio, StayOn
<1>6. /\ inbox' \in Seq(Broadcast)
      /\ ~started => inbox' = inbox
      /\ \A i \in 1 .. Len(inbox') :
           \/ i \in 1 .. Len(inbox) /\ inbox'[i] = inbox[i]
           \/ inbox'[i] \in {"group up", "connected", "disconnected"} => group' = "up"
  <2>1. CASE UNCHANGED inbox
    BY <2>1 DEF TypeOK
  <2>2. ASSUME NEW b \in Broadcast, Announces(b),
               b \in {"group up", "connected", "disconnected"} => group' = "up"
        PROVE  <1>6!:
    BY <2>2, AnnouncesKeeps
  <2>3. CASE WifiSwitches
    BY <2>1, <2>2, <2>3 DEF WifiSwitches, Broadcast
  <2>4. CASE DirectSwitches
    BY <2>1, <2>2, <2>4 DEF DirectSwitches, Broadcast
  <2>5. CASE GroupComesUp
    BY <2>2, <2>5 DEF GroupComesUp, Broadcast
  <2>6. CASE Station
    BY <2>2, <2>6 DEF Station, Broadcast, radios
  <2>7. QED
    BY <2>3, <2>4, <2>5, <2>6
<1>7. TypeOK'
  BY <1>1, <1>2, <1>5, <1>6 DEF TypeOK, controller
<1>8. StayOn'
  BY <1>1, <1>2, <1>3, <1>4 DEF StayOn, TypeOK, Radio, controller, DirectNeedsWifi
<1>9. NewsIsTrue'
  <2>1. started \/ (Len(inbox) = 0 /\ ~groupStarted)
    BY DEF Idle
  <2>2. ASSUME NEW i \in 1 .. Len(inbox'),
               inbox'[i] \in {"group up", "connected", "disconnected"}, ~hasty
        PROVE  group' = "up"
    <3>1. CASE i \in 1 .. Len(inbox) /\ inbox'[i] = inbox[i]
      <4>1. started
        BY <2>1, <3>1
      <4>2. group = "up"
        BY <2>2, <3>1 DEF NewsIsTrue
      <4>3. QED
        BY <1>5, <2>2, <4>1, <4>2
    <3>2. QED
      BY <1>6, <2>2, <3>1
  <2>3. groupStarted' /\ ~hasty => group' = "up"
    BY <1>1, <1>5, <2>1 DEF NewsIsTrue, controller
  <2>4. QED
    BY <1>1, <2>2, <2>3 DEF NewsIsTrue
<1>10. Idle'
  BY <1>1, <1>6 DEF Idle, controller
<1>11. DirectNeedsWifi'
  BY <1>1, <1>4 DEF DirectNeedsWifi
<1>12. Restorable'
  BY <1>1, <1>2 DEF Restorable, controller, DirectNeedsWifi
<1>13. ReadyMeansNetwork'
  BY <1>1, <1>5 DEF ReadyMeansNetwork, controller, Idle
<1>14. RadiosRestored'
  BY <1>1, <1>2 DEF RadiosRestored, controller, DirectNeedsWifi, TypeOK, Radio
<1>15. QED
  BY <1>7, <1>8, <1>9, <1>10, <1>11, <1>12, <1>13, <1>14

LEMMA StepInvariant == IInv /\ [Next]_vars => IInv'
<1> SUFFICES ASSUME IInv, [Next]_vars PROVE IInv'
  OBVIOUS
<1>1. CASE UNCHANGED vars
  BY <1>1 DEF IInv, vars, controller, radios, history, TypeOK, StayOn, NewsIsTrue, Idle,
              DirectNeedsWifi, Restorable, ReadyMeansNetwork, RadiosRestored
<1>2. QED
  BY <1>1, StartPreserves, StopPreserves, ReceivePreserves, FrameworkPreserves DEF Next

-----------------------------------------------------------------------------
(* The theorems. *)

\* The news under way are true and the radios can be restored, in every
\* reachable state of a session that began with settled radios.
THEOREM Invariant == Spec => []IInv
  BY InitInvariant, StepInvariant, PTL DEF Spec

\* Types; a network is ready in a session only.
THEOREM TypeCorrect == Spec => []TypeOK
<1>1. IInv => TypeOK
  BY DEF IInv
<1>2. QED
  BY <1>1, Invariant, PTL

\* However many broadcasts are under way: the controller never says that the
\* network is ready when its group is not up, if the radios had settled when the
\* session began.
THEOREM ReadyIsTrue == Spec => []ReadyMeansNetwork
<1>1. IInv => ReadyMeansNetwork
  BY DEF IInv
<1>2. QED
  BY <1>1, Invariant, PTL

\* stop() at any point of the switching leaves the radios asked to be as they
\* were before the session, if they had settled when it began.
THEOREM RadiosComeBack == Spec => []RadiosRestored
<1>1. IInv => RadiosRestored
  BY DEF IInv
<1>2. QED
  BY <1>1, Invariant, PTL
=============================================================================
