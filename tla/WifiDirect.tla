----------------------------- MODULE WifiDirect ------------------------------
(***************************************************************************)
(* WifiDirectController.java and the radios that it drives: it turns Wi-Fi *)
(* and Sony's Wi-Fi Direct on as far as they are off, starts the group,    *)
(* tells the native runtime when the network is ready, and puts back       *)
(* everything when the session ends.                                       *)
(*                                                                         *)
(* The framework is external: it switches a radio some time after it was   *)
(* asked to and announces what happened by broadcasts, which reach the     *)
(* controller in order, later, and only while its receivers are            *)
(* registered; any request may be refused.                                 *)
(*                                                                         *)
(* A session may start while the radios that stop() asked off are still    *)
(* on: start() reads and remembers them as they are then, and takes a      *)
(* radio for on that goes off in a moment.  The properties leave out these *)
(* hasty sessions, of which the code promises nothing.                     *)
(*                                                                         *)
(* Bound for TLC: no station comes or goes while MaxInbox broadcasts are   *)
(* under way.                                                              *)
(***************************************************************************)
EXTENDS Integers, Sequences, SequencesExt

CONSTANT MaxInbox

ASSUME WifiAssumption == MaxInbox \in Nat \ {0}

VARIABLES
  started,         \* started, and the native session with it
  wifiOriginal,    \* wifiOriginallyEnabled
  directOriginal,  \* directOriginallyEnabled
  groupStarted,    \* groupStarted
  ready,           \* what the native runtime knows of the network
  wifi, direct,    \* the radios
  group,           \* the group of Wi-Fi Direct
  inbox,           \* the broadcasts under way, to registered receivers
  before,          \* history: how the radios were before the session
  refused,         \* history: a request of this session was refused
  hasty            \* history: this session, or the one just ended, began while
                   \* a radio was being switched

controller == <<started, wifiOriginal, directOriginal, groupStarted, ready>>
radios     == <<wifi, direct, group>>
history    == <<before, refused, hasty>>
vars       == <<controller, radios, inbox, history>>

\* A radio is on or off, and asked to be so.
Radio == [on : BOOLEAN, wanted : BOOLEAN]

Broadcast == {"wifi on", "direct on", "group up", "group empty", "group failed",
              "connected", "disconnected"}

Settled == wifi.on = wifi.wanted /\ direct.on = direct.wanted

Init ==
  /\ started = FALSE /\ wifiOriginal = FALSE /\ directOriginal = FALSE
  /\ groupStarted = FALSE /\ ready = FALSE
  /\ \E on \in BOOLEAN : wifi = [on |-> on, wanted |-> on]
  /\ \E on \in BOOLEAN : direct = [on |-> on /\ wifi.on, wanted |-> on /\ wifi.on]
  /\ group = "none" /\ inbox = <<>>
  /\ before = [wifi |-> wifi.on, direct |-> direct.on] /\ refused = FALSE
  /\ hasty = FALSE

-----------------------------------------------------------------------------
(* Steps of the controller. *)

\* publish().
Publish(isReady) == ready' = isReady

\* fail().
Fail == Publish(FALSE) /\ refused' = TRUE

Quiet == UNCHANGED <<ready, refused>>

\* A group is on its way to the controller.
Coming == group = "starting" \/ Contains(inbox, "group up")

\* startGo(): granted, or refused, or for a group that is there already.
RequestGroup ==
  \/ group = "none" /\ group' = "starting" /\ Quiet
  \/ Publish(FALSE) /\ UNCHANGED group /\ refused' = (refused \/ ~Coming)
  \/ Coming /\ UNCHANGED group /\ Quiet

\* createGroup(), which also fails without a saved configuration.
\* Mutant: a group is taken to be on its way when Wi-Fi Direct is on.
CreateGroupMutant == UNCHANGED group /\ Quiet

CreateGroup ==
  \/ ~groupStarted /\ RequestGroup
  \/ groupStarted /\ UNCHANGED group /\ Quiet

\* enableDirect().
EnableDirect ==
  \/ direct.on /\ CreateGroup /\ UNCHANGED direct
  \/ /\ ~direct.on /\ UNCHANGED group
     /\ \/ direct' = [direct EXCEPT !.wanted = TRUE] /\ Quiet
        \/ Fail /\ UNCHANGED direct

\* The last state of Wi-Fi is sent to a new receiver.
Sticky == IF wifi.on THEN <<"wifi on">> ELSE <<>>

\* start(), which asks for Wi-Fi, or for what is next when Wi-Fi is on.  It does
\* not wait for the radios to settle.
Start ==
  /\ ~started
  /\ started' = TRUE /\ groupStarted' = FALSE
  /\ wifiOriginal' = wifi.on
  /\ directOriginal' = direct.on
  /\ before' = [wifi |-> wifi.on, direct |-> direct.on]
  /\ hasty' = ~Settled
  /\ inbox' = inbox \o Sticky
  /\ \/ /\ ready' = FALSE /\ refused' = FALSE
        /\ \/ ~wifi.on /\ wifi' = [wifi EXCEPT !.wanted = TRUE] /\ UNCHANGED <<direct, group>>
           \/ /\ wifi.on /\ ~direct.on /\ direct' = [direct EXCEPT !.wanted = TRUE]
              /\ UNCHANGED <<wifi, group>>
           \/ /\ wifi.on /\ direct.on /\ group # "up" /\ group' = "starting"
              /\ UNCHANGED <<wifi, direct>>
     \/ Fail /\ UNCHANGED radios

\* removeGroup().
Removed == IF groupStarted THEN "none" ELSE group

\* unregisterReceivers().
\* Mutant: the receivers stay.
InboxAfterStopMutant == inbox
InboxAfterStop == <<>>

\* Mutant: the radios are turned off in any case.
WantedMutant(radio, original) == [radio EXCEPT !.wanted = FALSE]

\* A radio is turned off unless it was on before.
Wanted(radio, original) == [radio EXCEPT !.wanted = @ /\ original]

Stop ==
  /\ started
  /\ started' = FALSE /\ groupStarted' = FALSE
  /\ Publish(FALSE)
  /\ group' = Removed
  /\ direct' = Wanted(direct, directOriginal)
  /\ wifi' = Wanted(wifi, wifiOriginal)
  /\ inbox' = InboxAfterStop
  /\ UNCHANGED <<wifiOriginal, directOriginal, history>>

\* onReceive() of the next broadcast.
Receive ==
  /\ started /\ inbox # <<>>
  /\ inbox' = Tail(inbox)
  /\ \/ /\ Head(inbox) = "wifi on"
        /\ EnableDirect /\ UNCHANGED <<wifi, groupStarted>>
     \/ /\ Head(inbox) = "direct on" /\ CreateGroup
        /\ UNCHANGED <<wifi, direct, groupStarted>>
     \/ /\ Head(inbox) = "group up"
        /\ groupStarted' = TRUE /\ Publish(TRUE)
        /\ UNCHANGED <<radios, refused>>
     \/ /\ Head(inbox) \in {"group empty", "group failed"}
        /\ Fail
        /\ UNCHANGED <<radios, groupStarted>>
     \/ /\ Head(inbox) = "connected" /\ Publish(TRUE)
        /\ UNCHANGED <<radios, groupStarted, refused>>
     \/ /\ Head(inbox) = "disconnected" /\ Publish(groupStarted)
        /\ UNCHANGED <<radios, groupStarted, refused>>
  /\ UNCHANGED <<started, wifiOriginal, directOriginal, before, hasty>>

-----------------------------------------------------------------------------
(* The framework. *)

Announces(broadcast) == inbox' = IF started THEN Append(inbox, broadcast) ELSE inbox

\* Wi-Fi Direct needs Wi-Fi, and a group needs Wi-Fi Direct.
WifiSwitches ==
  /\ wifi.on # wifi.wanted
  /\ wifi' = [wifi EXCEPT !.on = wifi.wanted]
  /\ IF wifi.wanted THEN Announces("wifi on") /\ UNCHANGED <<direct, group>>
     ELSE direct' = [on |-> FALSE, wanted |-> FALSE] /\ group' = "none" /\ UNCHANGED inbox
  /\ UNCHANGED <<controller, history>>

DirectSwitches ==
  /\ direct.on # direct.wanted /\ (wifi.on \/ ~direct.wanted)
  /\ direct' = [direct EXCEPT !.on = direct.wanted]
  /\ IF direct.wanted THEN Announces("direct on") /\ UNCHANGED group
     ELSE group' = "none" /\ UNCHANGED inbox
  /\ UNCHANGED <<controller, wifi, history>>

GroupComesUp ==
  /\ group = "starting"
  /\ \/ group' = "up" /\ (Announces("group up") \/ Announces("group empty"))
     \/ group' = "none" /\ Announces("group failed")
  /\ UNCHANGED <<controller, wifi, direct, history>>

Station ==
  /\ group = "up" /\ Len(inbox) < MaxInbox
  /\ Announces("connected") \/ Announces("disconnected")
  /\ UNCHANGED <<controller, radios, history>>

Next ==
  \/ Start \/ Stop \/ Receive
  \/ WifiSwitches \/ DirectSwitches \/ GroupComesUp \/ Station

Spec == Init /\ [][Next]_vars

FairSpec ==
  /\ Spec
  /\ WF_vars(Receive)
  /\ WF_vars(WifiSwitches) /\ WF_vars(DirectSwitches) /\ WF_vars(GroupComesUp)
-----------------------------------------------------------------------------
(* Properties. *)

\* Types; a network is ready in a session only.
TypeOK ==
  /\ {started, wifiOriginal, directOriginal, groupStarted, ready, refused, hasty} \subseteq BOOLEAN
  /\ {wifi, direct} \subseteq Radio
  /\ group \in {"none", "starting", "up"}
  /\ inbox \in Seq(Broadcast)
  /\ before \in [wifi : BOOLEAN, direct : BOOLEAN]
  /\ ready => started

\* Of a session that began with settled radios: the network is not said to be
\* ready unless its group is up; no broadcast of an earlier group is taken for
\* one of this session.  (In a hasty one the group may go away under it with a
\* radio that goes off late.)
ReadyMeansNetwork == ready => group = "up" \/ hasty

\* After a session the radios are, or are asked to be, as before it, however
\* far the start had got.  (A hasty one takes radios for on before it that were
\* asked off already.)
RadiosRestored ==
  ~started => hasty \/ (wifi.wanted = before.wifi /\ direct.wanted = before.direct)

\* A session whose requests are granted gets its network.  (A hasty one asks for
\* nothing that is still on, and is left without it.)
NetworkComesUp == <>[](started /\ ~refused /\ ~hasty) => <>[]ready
=============================================================================
