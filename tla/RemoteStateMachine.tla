-------------------------- MODULE RemoteStateMachine --------------------------
(***************************************************************************)
(* The class RemoteStateMachine (remote_state_machine.cpp): the shutter    *)
(* logic of the remote.  An object of the class is a record; a method is   *)
(* an operator from the record before the call to the record after it, so  *)
(* that a method that calls others (requestCapture calls tick, which calls *)
(* beginCapture, which calls send) is the composition of their operators.  *)
(* The module has no variables: RemoteControl runs the methods.            *)
(*                                                                         *)
(* Abstractions.  Time is counted in abstract units.  A method that reads  *)
(* the clock more than once reads the same instant.  The text of an error  *)
(* is the name of its cause.  Commands accepted by the sink during a call  *)
(* are collected in the field "out".  CommandSink::dispatch may refuse:    *)
(* the parameter "sink" of a method is the set of the command types that   *)
(* the sink accepts during the call (no call sends a type twice).          *)
(***************************************************************************)
EXTENDS Integers

CONSTANTS
  AutofocusLead,           \* autofocus starts this long before a delayed shot
  ImmediateAutofocusLead,  \* and this long before an undelayed one
  WebShutterHold,          \* how long a web request holds the shutter
  PhysicalShutterFailsafe, \* the longest hold of the physical key
  Cooldown,                \* from a shot to the next time the remote is armed
  MaxDelay,                \* the longest countdown accepted
  RequestIds               \* the request ids that clients choose

ASSUME ConfigAssumption ==
  /\ AutofocusLead \in Nat \ {0}
  /\ ImmediateAutofocusLead \in Nat \ {0}
  /\ WebShutterHold \in Nat \ {0}
  /\ PhysicalShutterFailsafe \in Nat \ {0}
  /\ Cooldown \in Nat \ {0}
  /\ MaxDelay \in Nat

RemoteState == {"STOPPED", "STARTING", "ARMED", "FOCUSING", "COUNTDOWN",
                "CAPTURING", "COOLDOWN", "ERROR"}

\* COMMAND_RESTART_PREVIEW is never sent by the native side and
\* COMMAND_UPDATE_SCREEN does not go through the state machine.
CommandType == {"START_AUTOFOCUS", "CANCEL_AUTOFOCUS", "CAPTURE",
                "RELEASE_SHUTTER"}

\* Ids are given from 1 on; in a schedule, 0 stands for no command.
CommandId == Nat \ {0}

Command == [id : CommandId, type : CommandType]

ErrorCause == {"", "queue full", "capture failed", "autofocus failed",
               "shutter release failed"}

\* Whose shot is the latest: last_request_id.
ShotOwner == RequestIds \cup {"", "physical"}

\* What clearSchedule() resets: the command ids, the deadlines and the flags
\* of the shot (or the focus hold) in progress.  Zero means "none".
Schedule ==
  [focusCommandId : Nat, captureCommandId : Nat, releaseCommandId : Nat,
   focusDeadline : Nat, captureDeadline : Nat, releaseDeadline : Nat,
   cooldownDeadline : Nat,
   autofocusRequested : BOOLEAN, focusSent : BOOLEAN, captureSent : BOOLEAN,
   physicalCapture : BOOLEAN, standaloneFocus : BOOLEAN]

NoSchedule ==
  [focusCommandId |-> 0, captureCommandId |-> 0, releaseCommandId |-> 0,
   focusDeadline |-> 0, captureDeadline |-> 0, releaseDeadline |-> 0,
   cooldownDeadline |-> 0,
   autofocusRequested |-> FALSE, focusSent |-> FALSE, captureSent |-> FALSE,
   physicalCapture |-> FALSE, standaloneFocus |-> FALSE]

Machine ==
  [state : RemoteState, running : BOOLEAN,
   cameraReady : BOOLEAN, wifiReady : BOOLEAN, nextCommandId : CommandId,
   sched : Schedule, lastRequestId : ShotOwner,
   lastError : ErrorCause, out : SUBSET Command]

\* The constructor.
Constructed ==
  [state |-> "STOPPED", running |-> FALSE,
   cameraReady |-> FALSE, wifiReady |-> FALSE, nextCommandId |-> 1,
   sched |-> NoSchedule, lastRequestId |-> "", lastError |-> "", out |-> {}]

-----------------------------------------------------------------------------
(* Predicates on a machine. *)

Ready(m) == m.cameraReady /\ m.wifiReady

\* A shot is due but has not been taken, or the focus is held.
Waiting(m) == m.state \in {"COUNTDOWN", "FOCUSING"}

\* The state to return to when a shot ends.
HomeState(m) == IF Ready(m) THEN "ARMED" ELSE "STARTING"

AcceptingRequests(m) == m.running /\ Ready(m) /\ m.state # "STOPPED"

-----------------------------------------------------------------------------
(* The private helpers. *)

ClearSchedule(m) == [m EXCEPT !.sched = NoSchedule]

\* Mutant: the schedule of the failed job is kept.
FailMutant(m, cause) == [m EXCEPT !.lastError = cause, !.state = "ERROR"]

Fail(m, cause) ==
  [m EXCEPT !.lastError = cause, !.sched = NoSchedule, !.state = "ERROR"]

\* send(), when the sink accepts the command.
Posted(m, type) ==
  [m EXCEPT !.nextCommandId = @ + 1,
            !.out = @ \cup {[id |-> m.nextCommandId, type |-> type]}]

\* send(), when the sink refuses it: the id is spent and the machine fails.
Refused(m) == Fail([m EXCEPT !.nextCommandId = @ + 1], "queue full")

\* send(COMMAND_CANCEL_AUTOFOCUS), which the callers issue only for a focus
\* that was started.
CancelAutofocus(m, sink) ==
  IF "CANCEL_AUTOFOCUS" \in sink THEN Posted(m, "CANCEL_AUTOFOCUS")
                                 ELSE Refused(m)

CancelSentFocus(m, sink) ==
  IF m.sched.focusSent THEN CancelAutofocus(m, sink) ELSE m

StartAutofocus(m, sink) ==
  IF "START_AUTOFOCUS" \in sink
  THEN [Posted(m, "START_AUTOFOCUS") EXCEPT
          !.sched = [@ EXCEPT !.focusSent = TRUE,
                              !.focusCommandId = m.nextCommandId],
          !.state = "FOCUSING"]
  ELSE Refused(m)

BeginCapture(m, physical, now, sink) ==
  IF "CAPTURE" \in sink
  THEN [Posted(m, "CAPTURE") EXCEPT
          !.sched = [@ EXCEPT
             !.physicalCapture = physical,
             !.captureSent = TRUE,
             !.standaloneFocus = FALSE,
             !.captureCommandId = m.nextCommandId,
             !.releaseDeadline =
                now + IF physical THEN PhysicalShutterFailsafe
                                  ELSE WebShutterHold,
             !.cooldownDeadline = now + Cooldown],
          !.state = "CAPTURING"]
  ELSE Refused(m)

-----------------------------------------------------------------------------
(* tick(): four guarded stages in a row.  A refused send returns early in  *)
(* the code; here the machine is then in ERROR, where no later stage is    *)
(* enabled.                                                                *)

TickFocus(m, now, sink) ==
  IF /\ Waiting(m)
     /\ m.sched.autofocusRequested
     /\ ~m.sched.focusSent
     /\ now >= m.sched.focusDeadline
  THEN StartAutofocus(m, sink)
  ELSE m

\* Mutants: the capture waits for the focus deadline; the capture waits for an
\* autofocus that nobody requested.
TickCaptureEarlyMutant(m, now, sink) ==
  IF Waiting(m) /\ ~m.sched.captureSent /\ now >= m.sched.focusDeadline
  THEN BeginCapture(m, FALSE, now, sink) ELSE m

TickCaptureFocusedMutant(m, now, sink) ==
  IF /\ Waiting(m) /\ ~m.sched.captureSent
     /\ now >= m.sched.captureDeadline /\ m.sched.focusSent
  THEN BeginCapture(m, FALSE, now, sink) ELSE m

TickCapture(m, now, sink) ==
  IF /\ Waiting(m)
     /\ ~m.sched.captureSent
     /\ now >= m.sched.captureDeadline
  THEN BeginCapture(m, FALSE, now, sink)
  ELSE m

\* Mutants: only the key releases a shot of the key; its failsafe does not wait.
ReleaseDueMutant(m, now) ==
  /\ m.state = "CAPTURING" /\ ~m.sched.physicalCapture
  /\ m.sched.releaseDeadline > 0 /\ now >= m.sched.releaseDeadline

ReleaseDueEarlyMutant(m, now) ==
  /\ m.state = "CAPTURING" /\ m.sched.releaseDeadline > 0
  /\ m.sched.physicalCapture \/ now >= m.sched.releaseDeadline

ReleaseDue(m, now) ==
  /\ m.state = "CAPTURING"
  /\ m.sched.captureSent
  /\ m.sched.releaseDeadline > 0
  /\ now >= m.sched.releaseDeadline

ReleaseShutter(m, sink) ==
  IF "RELEASE_SHUTTER" \in sink
  THEN [Posted(m, "RELEASE_SHUTTER") EXCEPT
          !.sched = [@ EXCEPT !.releaseDeadline = 0,
                              !.releaseCommandId = m.nextCommandId],
          !.state = "COOLDOWN"]
  ELSE Refused(m)

TickRelease(m, now, sink) ==
  IF ReleaseDue(m, now) THEN ReleaseShutter(m, sink) ELSE m

\* Mutant: the remote is armed again with the ids of the old shot.
TickCooldownMutant(m, now) ==
  IF m.state = "COOLDOWN" /\ now >= m.sched.cooldownDeadline
  THEN [m EXCEPT !.state = HomeState(m)] ELSE m

TickCooldown(m, now) ==
  IF m.state = "COOLDOWN" /\ now >= m.sched.cooldownDeadline
  THEN [ClearSchedule(m) EXCEPT !.state = HomeState(m)]
  ELSE m

Tick(m, now, sink) ==
  IF m.running
  THEN TickCooldown(
         TickRelease(
           TickCapture(
             TickFocus(m, now, sink), now, sink), now, sink), now)
  ELSE m

-----------------------------------------------------------------------------
(* The public methods. *)

Start(m) ==
  IF m.running THEN m
  ELSE [ClearSchedule(m) EXCEPT !.running = TRUE, !.lastError = "",
                                !.state = HomeState(m)]

Stop(m, sink) ==
  IF ~m.running /\ m.state = "STOPPED" THEN m
  ELSE [ClearSchedule(CancelSentFocus(m, sink)) EXCEPT
          !.running = FALSE, !.state = "STOPPED"]

\* The common tail of setCameraReady() and setWifiReady(), once the flag is
\* stored in m and "ready" is its new value.
\* Mutant: a job goes on when camera or network are lost.
ReadinessChangedMutant(m, ready) ==
  CASE m.running /\ ~ready /\ m.state = "ARMED" -> [m EXCEPT !.state = "STARTING"]
    [] m.running /\ ready /\ Ready(m) /\ m.state = "STARTING" ->
         [m EXCEPT !.state = "ARMED"]
    [] OTHER -> m

ReadinessChanged(m, ready) ==
  CASE ~m.running -> m
    [] m.running /\ ~ready -> [ClearSchedule(m) EXCEPT !.state = "STARTING"]
    [] m.running /\ ready /\ Ready(m) /\ m.state = "STARTING" ->
         [m EXCEPT !.state = "ARMED"]
    [] OTHER -> m

SetCameraReady(m, ready) ==
  ReadinessChanged([m EXCEPT !.cameraReady = ready], ready)

SetWifiReady(m, ready) ==
  ReadinessChanged([m EXCEPT !.wifiReady = ready], ready)

\* requestCapture() has two early returns, then schedules the shot and ticks.
\* Mutant: a request is taken in any state of a ready remote.
CanRequestCaptureMutant(m, delay) ==
  AcceptingRequests(m) /\ delay \in 0 .. MaxDelay

CanRequestCapture(m, delay) ==
  /\ AcceptingRequests(m)
  /\ m.state = "ARMED"
  /\ delay \in 0 .. MaxDelay

CaptureTime(now, delay, autofocus) ==
  IF delay = 0 /\ autofocus THEN now + ImmediateAutofocusLead ELSE now + delay

\* Mutant: not clamped at the present.
FocusTimeMutant(now, delay, autofocus) ==
  IF autofocus THEN now + delay - AutofocusLead ELSE 0

\* Never before now; zero without autofocus.
FocusTime(now, delay, autofocus) ==
  CASE ~autofocus -> 0
    [] autofocus /\ delay > AutofocusLead -> now + delay - AutofocusLead
    [] OTHER -> now

RequestCapture(m, id, delay, autofocus, now, sink) ==
  LET scheduled ==
        [m EXCEPT
          !.sched = [NoSchedule EXCEPT
             !.autofocusRequested = autofocus,
             !.captureDeadline = CaptureTime(now, delay, autofocus),
             !.focusDeadline = FocusTime(now, delay, autofocus)],
          !.lastRequestId = id,
          !.lastError = "",
          !.state = IF delay = 0 /\ autofocus THEN "FOCUSING"
                                              ELSE "COUNTDOWN"]
  IN  Tick(scheduled, now, sink)

CanCancelCountdown(m) == Waiting(m) /\ ~m.sched.captureSent

CancelCountdown(m, sink) ==
  LET told == CancelSentFocus(m, sink)
  IN  [ClearSchedule(told) EXCEPT !.state = HomeState(told)]

CanPressFocus(m) == m.state = "ARMED"

PressFocus(m, sink) ==
  StartAutofocus([m EXCEPT !.sched.standaloneFocus = TRUE], sink)

CanReleaseFocus(m) == m.sched.standaloneFocus /\ m.state = "FOCUSING"

ReleaseFocus(m, sink) ==
  LET told == CancelAutofocus(m, sink)
  IN  [ClearSchedule(told) EXCEPT !.state = HomeState(told)]

CountdownRunning(m) ==
  m.state = "COUNTDOWN" \/ (m.state = "FOCUSING" /\ ~m.sched.standaloneFocus)

FocusHeld(m) == m.state = "FOCUSING" /\ m.sched.standaloneFocus

\* Mutant: the key is not told that the camera is busy.
CanPressShutterMutant(m) == m.running /\ m.cameraReady

CanPressShutter(m) ==
  /\ m.running
  /\ m.cameraReady
  /\ CountdownRunning(m) \/ m.state = "ARMED" \/ FocusHeld(m)

\* A running countdown is dropped first, a held focus is kept.
PressShutter(m, now, sink) ==
  LET dropped == IF CountdownRunning(m)
                 THEN ClearSchedule(CancelSentFocus(m, sink)) ELSE m
  IN  BeginCapture([dropped EXCEPT !.lastRequestId = "physical",
                                   !.lastError = ""], TRUE, now, sink)

\* Mutant: the key going up ends any shot.
LiftShutterMutant(m, now, sink) ==
  IF m.state = "CAPTURING" /\ m.sched.releaseDeadline > 0
  THEN Tick([m EXCEPT !.sched.releaseDeadline = now], now, sink) ELSE m

\* The key going up ends the hold of a physical shot at once.
LiftShutter(m, now, sink) ==
  IF /\ m.state = "CAPTURING"
     /\ m.sched.physicalCapture
     /\ m.sched.releaseDeadline > 0
  THEN Tick([m EXCEPT !.sched.releaseDeadline = now], now, sink)
  ELSE m

\* reportCommandResult() for a command that succeeded changes nothing.
ReportFailure(m, commandId) ==
  LET afterFocus ==
        IF /\ commandId = m.sched.focusCommandId
           /\ ~m.sched.standaloneFocus
           /\ ~m.sched.captureSent
        THEN [ClearSchedule(m) EXCEPT !.lastError = "autofocus failed",
                                      !.state = "ARMED"]
        ELSE m
  IN  IF commandId = m.sched.captureCommandId
      THEN Fail(m, "capture failed")
      ELSE IF commandId = afterFocus.sched.releaseCommandId
           THEN [afterFocus EXCEPT !.lastError = "shutter release failed"]
           ELSE afterFocus
=============================================================================
