---------------------------- MODULE RemoteControl ----------------------------
(***************************************************************************)
(* The state machine at work in a session.  NativeRuntime owns it and      *)
(* calls every method with mutex_ held, from the HTTP server thread        *)
(* (requests and ticks) and from the main thread (keys, readiness, command *)
(* results), so one action is one call, and the calls interleave freely.   *)
(*                                                                         *)
(* An accepted command is posted to the main thread's message queue, which *)
(* executes the commands in the order they were posted and reports each    *)
(* result back; in between, anything may happen to the job it was for.     *)
(*                                                                         *)
(* Bounds for TLC: jobs (requests and key presses) start up to LastAsk     *)
(* only, and while no more than MaxCommands command ids have been used;    *)
(* the clock stops at MaxNow, or at the last deadline when it is later.    *)
(***************************************************************************)
EXTENDS RemoteStateMachine

CONSTANTS Delays,      \* the delay_ms values of capture requests
          MaxNow, LastAsk, MaxCommands

ASSUME BoundsAssumption ==
  Delays \subseteq Int /\ MaxNow \in Nat /\ LastAsk \in Nat /\ MaxCommands \in Nat

VARIABLES
  m,         \* the object of class RemoteStateMachine
  now,       \* the monotonic clock
  inflight,  \* the commands posted whose result is not reported yet
  ask,       \* history: the earliest time of the requested shot, 0 if none
  shot       \* history: the latest CAPTURE command

vars == <<m, now, inflight, ask, shot>>

\* "stale": the job that the command was sent for is over.
InFlight == [id : CommandId, type : CommandType, stale : BOOLEAN]

\* "down": no RELEASE_SHUTTER was sent for the shot since.  "lifted": the
\* latest call was its key going up.  "interrupted": the remote failed, stopped or
\* lost the camera or the network since.
Shot == [at : Nat, physical : BOOLEAN, down : BOOLEAN, lifted : BOOLEAN,
         interrupted : BOOLEAN]

NoShot == [at |-> 0, physical |-> FALSE, down |-> FALSE, lifted |-> FALSE,
           interrupted |-> FALSE]

-----------------------------------------------------------------------------
(* Jobs. *)

\* A countdown, a held focus, a shot or its cooldown.
Busy(mm) == mm.state \in {"COUNTDOWN", "FOCUSING", "CAPTURING", "COOLDOWN"}

\* The call that takes mm to r ends the job of mm, or gives its place to a
\* shot of the physical key.
EndsJob(mm, r) ==
  \/ Busy(mm) /\ ~Busy(r)
  \/ CountdownRunning(mm) /\ r.sched.physicalCapture

Dispatched(r, type) == \E c \in r.out : c.type = type

Queued(mm, r) ==
  { [id |-> c.id, type |-> c.type, stale |-> c.stale \/ EndsJob(mm, r)] :
      c \in inflight }
  \cup
  { [id |-> c.id, type |-> c.type, stale |-> ~Busy(r)] : c \in r.out }

Shooting(r) ==
  LET s == IF Dispatched(r, "CAPTURE")
           THEN [at |-> now, physical |-> r.sched.physicalCapture,
                 down |-> TRUE, lifted |-> FALSE, interrupted |-> FALSE]
           ELSE shot
  IN  [s EXCEPT !.down = @ /\ ~Dispatched(r, "RELEASE_SHUTTER"),
                !.lifted = FALSE,
                !.interrupted =
                   @ \/ (s.at # 0 /\ r.state \in {"STARTING", "STOPPED", "ERROR"})]

\* A call leaves the object in the state r; due is the earliest time of the
\* shot that is requested when it returns, if one is.
Returns(r, due) ==
  /\ m' = [r EXCEPT !.out = {}]
  /\ inflight' = Queued(m, r)
  /\ ask' = IF Waiting(r) THEN due ELSE 0
  /\ UNCHANGED now

Call(r, due) == Returns(r, due) /\ shot' = Shooting(r)

-----------------------------------------------------------------------------
(* The session: nativeStart and nativeStop. *)

MayAsk == now <= LastAsk /\ m.nextCommandId <= MaxCommands

Init ==
  /\ m = Constructed
  /\ now = 1
  /\ inflight = {}
  /\ ask = 0
  /\ shot = NoShot

\* nativeStart makes a new object.  A command left from the previous session
\* ran while the activity was paused, which executes nothing.
StartSession ==
  /\ ~m.running
  /\ m' = Start(Constructed)
  /\ inflight' = {}
  /\ UNCHANGED <<now, ask, shot>>

\* NativeRuntime::stop() has cleared started_ before it stops the machine, so
\* dispatch() refuses what stop() sends; results are not reported any more,
\* and SonyCameraController.stop() releases the shutter of the camera.
StopSession ==
  /\ m.running
  /\ m' = [Stop(m, {}) EXCEPT !.out = {}]
  /\ inflight' = {}
  /\ ask' = 0
  /\ shot' = [shot EXCEPT !.down = FALSE, !.lifted = FALSE, !.interrupted = shot.at # 0]
  /\ UNCHANGED now

-----------------------------------------------------------------------------
(* The calls of a running session.  The set sink ranges over the subsets of *)
(* the types that the call may send: dispatch() may refuse any of them.     *)

CameraReadyChanges(ready) ==
  m.running /\ Call(SetCameraReady(m, ready), ask)

WifiReadyChanges(ready) ==
  m.running /\ Call(SetWifiReady(m, ready), ask)

CaptureRequest(id, delay, autofocus) ==
  /\ MayAsk
  /\ CanRequestCapture(m, delay)
  /\ \E sink \in SUBSET {"START_AUTOFOCUS", "CAPTURE"} :
       Call(RequestCapture(m, id, delay, autofocus, now, sink), now + delay)

CancelRequest ==
  /\ CanCancelCountdown(m)
  /\ \E sink \in SUBSET {"CANCEL_AUTOFOCUS"} : Call(CancelCountdown(m, sink), ask)

FocusDown ==
  /\ MayAsk
  /\ CanPressFocus(m)
  /\ \E sink \in SUBSET {"START_AUTOFOCUS"} : Call(PressFocus(m, sink), ask)

FocusUp ==
  /\ CanReleaseFocus(m)
  /\ \E sink \in SUBSET {"CANCEL_AUTOFOCUS"} : Call(ReleaseFocus(m, sink), ask)

ShutterDown ==
  /\ MayAsk
  /\ CanPressShutter(m)
  /\ \E sink \in SUBSET {"CANCEL_AUTOFOCUS", "CAPTURE"} : Call(PressShutter(m, now, sink), ask)

\* The key going up is noted for the shot that the key has taken.
ShutterUp ==
  \E sink \in SUBSET {"RELEASE_SHUTTER"} :
    LET r == LiftShutter(m, now, sink)
    IN  /\ Returns(r, ask)
        /\ shot' = [Shooting(r) EXCEPT !.lifted = shot.physical /\ shot.down]

\* onServerTick(), in every round of the server's poll loop.
ServerTick ==
  /\ m.running
  /\ \E sink \in SUBSET {"START_AUTOFOCUS", "CAPTURE", "RELEASE_SHUTTER"} : Call(Tick(m, now, sink), ask)

IsLastCapture(c) ==
  c.type = "CAPTURE" /\ \A d \in inflight : d.type = "CAPTURE" => d.id <= c.id

\* The main thread executes the oldest command and reports its result.
CommandResult(c, ok) ==
  /\ m.running
  /\ \A d \in inflight : c.id <= d.id
  /\ LET r == IF ok THEN m ELSE ReportFailure(m, c.id)
     IN  /\ m' = r
         /\ inflight' =
              { [d EXCEPT !.stale = @ \/ EndsJob(m, r)] : d \in inflight \ {c} }
         /\ ask' = IF Waiting(r) THEN ask ELSE 0
         /\ shot' = [Shooting(r) EXCEPT
                       !.down = @ /\ ~(~ok /\ IsLastCapture(c))]
  /\ UNCHANGED now

TimePasses ==
  /\ \/ now < MaxNow
     \/ now < m.sched.captureDeadline
     \/ now < m.sched.releaseDeadline
     \/ now < m.sched.cooldownDeadline
  /\ now' = now + 1
  /\ UNCHANGED <<m, inflight, ask, shot>>

Next ==
  \/ StartSession
  \/ StopSession
  \/ \E ready \in BOOLEAN : CameraReadyChanges(ready) \/ WifiReadyChanges(ready)
  \/ \E id \in RequestIds, delay \in Delays, autofocus \in BOOLEAN :
       CaptureRequest(id, delay, autofocus)
  \/ CancelRequest
  \/ FocusDown
  \/ FocusUp
  \/ ShutterDown
  \/ ShutterUp
  \/ ServerTick
  \/ \E c \in inflight, ok \in BOOLEAN : CommandResult(c, ok)
  \/ TimePasses

Spec == Init /\ [][Next]_vars

\* The server thread keeps polling, at least every 250 ms, until the session
\* stops, and time passes.  Nothing is assumed of users, clients, the camera
\* or the message queue.
FairSpec == Spec /\ WF_vars(ServerTick) /\ WF_vars(TimePasses)
-----------------------------------------------------------------------------
(* Properties. *)

\* Every variable keeps its type: in particular the object's deadlines stay
\* natural numbers and no command outlives the call that posted it in "out".
TypeOK ==
  /\ m \in Machine /\ m.out = {}
  /\ now \in Nat \ {0}
  /\ inflight \subseteq InFlight
  /\ ask \in Nat
  /\ shot \in Shot

\* A remote that is armed, holds the focus, counts down, shoots or cools down is
\* running with camera and network ready: losing either of them, in any state and
\* at any moment, is never missed.  And whatever the order in which they become
\* ready, relative to each other and to the start, the running remote does not
\* stay in STARTING.
ActiveOnlyWhenReady ==
  Busy(m) \/ m.state = "ARMED" => m.running /\ Ready(m)

NeverStuckStarting ==
  m.running /\ Ready(m) => m.state # "STARTING"

StateFollowsReadiness == ActiveOnlyWhenReady /\ NeverStuckStarting

\* What the schedule says matches the state: nothing is left of an old job
\* when the remote is idle; a shot has been sent exactly in CAPTURING and
\* COOLDOWN, its release is still due exactly in CAPTURING, and a shot with
\* autofocus never overtakes its autofocus.
IdleHasNoSchedule ==
  ~Busy(m) => m.sched = NoSchedule

ShotIsScheduled ==
  /\ m.sched.captureSent <=> m.state \in {"CAPTURING", "COOLDOWN"}
  /\ m.sched.releaseDeadline > 0 <=> m.state = "CAPTURING"
  /\ m.sched.cooldownDeadline > 0 <=> m.sched.captureSent
  /\ m.sched.physicalCapture => m.sched.captureSent

AutofocusComesFirst ==
  /\ m.state = "FOCUSING" /\ ~m.sched.autofocusRequested => m.sched.standaloneFocus
  /\ m.sched.captureSent /\ m.sched.autofocusRequested => m.sched.focusSent

ScheduleMatchesState ==
  IdleHasNoSchedule /\ ShotIsScheduled /\ AutofocusComesFirst

Sent(type) ==
  \E c \in inflight' : c.id >= m.nextCommandId /\ c.type = type /\ m.running

\* A CAPTURE that is not a key press is the one that was requested, and not
\* before its time: not after a cancel, a failure or a loss of readiness.
\* The exception is a tick while the focus is held (see EveryCaptureAsked).
CapturesAsAsked ==
  [][Sent("CAPTURE") =>
       \/ ask # 0 /\ now >= ask
       \/ \E id \in RequestIds : CaptureRequest(id, 0, FALSE)
       \/ ShutterDown
       \/ FocusHeld(m)]_vars

\* Two shots are at least Cooldown apart, unless the remote failed, stopped or
\* lost camera or network in between.
CapturesSpaced ==
  [][Sent("CAPTURE") =>
       shot.at = 0 \/ shot.interrupted \/ now >= shot.at + Cooldown]_vars

\* RELEASE_SHUTTER is sent only while the shutter of the latest shot is down, so
\* once per shot, and never for a shot that is interrupted.  It is not sent before
\* the hold is over - for a shot of the key, its failsafe - unless the shot is the
\* key's and the key goes up.
HoldOf(s) == IF s.physical THEN PhysicalShutterFailsafe ELSE WebShutterHold

ReleaseOnTime ==
  [][Sent("RELEASE_SHUTTER") =>
       /\ shot.down /\ ~shot.interrupted
       /\ now >= shot.at + HoldOf(shot) \/ (shot.physical /\ shot'.lifted)]_vars

\* The result of a command of a job that is over changes nothing: no late
\* failure cancels, fails or re-arms the job that runs now.
StaleResultsIgnored ==
  [][\A c \in inflight, ok \in BOOLEAN :
       c.stale /\ CommandResult(c, ok) => m' = m]_vars

\* A job that is to end by itself: a countdown, a shot or its cooldown.  A held
\* focus is none, since it lasts as long as its key is down; what a tick does to
\* it is said by EveryCaptureAsked.
Timed(mm) == CountdownRunning(mm) \/ mm.state \in {"CAPTURING", "COOLDOWN"}

\* Whatever the camera does or the queue refuses, no such job waits for more than
\* time and a tick: its deadlines are never further off than the longest delay,
\* hold or cooldown; the tick that finds a countdown over ends it, in a shot or in
\* an error; and the tick that finds a shot over leaves the remote without a job.
LongestOf(a, b) == IF a > b THEN a ELSE b

DeadlinesAreNear ==
  /\ CountdownRunning(m) =>
       m.sched.captureDeadline <= now + LongestOf(MaxDelay, ImmediateAutofocusLead)
  /\ m.sched.releaseDeadline <= now + LongestOf(WebShutterHold, PhysicalShutterFailsafe)
  /\ m.sched.cooldownDeadline <= now + Cooldown

Over(mm) == now >= mm.sched.releaseDeadline /\ now >= mm.sched.cooldownDeadline

TicksEndJobs ==
  /\ CountdownRunning(m) /\ now >= m.sched.captureDeadline =>
       \A sink \in SUBSET {"START_AUTOFOCUS", "CAPTURE"} : ~Waiting(Tick(m, now, sink))
  /\ m.state \in {"CAPTURING", "COOLDOWN"} /\ Over(m) =>
       \A sink \in SUBSET {"RELEASE_SHUTTER"} : ~Busy(Tick(m, now, sink))

JobsFallDue == DeadlinesAreNear /\ TicksEndJobs

\* No call, whenever it comes, puts off such a job: a countdown keeps its time and
\* never turns into a held focus, a shot keeps the end of its hold and of its
\* cooldown, and it never goes back to waiting.
JobsAreNotProlonged ==
  [][/\ CountdownRunning(m) /\ Waiting(m)' =>
          /\ CountdownRunning(m)'
          /\ m.sched.captureDeadline' = m.sched.captureDeadline
     /\ m.state \in {"CAPTURING", "COOLDOWN"} /\ Busy(m)' =>
          /\ ~Waiting(m)'
          /\ m.sched.cooldownDeadline' = m.sched.cooldownDeadline
          /\ m.sched.releaseDeadline' \in {m.sched.releaseDeadline, 0}]_vars

JobsAreOnTime == []JobsFallDue /\ JobsAreNotProlonged

\* Every countdown, shot and cooldown ends, whatever the clients, the keys and the
\* camera do: it does not run on into another job for ever.
JobsEnd == Timed(m) ~> ~Timed(m)

\* A shutter that is down is released, unless the shot is interrupted.
ShutterIsReleased == shot.down ~> ~shot.down \/ shot.interrupted

\* The session as a user sees it implements Shutter: whatever call comes in
\* whatever state, the remote moves between the phases as Shutter says.
PhaseOf(mm) ==
  CASE mm.state = "STOPPED" -> "off"
    [] mm.state = "STARTING" -> "unready"
    [] mm.state = "ARMED" -> "armed"
    [] CountdownRunning(mm) -> "pending"
    [] FocusHeld(mm) -> "held"
    [] mm.state \in {"CAPTURING", "COOLDOWN"} -> "shooting"
    [] mm.state = "ERROR" -> "error"

Abstract == INSTANCE Shutter WITH phase <- PhaseOf(m)

ImplementsShutter == Abstract!PhaseSpec

\* Claims that the code does not keep.

\* The remote takes a picture only when a client or the shutter key asks.
EveryCaptureAsked ==
  [][Sent("CAPTURE") =>
       \/ ask # 0
       \/ \E id \in RequestIds : CaptureRequest(id, 0, FALSE)
       \/ ShutterDown]_vars

\* Every capture is followed by a shutter release before the next capture.
EveryShotReleased == [][Sent("CAPTURE") => ~shot.down]_vars
=============================================================================
