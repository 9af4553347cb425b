------------------------- MODULE RemoteControlProofs -------------------------
(***************************************************************************)
(* Proofs about RemoteControl, for every configuration, set of delays and  *)
(* bound.                                                                  *)
(***************************************************************************)
EXTENDS RemoteControl, TLAPS

Time == Nat \ {0}

\* The inductive invariant, on an object.  FocusInTime and FocusIsHeld are
\* what AutofocusComesFirst needs to be inductive: the autofocus of a request
\* is due before its shot, and a held focus belongs to no request.
FocusInTime(mm) ==
  Waiting(mm) /\ mm.sched.autofocusRequested /\ ~mm.sched.focusSent =>
    mm.sched.focusDeadline <= mm.sched.captureDeadline

FocusIsHeld(mm) ==
  /\ mm.sched.standaloneFocus => mm.state = "FOCUSING" /\ ~mm.sched.autofocusRequested
  /\ mm.state = "FOCUSING" /\ ~mm.sched.autofocusRequested => mm.sched.standaloneFocus

Scheduled(mm) ==
  /\ ~Busy(mm) => mm.sched = NoSchedule
  /\ mm.sched.captureSent <=> mm.state \in {"CAPTURING", "COOLDOWN"}
  /\ mm.sched.releaseDeadline > 0 <=> mm.state = "CAPTURING"
  /\ mm.sched.cooldownDeadline > 0 <=> mm.sched.captureSent
  /\ mm.sched.physicalCapture => mm.sched.captureSent
  /\ mm.sched.captureSent /\ mm.sched.autofocusRequested => mm.sched.focusSent

Active(mm) ==
  /\ Busy(mm) \/ mm.state = "ARMED" => mm.running /\ Ready(mm)
  /\ mm.running /\ Ready(mm) => mm.state # "STARTING"

Consistent(mm) ==
  /\ mm \in Machine
  /\ Active(mm)
  /\ Scheduled(mm)
  /\ FocusInTime(mm)
  /\ FocusIsHeld(mm)

-----------------------------------------------------------------------------
(* The types of the operators. *)

\* An empty schedule is a schedule.
LEMMA NoScheduleType == NoSchedule \in Schedule
  BY DEF NoSchedule, Schedule

\* An object without a schedule, in a state outside any job, is consistent
\* when its state agrees with its readiness.
LEMMA IdleConsistent ==
  ASSUME NEW mm \in Machine, mm.sched = NoSchedule,
         ~Busy(mm), Active(mm)
  PROVE  Consistent(mm)
  BY DEF Consistent, Scheduled, FocusInTime, FocusIsHeld, Busy, Waiting, NoSchedule

\* The new object is consistent.
LEMMA ConstructedConsistent == Consistent(Constructed)
<1>1. /\ "" \in ShotOwner /\ "" \in ErrorCause /\ "STOPPED" \in RemoteState
      /\ {} \in SUBSET Command /\ 1 \in CommandId
  BY DEF ShotOwner, ErrorCause, RemoteState, CommandId
<1>2. Constructed \in Machine
  BY <1>1, NoScheduleType, Zenon DEF Constructed, Machine
<1>3. /\ Constructed.sched = NoSchedule
      /\ Constructed.state = "STOPPED" /\ ~Constructed.running
  BY DEF Constructed
<1>4. QED
  BY <1>2, <1>3, IdleConsistent DEF Busy, Active

\* The parts of an object that no command, shot or failure changes.
SameReadiness(mm, nn) ==
  /\ nn.running = mm.running
  /\ nn.cameraReady = mm.cameraReady
  /\ nn.wifiReady = mm.wifiReady

-----------------------------------------------------------------------------
(* Sending commands. *)

\* Failing leaves a consistent object, whatever the object was: its schedule
\* is empty.
LEMMA FailConsistent ==
  ASSUME NEW mm \in Machine, NEW cause \in ErrorCause
  PROVE  /\ Consistent(Fail(mm, cause))
         /\ SameReadiness(mm, Fail(mm, cause))
<1> DEFINE f == Fail(mm, cause)
<1>1. "ERROR" \in RemoteState
  BY DEF RemoteState
<1>2. f \in Machine
  BY <1>1, NoScheduleType, Zenon DEF Fail, Machine
<1>3. f.state = "ERROR" /\ f.sched = NoSchedule
  BY Zenon DEF Fail, Machine
<1>4. SameReadiness(mm, f)
  BY Zenon DEF Fail, Machine, SameReadiness
<1>5. QED
  BY <1>2, <1>3, <1>4, IdleConsistent DEF Active, Busy

\* A refused command fails the object.
LEMMA RefusedConsistent ==
  ASSUME NEW mm \in Machine
  PROVE  Consistent(Refused(mm)) /\ SameReadiness(mm, Refused(mm))
<1> DEFINE id == mm.nextCommandId + 1
           n == [mm EXCEPT !.nextCommandId = id]
<1>1. id \in CommandId
  BY DEF Machine, CommandId
<1>2. Refused(mm) = Fail(n, "queue full")
  BY DEF Refused
<1> HIDE DEF id
<1>3. n \in Machine /\ SameReadiness(mm, n)
  BY <1>1, Zenon DEF Machine, SameReadiness
<1>4. "queue full" \in ErrorCause
  BY DEF ErrorCause
<1> HIDE DEF n
<1>5. QED
  BY <1>1, <1>2, <1>3, <1>4, FailConsistent DEF SameReadiness

\* A posted command changes the counter of the ids only.
LEMMA PostedFields ==
  ASSUME NEW mm \in Machine, NEW type \in CommandType
  PROVE  LET p == Posted(mm, type)
         IN  /\ p \in Machine
             /\ p.state = mm.state /\ p.sched = mm.sched
             /\ SameReadiness(mm, p)
<1> DEFINE c == [id |-> mm.nextCommandId, type |-> type]
           o == mm.out \cup {c}
           id == mm.nextCommandId + 1
           p == Posted(mm, type)
<1>1. c \in Command
  BY DEF Machine, Command
<1>2. o \in SUBSET Command
  BY <1>1 DEF Machine
<1>3. id \in CommandId
  BY DEF Machine, CommandId
<1>4. p = [mm EXCEPT !.nextCommandId = id, !.out = o]
  BY DEF Posted
<1> HIDE DEF p, o, id, c
<1>5. p \in Machine
  BY <1>2, <1>3, <1>4, Zenon DEF Machine
<1>6. p.state = mm.state /\ p.sched = mm.sched /\ SameReadiness(mm, p)
  BY <1>4, Zenon DEF Machine, SameReadiness
<1>7. QED
  BY <1>3, <1>5, <1>6 DEF p

\* Posting a command keeps the object consistent.
LEMMA PostedConsistent ==
  ASSUME NEW mm, Consistent(mm), NEW type \in CommandType
  PROVE  Consistent(Posted(mm, type)) /\ SameReadiness(mm, Posted(mm, type))
<1> DEFINE p == Posted(mm, type)
<1>1. /\ p \in Machine
      /\ p.state = mm.state /\ p.sched = mm.sched /\ SameReadiness(mm, p)
  BY PostedFields DEF Consistent
<1> HIDE DEF p
<1>2. Consistent(p)
  BY <1>1
  DEF Consistent, Active, Scheduled, FocusInTime, FocusIsHeld, Busy, Waiting, Ready,
      SameReadiness
<1>3. QED
  BY <1>1, <1>2 DEF p

\* CANCEL_AUTOFOCUS, accepted or not, leaves a consistent object.
LEMMA CancelAutofocusConsistent ==
  ASSUME NEW mm, Consistent(mm), NEW sink
  PROVE  /\ Consistent(CancelAutofocus(mm, sink))
         /\ SameReadiness(mm, CancelAutofocus(mm, sink))
<1>1. "CANCEL_AUTOFOCUS" \in CommandType
  BY DEF CommandType
<1>2. mm \in Machine
  BY DEF Consistent
<1>3. QED
  BY <1>1, <1>2, PostedConsistent, RefusedConsistent DEF CancelAutofocus

\* The cancellation of a started autofocus, or nothing, keeps the object
\* consistent.
LEMMA CancelSentFocusConsistent ==
  ASSUME NEW mm, Consistent(mm), NEW sink
  PROVE  /\ Consistent(CancelSentFocus(mm, sink))
         /\ SameReadiness(mm, CancelSentFocus(mm, sink))
  BY CancelAutofocusConsistent DEF CancelSentFocus, SameReadiness

\* START_AUTOFOCUS for a request or for a held focus, not for both, before the
\* shot is sent.
LEMMA StartAutofocusConsistent ==
  ASSUME NEW mm \in Machine, mm.running, Ready(mm), NEW sink,
         ~mm.sched.captureSent, ~mm.sched.physicalCapture,
         mm.sched.releaseDeadline = 0, mm.sched.cooldownDeadline = 0,
         mm.sched.standaloneFocus <=> ~mm.sched.autofocusRequested
  PROVE  LET f == StartAutofocus(mm, sink)
         IN  /\ Consistent(f)
             /\ f.state = "ERROR" \/ f.sched.focusSent
<1>1. CASE "START_AUTOFOCUS" \in sink
  <2> DEFINE id == mm.nextCommandId
             p == Posted(mm, "START_AUTOFOCUS")
             s == [p.sched EXCEPT !.focusSent = TRUE, !.focusCommandId = id]
             f == StartAutofocus(mm, sink)
  <2>1. /\ p \in Machine /\ p.sched = mm.sched
        /\ SameReadiness(mm, p)
    BY PostedFields DEF CommandType
  <2>2. id \in Nat /\ p.sched \in Schedule
    BY <2>1 DEF Machine, CommandId
  <2>3. f = [p EXCEPT !.sched = s, !.state = "FOCUSING"]
    BY <1>1 DEF StartAutofocus
  <2>4. "FOCUSING" \in RemoteState
    BY DEF RemoteState
  <2> HIDE DEF f, p, id
  <2>5. s \in Schedule
    BY <2>2, Zenon DEF Schedule
  <2>6. /\ s.focusSent /\ s.captureSent = mm.sched.captureSent
        /\ s.physicalCapture = mm.sched.physicalCapture
        /\ s.releaseDeadline = mm.sched.releaseDeadline
        /\ s.cooldownDeadline = mm.sched.cooldownDeadline
        /\ s.standaloneFocus = mm.sched.standaloneFocus
        /\ s.autofocusRequested = mm.sched.autofocusRequested
    BY <2>1, <2>2, Zenon DEF Schedule
  <2> HIDE DEF s
  <2>7. f \in Machine
    BY <2>1, <2>3, <2>4, <2>5, Zenon DEF Machine
  <2>8. f.state = "FOCUSING" /\ f.sched = s
    BY <2>1, <2>3, Zenon DEF Machine
  <2>9. SameReadiness(p, f)
    BY <2>1, <2>3, Zenon DEF Machine, SameReadiness
  <2>10. Consistent(f)
    BY <2>1, <2>6, <2>7, <2>8, <2>9
    DEF Consistent, Active, Scheduled, FocusInTime, FocusIsHeld, Busy, Waiting, Ready,
        SameReadiness
  <2>11. QED
    BY <2>6, <2>8, <2>10 DEF f
<1>2. CASE "START_AUTOFOCUS" \notin sink
  <2>1. StartAutofocus(mm, sink) = Refused(mm)
    BY <1>2 DEF StartAutofocus
  <2>2. Refused(mm).state = "ERROR"
    <3> DEFINE n == [mm EXCEPT !.nextCommandId = @ + 1]
    <3>1. n \in Machine
      BY DEF Machine, CommandId
    <3>2. Refused(mm) = Fail(n, "queue full")
      BY DEF Refused
    <3> HIDE DEF n
    <3>3. QED
      BY <3>1, <3>2, Zenon DEF Fail, Machine
  <2>3. QED
    BY <2>1, <2>2, RefusedConsistent
<1>3. QED
  BY <1>1, <1>2

\* CAPTURE, for an object that is running and ready and whose autofocus, if
\* the shot has one, was started: whatever else the schedule holds.
LEMMA BeginCaptureConsistent ==
  ASSUME NEW mm \in Machine, mm.running, Ready(mm),
         mm.sched.autofocusRequested => mm.sched.focusSent,
         NEW physical \in BOOLEAN, NEW t \in Time, NEW sink
  PROVE  Consistent(BeginCapture(mm, physical, t, sink))
<1>1. CASE "CAPTURE" \in sink
  <2> DEFINE id == mm.nextCommandId
             p == Posted(mm, "CAPTURE")
             hold == t + IF physical THEN PhysicalShutterFailsafe ELSE WebShutterHold
             rest == t + Cooldown
             s == [p.sched EXCEPT
                     !.physicalCapture = physical, !.captureSent = TRUE,
                     !.standaloneFocus = FALSE, !.captureCommandId = id,
                     !.releaseDeadline = hold, !.cooldownDeadline = rest]
             f == BeginCapture(mm, physical, t, sink)
  <2>1. /\ p \in Machine /\ p.sched = mm.sched
        /\ SameReadiness(mm, p)
    BY PostedFields DEF CommandType
  <2>2. id \in Nat /\ p.sched \in Schedule
    BY <2>1 DEF Machine, CommandId
  <2>3. hold \in Nat /\ hold > 0 /\ rest \in Nat /\ rest > 0
    BY ConfigAssumption DEF Time
  <2>4. f = [p EXCEPT !.sched = s, !.state = "CAPTURING"]
    BY <1>1 DEF BeginCapture
  <2>5. "CAPTURING" \in RemoteState
    BY DEF RemoteState
  <2> HIDE DEF f, p, id, hold, rest
  <2>6. s \in Schedule
    BY <2>2, <2>3, Zenon DEF Schedule
  <2>7. /\ s.captureSent /\ ~s.standaloneFocus
        /\ s.releaseDeadline = hold /\ s.cooldownDeadline = rest
        /\ s.autofocusRequested = mm.sched.autofocusRequested
        /\ s.focusSent = mm.sched.focusSent
    BY <2>1, <2>2, Zenon DEF Schedule
  <2> HIDE DEF s
  <2>8. f \in Machine
    BY <2>1, <2>4, <2>5, <2>6, Zenon DEF Machine
  <2>9. f.state = "CAPTURING" /\ f.sched = s
    BY <2>1, <2>4, Zenon DEF Machine
  <2>10. SameReadiness(p, f)
    BY <2>1, <2>4, Zenon DEF Machine, SameReadiness
  <2>11. Consistent(f)
    BY <2>1, <2>3, <2>7, <2>8, <2>9, <2>10
    DEF Consistent, Active, Scheduled, FocusInTime, FocusIsHeld, Busy, Waiting, Ready,
        SameReadiness
  <2>12. QED
    BY <2>11 DEF f
<1>2. CASE "CAPTURE" \notin sink
  BY <1>2, RefusedConsistent DEF BeginCapture
<1>3. QED
  BY <1>1, <1>2

\* A job that ends leaves a consistent object in its home state.
LEMMA GoesHome ==
  ASSUME NEW mm \in Machine, mm.running
  PROVE  Consistent([ClearSchedule(mm) EXCEPT !.state = HomeState(mm)])
<1> DEFINE home == HomeState(mm)
           h == [ClearSchedule(mm) EXCEPT !.state = home]
<1>1. home \in RemoteState
  BY DEF HomeState, RemoteState
<1>2. home = IF Ready(mm) THEN "ARMED" ELSE "STARTING"
  BY DEF HomeState
<1> HIDE DEF home
<1>3. h \in Machine
  BY <1>1, NoScheduleType, Zenon DEF ClearSchedule, Machine
<1>4. /\ h.state = home /\ h.sched = NoSchedule
      /\ SameReadiness(mm, h)
  BY Zenon DEF ClearSchedule, Machine, SameReadiness
<1> HIDE DEF h
<1>5. Active(h) /\ ~Busy(h)
  BY <1>2, <1>4 DEF Active, Busy, Ready, SameReadiness
<1>6. Consistent(h)
  BY <1>3, <1>4, <1>5, IdleConsistent
<1>7. QED
  BY <1>6 DEF h, home

-----------------------------------------------------------------------------
(* The stages of a tick. *)

\* After the first stage, a shot whose autofocus was not started yet is not
\* due: the autofocus never comes after the shot, however late the tick is.
FocusTaken(mm, t) ==
  Waiting(mm) /\ mm.sched.autofocusRequested /\ ~mm.sched.focusSent =>
    t < mm.sched.captureDeadline

\* The first stage of tick(): the autofocus of a request.
LEMMA TickFocusConsistent ==
  ASSUME NEW mm, Consistent(mm), NEW t \in Time, NEW sink
  PROVE  /\ Consistent(TickFocus(mm, t, sink))
         /\ FocusTaken(TickFocus(mm, t, sink), t)
<1> DEFINE due == /\ Waiting(mm) /\ mm.sched.autofocusRequested
                  /\ ~mm.sched.focusSent /\ t >= mm.sched.focusDeadline
<1>1. CASE due
  <2>1. TickFocus(mm, t, sink) = StartAutofocus(mm, sink)
    BY <1>1 DEF TickFocus
  <2>2. /\ mm \in Machine /\ mm.sched \in Schedule
        /\ mm.running /\ Ready(mm)
        /\ ~mm.sched.captureSent
        /\ ~mm.sched.physicalCapture
    BY <1>1 DEF Consistent, Machine, Active, Busy, Waiting, Scheduled
  <2>3. mm.sched.releaseDeadline = 0 /\ mm.sched.cooldownDeadline = 0
    BY <1>1, <2>2 DEF Consistent, Scheduled, Waiting, Schedule
  <2>4. mm.sched.standaloneFocus <=> ~mm.sched.autofocusRequested
    BY <1>1 DEF Consistent, FocusIsHeld
  <2>5. QED
    BY <2>1, <2>2, <2>3, <2>4, StartAutofocusConsistent DEF FocusTaken, Waiting
<1>2. CASE ~due
  <2>1. TickFocus(mm, t, sink) = mm
    BY <1>2 DEF TickFocus
  <2>2. mm.sched \in Schedule
    BY DEF Consistent, Machine
  <2>3. mm.sched.focusDeadline \in Nat /\ mm.sched.captureDeadline \in Nat
    BY <2>2 DEF Schedule
  <2>4. FocusTaken(mm, t)
    BY <1>2, <2>3 DEF FocusTaken, Consistent, FocusInTime, Time
  <2>5. QED
    BY <2>1, <2>4
<1>3. QED
  BY <1>1, <1>2

\* The second stage of tick(): the shot.
LEMMA TickCaptureConsistent ==
  ASSUME NEW mm, Consistent(mm), NEW t \in Time, FocusTaken(mm, t), NEW sink
  PROVE  Consistent(TickCapture(mm, t, sink))
<1> DEFINE due == /\ Waiting(mm) /\ ~mm.sched.captureSent
                  /\ t >= mm.sched.captureDeadline
<1>1. CASE due
  <2>1. TickCapture(mm, t, sink) = BeginCapture(mm, FALSE, t, sink)
    BY <1>1 DEF TickCapture
  <2>2. mm \in Machine /\ mm.running /\ Ready(mm)
    BY <1>1 DEF Consistent, Active, Busy, Waiting
  <2>3. mm.sched.captureDeadline \in Nat
    BY <2>2 DEF Machine, Schedule
  <2>4. mm.sched.autofocusRequested => mm.sched.focusSent
    BY <1>1, <2>3 DEF FocusTaken, Time
  <2>5. QED
    BY <2>1, <2>2, <2>4, BeginCaptureConsistent
<1>2. CASE ~due
  BY <1>2 DEF TickCapture
<1>3. QED
  BY <1>1, <1>2

\* RELEASE_SHUTTER, sent or refused, in a shot.
LEMMA ReleaseShutterConsistent ==
  ASSUME NEW mm, Consistent(mm), mm.state = "CAPTURING", NEW sink
  PROVE  Consistent(ReleaseShutter(mm, sink))
<1> USE DEF Consistent
<1>1. CASE "RELEASE_SHUTTER" \in sink
  <2> DEFINE id == mm.nextCommandId
             p == Posted(mm, "RELEASE_SHUTTER")
             s == [p.sched EXCEPT !.releaseDeadline = 0, !.releaseCommandId = id]
             f == ReleaseShutter(mm, sink)
  <2>1. /\ p \in Machine /\ p.sched = mm.sched
        /\ SameReadiness(mm, p)
    BY PostedFields DEF CommandType
  <2>2. id \in Nat /\ p.sched \in Schedule
    BY <2>1 DEF Machine, CommandId
  <2>3. f = [p EXCEPT !.sched = s, !.state = "COOLDOWN"]
    BY <1>1 DEF ReleaseShutter
  <2>4. "COOLDOWN" \in RemoteState /\ 0 \in Nat
    BY DEF RemoteState
  <2> HIDE DEF f, p, id
  <2>5. s \in Schedule
    BY <2>2, <2>4, Zenon DEF Schedule
  <2>6. /\ s.releaseDeadline = 0
        /\ s.captureSent = mm.sched.captureSent
        /\ s.physicalCapture = mm.sched.physicalCapture
        /\ s.standaloneFocus = mm.sched.standaloneFocus
        /\ s.cooldownDeadline = mm.sched.cooldownDeadline
        /\ s.autofocusRequested = mm.sched.autofocusRequested
        /\ s.focusSent = mm.sched.focusSent
    BY <2>1, <2>2, Zenon DEF Schedule
  <2> HIDE DEF s
  <2>7. f \in Machine
    BY <2>1, <2>3, <2>4, <2>5, Zenon DEF Machine
  <2>8. f.state = "COOLDOWN" /\ f.sched = s
    BY <2>1, <2>3, Zenon DEF Machine
  <2>9. SameReadiness(p, f)
    BY <2>1, <2>3, Zenon DEF Machine, SameReadiness
  <2>10. Consistent(f)
    BY <2>1, <2>6, <2>7, <2>8, <2>9
    DEF Active, Scheduled, FocusInTime, FocusIsHeld, Busy, Waiting, Ready, SameReadiness
  <2>11. QED
    BY <2>10 DEF f
<1>2. CASE "RELEASE_SHUTTER" \notin sink
  BY <1>2, RefusedConsistent DEF ReleaseShutter
<1>3. QED
  BY <1>1, <1>2

\* The last stage of tick(): the end of a shot.
LEMMA TickCooldownConsistent ==
  ASSUME NEW mm, Consistent(mm), NEW t \in Time
  PROVE  Consistent(TickCooldown(mm, t))
<1>1. mm.state = "COOLDOWN" => mm.running
  BY DEF Consistent, Active, Busy
<1>2. mm \in Machine
  BY DEF Consistent
<1>3. QED
  BY <1>1, <1>2, GoesHome DEF TickCooldown

\* A tick keeps the object consistent, whichever of its stages run.
LEMMA TickConsistent ==
  ASSUME NEW mm, Consistent(mm), NEW t \in Time, NEW sink
  PROVE  Consistent(Tick(mm, t, sink))
<1> DEFINE a == TickFocus(mm, t, sink)
           b == TickCapture(a, t, sink)
           c == TickRelease(b, t, sink)
<1>1. Consistent(a) /\ FocusTaken(a, t)
  BY TickFocusConsistent
<1>2. Consistent(b)
  <2> HIDE DEF a
  <2>1. QED
    BY <1>1, TickCaptureConsistent
<1>3. Consistent(c)
  <2> HIDE DEF b
  <2>1. QED
    BY <1>2, ReleaseShutterConsistent DEF TickRelease, ReleaseDue
<1>4. Consistent(TickCooldown(c, t))
  <2> HIDE DEF c
  <2>1. QED
    BY <1>3, TickCooldownConsistent
<1>5. QED
  BY <1>4 DEF Tick

-----------------------------------------------------------------------------
(* The methods of the class. *)

\* start() on a new object, as nativeStart does.
LEMMA StartConsistent == Consistent(Start(Constructed)) /\ Start(Constructed).out = {}
<1> DEFINE c == ClearSchedule(Constructed)
           s == [c EXCEPT !.running = TRUE, !.lastError = "", !.state = "STARTING"]
<1>1. Constructed \in Machine
  BY ConstructedConsistent DEF Consistent, Constructed
<1>2. /\ ~Constructed.running /\ ~Constructed.cameraReady /\ ~Constructed.wifiReady
      /\ Constructed.out = {}
  BY DEF Constructed
<1>3. Start(Constructed) = s
  BY <1>2 DEF Start, HomeState, Ready
<1>4. "" \in ErrorCause /\ "STARTING" \in RemoteState
  BY DEF ErrorCause, RemoteState
<1> DEFINE k == Constructed
<1> HIDE DEF k
<1>5. c \in Machine /\ c.sched = NoSchedule /\ ~c.cameraReady
      /\ c.out = {}
  BY <1>1, <1>2, NoScheduleType, Zenon DEF ClearSchedule, Machine
<1> HIDE DEF c
<1>6. s \in Machine
  BY <1>4, <1>5, Zenon DEF Machine
<1>7. /\ s.state = "STARTING" /\ s.sched = NoSchedule
      /\ ~s.cameraReady /\ s.out = {}
  BY <1>5, Zenon DEF Machine
<1> HIDE DEF s
<1>8. Consistent(s)
  BY <1>6, <1>7, IdleConsistent DEF Active, Busy, Ready
<1>9. QED
  BY <1>3, <1>7, <1>8

\* stop(): whatever the sink accepts, the object is stopped and idle.
LEMMA StopConsistent ==
  ASSUME NEW mm, Consistent(mm), NEW sink
  PROVE  Consistent(Stop(mm, sink))
<1> DEFINE c == CancelSentFocus(mm, sink)
           s == [ClearSchedule(c) EXCEPT !.running = FALSE, !.state = "STOPPED"]
<1>1. Consistent(c)
  BY CancelSentFocusConsistent
<1> HIDE DEF c
<1>2. c \in Machine /\ "STOPPED" \in RemoteState
  BY <1>1 DEF Consistent, RemoteState
<1>3. s \in Machine
  BY <1>2, NoScheduleType, Zenon DEF ClearSchedule, Machine
<1>4. /\ s.state = "STOPPED" /\ s.sched = NoSchedule /\ ~s.running
  BY <1>2, Zenon DEF ClearSchedule, Machine
<1> HIDE DEF s
<1>5. Consistent(s)
  BY <1>2, <1>3, <1>4, IdleConsistent DEF Active, Busy
<1>6. QED
  BY <1>5 DEF Stop, s, c

\* The lemma is about an object nn whose flag has just been set: it is
\* consistent but for the flag.
LEMMA ReadinessChangedConsistent ==
  ASSUME NEW mm, Consistent(mm), mm.running, NEW nn \in Machine, NEW ready \in BOOLEAN,
         nn.running,
         nn.state = mm.state, nn.sched = mm.sched,
         ~ready => ~Ready(nn),
         ready /\ Ready(mm) => Ready(nn)
  PROVE  Consistent(ReadinessChanged(nn, ready))
<1> DEFINE r == ReadinessChanged(nn, ready)
<1> USE DEF Consistent
<1>1. CASE ~ready
  <2> DEFINE s == [ClearSchedule(nn) EXCEPT !.state = "STARTING"]
  <2>1. r = s
    BY <1>1 DEF ReadinessChanged
  <2>2. "STARTING" \in RemoteState
    BY DEF RemoteState
  <2>3. s \in Machine
    BY <2>2, NoScheduleType, Zenon DEF ClearSchedule, Machine
  <2>4. /\ s.state = "STARTING" /\ s.sched = NoSchedule
        /\ SameReadiness(nn, s)
    BY Zenon DEF ClearSchedule, Machine, SameReadiness
  <2> HIDE DEF s
  <2>5. Consistent(s)
    BY <1>1, <2>3, <2>4, IdleConsistent DEF Active, Busy, Ready, SameReadiness
  <2>6. QED
    BY <2>1, <2>5
<1>2. CASE ready /\ Ready(nn) /\ nn.state = "STARTING"
  <2> DEFINE s == [nn EXCEPT !.state = "ARMED"]
  <2>1. r = s
    BY <1>2 DEF ReadinessChanged
  <2>2. "ARMED" \in RemoteState
    BY DEF RemoteState
  <2>3. s \in Machine
    BY <2>2, Zenon DEF Machine
  <2>4. /\ s.state = "ARMED" /\ s.sched = nn.sched
        /\ SameReadiness(nn, s)
    BY Zenon DEF Machine, SameReadiness
  <2> HIDE DEF s
  <2>5. s.sched = NoSchedule
    BY <1>2, <2>4 DEF Scheduled, Busy
  <2>6. Consistent(s)
    BY <1>2, <2>3, <2>4, <2>5, IdleConsistent DEF Active, Busy, Ready, SameReadiness
  <2>7. QED
    BY <2>1, <2>6
<1>3. CASE ready /\ ~(Ready(nn) /\ nn.state = "STARTING")
  <2>1. r = nn
    BY <1>3 DEF ReadinessChanged
  <2>2. Active(nn)
    BY <1>3 DEF Active, Busy
  <2>3. Scheduled(nn) /\ FocusInTime(nn) /\ FocusIsHeld(nn)
    BY DEF Scheduled, FocusInTime, FocusIsHeld, Busy, Waiting
  <2>4. QED
    BY <2>1, <2>2, <2>3
<1>4. QED
  BY <1>1, <1>2, <1>3

\* setCameraReady() keeps an object consistent.
LEMMA SetCameraReadyConsistent ==
  ASSUME NEW mm, Consistent(mm), mm.running, NEW ready \in BOOLEAN
  PROVE  Consistent(SetCameraReady(mm, ready))
<1> DEFINE n == [mm EXCEPT !.cameraReady = ready]
<1>1. n \in Machine
  BY Zenon DEF Consistent, Machine
<1>2. /\ n.cameraReady = ready /\ n.wifiReady = mm.wifiReady
      /\ n.running = mm.running
      /\ n.state = mm.state /\ n.sched = mm.sched
  BY Zenon DEF Consistent, Machine
<1>3. SetCameraReady(mm, ready) = ReadinessChanged(n, ready)
  BY DEF SetCameraReady
<1> HIDE DEF n
<1>4. QED
  BY <1>1, <1>2, <1>3, ReadinessChangedConsistent DEF Ready

\* setWifiReady() keeps an object consistent.
LEMMA SetWifiReadyConsistent ==
  ASSUME NEW mm, Consistent(mm), mm.running, NEW ready \in BOOLEAN
  PROVE  Consistent(SetWifiReady(mm, ready))
<1> DEFINE n == [mm EXCEPT !.wifiReady = ready]
<1>1. n \in Machine
  BY Zenon DEF Consistent, Machine
<1>2. /\ n.wifiReady = ready /\ n.cameraReady = mm.cameraReady
      /\ n.running = mm.running
      /\ n.state = mm.state /\ n.sched = mm.sched
  BY Zenon DEF Consistent, Machine
<1>3. SetWifiReady(mm, ready) = ReadinessChanged(n, ready)
  BY DEF SetWifiReady
<1> HIDE DEF n
<1>4. QED
  BY <1>1, <1>2, <1>3, ReadinessChangedConsistent DEF Ready

\* The deadlines of a request: natural numbers, the autofocus not after the
\* shot and the shot not before its time.
LEMMA RequestTimes ==
  ASSUME NEW t \in Time, NEW delay \in 0 .. MaxDelay, NEW autofocus \in BOOLEAN
  PROVE  /\ CaptureTime(t, delay, autofocus) \in Nat
         /\ FocusTime(t, delay, autofocus) \in Nat
         /\ t + delay <= CaptureTime(t, delay, autofocus)
         /\ CaptureTime(t, delay, autofocus)
              <= t + LongestOf(MaxDelay, ImmediateAutofocusLead)
         /\ autofocus => FocusTime(t, delay, autofocus)
                           <= CaptureTime(t, delay, autofocus)
<1>1. delay \in Nat
  BY ConfigAssumption
<1>2. CASE autofocus
  BY <1>1, <1>2, ConfigAssumption DEF CaptureTime, FocusTime, Time, LongestOf
<1>3. CASE ~autofocus
  BY <1>1, <1>3, ConfigAssumption DEF CaptureTime, FocusTime, Time, LongestOf
<1>4. QED
  BY <1>2, <1>3

\* The object with an accepted capture request, before the tick that follows.
LEMMA RequestedConsistent ==
  ASSUME NEW mm, Consistent(mm), NEW id \in RequestIds, NEW delay \in Int,
         NEW autofocus \in BOOLEAN, NEW t \in Time,
         CanRequestCapture(mm, delay)
  PROVE  Consistent(
           [mm EXCEPT
              !.sched = [NoSchedule EXCEPT
                 !.autofocusRequested = autofocus,
                 !.captureDeadline = CaptureTime(t, delay, autofocus),
                 !.focusDeadline = FocusTime(t, delay, autofocus)],
              !.lastRequestId = id,
              !.lastError = "",
              !.state = IF delay = 0 /\ autofocus THEN "FOCUSING" ELSE "COUNTDOWN"])
<1> DEFINE due == CaptureTime(t, delay, autofocus)
           focus == FocusTime(t, delay, autofocus)
           next == IF delay = 0 /\ autofocus THEN "FOCUSING" ELSE "COUNTDOWN"
           s == [NoSchedule EXCEPT !.autofocusRequested = autofocus,
                                   !.captureDeadline = due, !.focusDeadline = focus]
           r == [mm EXCEPT !.sched = s, !.lastRequestId = id, !.lastError = "",
                           !.state = next]
<1>1. /\ mm \in Machine /\ mm.running /\ Ready(mm)
      /\ delay \in 0 .. MaxDelay
  BY DEF Consistent, CanRequestCapture, AcceptingRequests
<1>2. due \in Nat /\ focus \in Nat /\ (autofocus => focus <= due)
  BY <1>1, RequestTimes
<1>3. /\ next \in RemoteState /\ next \in {"FOCUSING", "COUNTDOWN"}
      /\ next = "FOCUSING" => autofocus
  BY DEF RemoteState
<1>5. id \in ShotOwner /\ "" \in ErrorCause
  BY DEF ShotOwner, ErrorCause
<1> HIDE DEF due, focus, next
<1>6. s \in Schedule
  BY <1>2, NoScheduleType, Zenon DEF Schedule
<1>7. /\ s.autofocusRequested = autofocus
      /\ s.captureDeadline = due /\ s.focusDeadline = focus
      /\ ~s.focusSent /\ ~s.captureSent /\ ~s.physicalCapture /\ ~s.standaloneFocus
      /\ s.releaseDeadline = 0 /\ s.cooldownDeadline = 0
  BY Zenon DEF NoSchedule
<1> HIDE DEF s
<1>8. r \in Machine
  BY <1>1, <1>3, <1>5, <1>6, Zenon DEF Machine
<1>9. /\ r.state = next /\ r.sched = s
      /\ SameReadiness(mm, r)
  BY <1>1, Zenon DEF Machine, SameReadiness
<1> HIDE DEF r
<1>10. Active(r) /\ FocusInTime(r) /\ FocusIsHeld(r)
  BY <1>1, <1>2, <1>3, <1>7, <1>9
  DEF Active, FocusInTime, FocusIsHeld, Busy, Waiting, Ready, SameReadiness
<1>11. Scheduled(r)
  BY <1>3, <1>7, <1>9 DEF Scheduled, Busy
<1>12. Consistent(r)
  BY <1>1, <1>8, <1>9, <1>10, <1>11 DEF Consistent
<1>13. QED
  BY <1>12 DEF r, s, due, focus, next

\* An accepted capture request, with the tick that follows it.
LEMMA RequestCaptureConsistent ==
  ASSUME NEW mm, Consistent(mm), NEW id \in RequestIds, NEW delay \in Int,
         NEW autofocus \in BOOLEAN, NEW t \in Time, NEW sink,
         CanRequestCapture(mm, delay)
  PROVE  Consistent(RequestCapture(mm, id, delay, autofocus, t, sink))
  BY RequestedConsistent, TickConsistent DEF RequestCapture

\* cancelCountdown() returns to an idle object, in ARMED or STARTING.
LEMMA CancelCountdownConsistent ==
  ASSUME NEW mm, Consistent(mm), CanCancelCountdown(mm), NEW sink
  PROVE  Consistent(CancelCountdown(mm, sink))
<1> DEFINE told == CancelSentFocus(mm, sink)
<1>1. Consistent(told) /\ told.running
  BY CancelSentFocusConsistent
  DEF Consistent, CanCancelCountdown, Active, Busy, Waiting, SameReadiness
<1> HIDE DEF told
<1>2. Consistent([ClearSchedule(told) EXCEPT !.state = HomeState(told)])
  BY <1>1, GoesHome DEF Consistent
<1>3. QED
  BY <1>2 DEF CancelCountdown, told

\* setFocus(false) on a held focus returns to an idle object.
LEMMA ReleaseFocusConsistent ==
  ASSUME NEW mm, Consistent(mm), CanReleaseFocus(mm), NEW sink
  PROVE  Consistent(ReleaseFocus(mm, sink))
<1> DEFINE told == CancelAutofocus(mm, sink)
<1>1. Consistent(told) /\ told.running
  BY CancelAutofocusConsistent DEF Consistent, CanReleaseFocus, Active, Busy, SameReadiness
<1> HIDE DEF told
<1>2. Consistent([ClearSchedule(told) EXCEPT !.state = HomeState(told)])
  BY <1>1, GoesHome DEF Consistent
<1>3. QED
  BY <1>2 DEF ReleaseFocus, told

\* setFocus(true) on an armed object holds the focus or fails.
LEMMA PressFocusConsistent ==
  ASSUME NEW mm, Consistent(mm), CanPressFocus(mm), NEW sink
  PROVE  Consistent(PressFocus(mm, sink))
<1> DEFINE s == [NoSchedule EXCEPT !.standaloneFocus = TRUE]
           n == [mm EXCEPT !.sched = s]
<1>1. /\ mm \in Machine /\ mm.running /\ Ready(mm)
      /\ mm.sched = NoSchedule
  BY DEF Consistent, CanPressFocus, Active, Scheduled, Busy
<1>2. PressFocus(mm, sink) = StartAutofocus(n, sink)
  BY <1>1 DEF PressFocus
<1>3. s \in Schedule
  BY NoScheduleType, Zenon DEF Schedule
<1>4. /\ ~s.captureSent /\ ~s.physicalCapture /\ ~s.autofocusRequested
      /\ s.standaloneFocus /\ s.releaseDeadline = 0 /\ s.cooldownDeadline = 0
  BY Zenon DEF NoSchedule
<1> HIDE DEF s
<1>5. n \in Machine
  BY <1>1, <1>3, Zenon DEF Machine
<1>6. n.sched = s /\ SameReadiness(mm, n)
  BY <1>1, Zenon DEF Machine, SameReadiness
<1>7. n.running /\ Ready(n)
  BY <1>1, <1>6 DEF SameReadiness, Ready
<1> HIDE DEF n
<1>8. QED
  BY <1>2, <1>4, <1>5, <1>6, <1>7, StartAutofocusConsistent

\* The shutter key going down, with or without a countdown to drop.
LEMMA PressShutterConsistent ==
  ASSUME NEW mm, Consistent(mm), CanPressShutter(mm), NEW t \in Time, NEW sink
  PROVE  Consistent(PressShutter(mm, t, sink))
<1> DEFINE told == CancelSentFocus(mm, sink)
           dropped == IF CountdownRunning(mm) THEN ClearSchedule(told) ELSE mm
           n == [dropped EXCEPT !.lastRequestId = "physical", !.lastError = ""]
<1>1. /\ mm \in Machine /\ mm.running /\ Ready(mm)
      /\ ~CountdownRunning(mm) => ~mm.sched.autofocusRequested
  BY DEF Consistent, CanPressShutter, CountdownRunning, FocusHeld, Active, Scheduled,
         FocusIsHeld, Busy, NoSchedule
<1>2. Consistent(told) /\ SameReadiness(mm, told)
  BY CancelSentFocusConsistent
<1> HIDE DEF told
<1>3. /\ dropped \in Machine /\ SameReadiness(mm, dropped)
      /\ dropped.sched.autofocusRequested => dropped.sched.focusSent
  <2>1. CASE CountdownRunning(mm)
    <3>1. told \in Machine
      BY <1>2 DEF Consistent
    <3>2. ClearSchedule(told) \in Machine
      BY <3>1, NoScheduleType, Zenon DEF ClearSchedule, Machine
    <3>3. /\ ClearSchedule(told).sched = NoSchedule
          /\ SameReadiness(told, ClearSchedule(told))
      BY <3>1, Zenon DEF ClearSchedule, Machine, SameReadiness
    <3>4. dropped = ClearSchedule(told)
      BY <2>1
    <3> HIDE DEF dropped
    <3>5. QED
      BY <1>2, <3>1, <3>2, <3>3, <3>4 DEF SameReadiness, NoSchedule
  <2>2. CASE ~CountdownRunning(mm)
    BY <1>1, <2>2 DEF SameReadiness
  <2>3. QED
    BY <2>1, <2>2
<1>4. PressShutter(mm, t, sink) = BeginCapture(n, TRUE, t, sink)
  BY DEF PressShutter, told
<1>5. "physical" \in ShotOwner /\ "" \in ErrorCause
  BY DEF ShotOwner, ErrorCause
<1> HIDE DEF dropped
<1>6. n \in Machine
  BY <1>3, <1>5, Zenon DEF Machine
<1>7. /\ n.sched = dropped.sched
      /\ SameReadiness(dropped, n)
  BY <1>3, Zenon DEF Machine, SameReadiness
<1> HIDE DEF n
<1>8. n.running /\ Ready(n)
  BY <1>1, <1>3, <1>7 DEF SameReadiness, Ready
<1>9. QED
  BY <1>3, <1>4, <1>6, <1>7, <1>8, BeginCaptureConsistent

\* The object whose release is due at once, before the tick that follows.
LEMMA LiftedConsistent ==
  ASSUME NEW mm, Consistent(mm), NEW t \in Time, mm.state = "CAPTURING"
  PROVE  Consistent([mm EXCEPT !.sched.releaseDeadline = t])
<1> DEFINE s == [mm.sched EXCEPT !.releaseDeadline = t]
           n == [mm EXCEPT !.sched = s]
<1>1. mm \in Machine /\ mm.sched \in Schedule /\ t \in Nat /\ t > 0
  BY DEF Consistent, Machine, Time
<1>2. s \in Schedule
  BY <1>1, Zenon DEF Schedule
<1>3. /\ s.releaseDeadline = t
      /\ s.captureSent = mm.sched.captureSent
      /\ s.physicalCapture = mm.sched.physicalCapture
      /\ s.standaloneFocus = mm.sched.standaloneFocus
      /\ s.cooldownDeadline = mm.sched.cooldownDeadline
      /\ s.autofocusRequested = mm.sched.autofocusRequested
      /\ s.focusSent = mm.sched.focusSent
  BY <1>1, Zenon DEF Schedule
<1> HIDE DEF s
<1>4. n \in Machine
  BY <1>1, <1>2, Zenon DEF Machine
<1>5. /\ n.state = mm.state /\ n.sched = s
      /\ SameReadiness(mm, n)
  BY <1>1, Zenon DEF Machine, SameReadiness
<1> HIDE DEF n
<1>6. Consistent(n)
  BY <1>1, <1>3, <1>4, <1>5
  DEF Consistent, Active, Scheduled, FocusInTime, FocusIsHeld, Busy, Waiting, Ready,
      SameReadiness
<1>7. QED
  BY <1>6 DEF n, s

\* The shutter key going up, with the tick that follows it.
LEMMA LiftShutterConsistent ==
  ASSUME NEW mm, Consistent(mm), NEW t \in Time, NEW sink
  PROVE  Consistent(LiftShutter(mm, t, sink))
  BY LiftedConsistent, TickConsistent DEF LiftShutter

\* A failure report, for any command that was sent, whenever it comes.
LEMMA ReportFailureConsistent ==
  ASSUME NEW mm, Consistent(mm), NEW id \in Nat, id > 0
  PROVE  Consistent(ReportFailure(mm, id))
<1> DEFINE focusFailed == /\ id = mm.sched.focusCommandId
                          /\ ~mm.sched.standaloneFocus
                          /\ ~mm.sched.captureSent
           armed == [ClearSchedule(mm) EXCEPT !.lastError = "autofocus failed",
                                              !.state = "ARMED"]
           a == IF focusFailed THEN armed ELSE mm
           warned == [a EXCEPT !.lastError = "shutter release failed"]
<1>1. mm \in Machine
  BY DEF Consistent
<1>2. /\ {"capture failed", "autofocus failed", "shutter release failed"} \subseteq ErrorCause
      /\ "ARMED" \in RemoteState
  BY DEF ErrorCause, RemoteState
<1>3. Consistent(a)
  <2>1. CASE focusFailed
    <3>1. Busy(mm)
      BY <2>1 DEF Consistent, Scheduled, NoSchedule
    <3>2. armed \in Machine
      BY <1>1, <1>2, NoScheduleType, Zenon DEF ClearSchedule, Machine
    <3>3. /\ armed.state = "ARMED" /\ armed.sched = NoSchedule
          /\ SameReadiness(mm, armed)
      BY <1>1, Zenon DEF ClearSchedule, Machine, SameReadiness
    <3> HIDE DEF armed
    <3>4. Active(armed) /\ ~Busy(armed)
      BY <3>1, <3>3 DEF Consistent, Active, Busy, Ready, SameReadiness
    <3>5. QED
      BY <1>1, <2>1, <3>2, <3>3, <3>4, IdleConsistent
  <2>2. CASE ~focusFailed
    BY <2>2
  <2>3. QED
    BY <2>1, <2>2
<1>4. ReportFailure(mm, id) =
        IF id = mm.sched.captureCommandId THEN Fail(mm, "capture failed")
        ELSE IF id = a.sched.releaseCommandId THEN warned ELSE a
  BY DEF ReportFailure
<1> HIDE DEF a
<1>5. Consistent(warned)
  <2>1. a \in Machine
    BY <1>3 DEF Consistent
  <2>2. warned \in Machine
    BY <1>2, <2>1, Zenon DEF Machine
  <2>3. /\ warned.state = a.state /\ warned.sched = a.sched
        /\ SameReadiness(a, warned)
    BY <2>1, Zenon DEF Machine, SameReadiness
  <2> HIDE DEF warned
  <2>4. QED
    BY <1>3, <2>2, <2>3
    DEF Consistent, Active, Scheduled, FocusInTime, FocusIsHeld, Busy, Waiting, Ready,
        SameReadiness
<1>6. Consistent(Fail(mm, "capture failed"))
  BY <1>1, <1>2, FailConsistent
<1>7. QED
  BY <1>3, <1>4, <1>5, <1>6

-----------------------------------------------------------------------------
(* The specification. *)

IInv ==
  /\ Consistent(m) /\ m.out = {}
  /\ now \in Time
  /\ inflight \subseteq InFlight
  /\ ask \in Nat
  /\ shot \in Shot

\* The bookkeeping of the commands in flight and of the latest shot keeps its
\* type.
LEMMA QueuedType ==
  ASSUME NEW mm \in Machine, NEW r \in Machine, inflight \subseteq InFlight
  PROVE  Queued(mm, r) \subseteq InFlight
<1>1. (~Busy(r)) = TRUE \/ (~Busy(r)) = FALSE
  <2>1. CASE Busy(r)
    BY <2>1
  <2>2. CASE ~Busy(r)
    BY <2>2
  <2>3. QED
    BY <2>1, <2>2
<1>2. ASSUME NEW c \in inflight
      PROVE  [id |-> c.id, type |-> c.type, stale |-> c.stale \/ EndsJob(mm, r)]
               \in InFlight
  BY <1>2, Zenon DEF InFlight
<1>3. ASSUME NEW c \in r.out
      PROVE  [id |-> c.id, type |-> c.type, stale |-> ~Busy(r)] \in InFlight
  <2>1. c \in Command
    BY <1>3 DEF Machine
  <2>2. QED
    BY <1>1, <2>1, Zenon DEF InFlight, Command
<1>4. QED
  BY <1>2, <1>3, Zenon DEF Queued

\* The history of the latest shot keeps its type.
LEMMA ShootingType ==
  ASSUME NEW r \in Machine, now \in Time, shot \in Shot
  PROVE  Shooting(r) \in Shot
<1> DEFINE new == [at |-> now, physical |-> r.sched.physicalCapture,
                   down |-> TRUE, lifted |-> FALSE, interrupted |-> FALSE]
           s == IF Dispatched(r, "CAPTURE") THEN new ELSE shot
           released == Dispatched(r, "RELEASE_SHUTTER")
           lost == s.at # 0 /\ r.state \in {"STARTING", "STOPPED", "ERROR"}
<1>1. r.sched.physicalCapture \in BOOLEAN
  BY DEF Machine, Schedule
<1>2. now \in Nat
  BY DEF Time
<1>3. new \in Shot
  BY <1>1, <1>2, Zenon DEF Shot
<1>4. s \in Shot
  BY <1>3
<1>5. Shooting(r) = [s EXCEPT !.down = @ /\ ~released, !.lifted = FALSE,
                              !.interrupted = @ \/ lost]
  BY Zenon DEF Shooting
<1> HIDE DEF s, released, lost
<1>6. QED
  BY <1>4, <1>5, Zenon DEF Shot

\* The history of the shot after a step is that of the call, but for "lifted".
Records(r) ==
  LET h == Shooting(r)
  IN  /\ shot' \in Shot
      /\ shot'.at = h.at /\ shot'.physical = h.physical
      /\ shot'.down <=> h.down
      /\ shot'.interrupted <=> h.interrupted

LEMMA CallRecords ==
  ASSUME IInv, NEW r \in Machine, shot' = Shooting(r)
  PROVE  Records(r)
<1>1. shot' \in Shot
  BY ShootingType DEF IInv
<1>2. QED
  BY <1>1, Zenon DEF Records

LEMMA LiftRecords ==
  ASSUME IInv, NEW r \in Machine, NEW up \in BOOLEAN,
         shot' = [Shooting(r) EXCEPT !.lifted = up]
  PROVE  Records(r)
<1> DEFINE h == Shooting(r)
<1>1. h \in Shot
  BY ShootingType DEF IInv
<1> HIDE DEF h
<1>2. shot' = [h EXCEPT !.lifted = up]
  BY DEF h
<1>3. /\ shot' \in Shot
      /\ shot'.at = h.at /\ shot'.physical = h.physical
      /\ shot'.down <=> h.down
      /\ shot'.interrupted <=> h.interrupted
  BY <1>1, <1>2, Zenon DEF Shot
<1>4. QED
  BY <1>3, Zenon DEF Records, h

\* The object that a call stores has an empty "out".
LEMMA OutCleared ==
  ASSUME NEW r, Consistent(r)
  PROVE  Consistent([r EXCEPT !.out = {}]) /\ [r EXCEPT !.out = {}].out = {}
<1> DEFINE o == [r EXCEPT !.out = {}]
<1>1. {} \in SUBSET Command
  OBVIOUS
<1>2. o \in Machine /\ o.out = {}
  BY <1>1, Zenon DEF Consistent, Machine
<1>3. o.state = r.state /\ o.sched = r.sched /\ SameReadiness(r, o)
  BY Zenon DEF Consistent, Machine, SameReadiness
<1> HIDE DEF o
<1>4. Consistent(o)
  BY <1>2, <1>3
  DEF Consistent, Active, Scheduled, FocusInTime, FocusIsHeld, Busy, Waiting, Ready,
      SameReadiness
<1>5. QED
  BY <1>2, <1>4 DEF o

\* Every call whose method leaves a consistent object preserves the invariant.
LEMMA ReturnPreserves ==
  ASSUME IInv, NEW r, Consistent(r), NEW due \in Nat, Returns(r, due), shot' \in Shot
  PROVE  IInv'
<1>1. Consistent(m') /\ m'.out = {}
  BY OutCleared DEF Returns
<1>2. r \in Machine /\ m \in Machine
  BY DEF IInv, Consistent
<1>3. inflight' \subseteq InFlight
  BY <1>2, QueuedType DEF Returns, IInv
<1>4. ask' \in Nat /\ now' \in Time
  BY DEF Returns, IInv
<1>5. QED
  BY <1>1, <1>3, <1>4 DEF IInv

LEMMA CallPreserves ==
  ASSUME IInv, NEW r, Consistent(r), NEW due \in Nat, Call(r, due)
  PROVE  IInv'
<1>1. shot' \in Shot
  BY ShootingType DEF Call, IInv, Consistent
<1>2. QED
  BY <1>1, ReturnPreserves DEF Call

\* The invariant holds when the application starts.
LEMMA InitInvariant == Init => IInv
<1>1. now = 1 => now \in Time
  BY DEF Time
<1>2. Constructed.out = {}
  BY DEF Constructed
<1>3. NoShot \in Shot
  BY DEF NoShot, Shot
<1>4. QED
  BY <1>1, <1>2, <1>3, ConstructedConsistent DEF Init, IInv

\* Every call of a session, the result of a command and the passing of time
\* preserve the invariant.
LEMMA StepInvariant == IInv /\ [Next]_vars => IInv'
<1> SUFFICES ASSUME IInv, [Next]_vars
             PROVE  IInv'
  OBVIOUS
<1>1. /\ Consistent(m) /\ now \in Time /\ ask \in Nat
      /\ m \in Machine /\ shot \in Shot /\ inflight \subseteq InFlight
  BY DEF IInv, Consistent
<1>2. CASE StartSession
  BY <1>1, <1>2, StartConsistent DEF StartSession, IInv
<1>3. CASE StopSession
  <2>1. Consistent(m') /\ m'.out = {}
    BY <1>1, <1>3, StopConsistent, OutCleared DEF StopSession
  <2>2. shot' \in Shot
    <3> DEFINE lost == shot.at # 0
    <3>1. shot' = [shot EXCEPT !.down = FALSE, !.lifted = FALSE, !.interrupted = lost]
      BY <1>3 DEF StopSession
    <3>2. lost \in BOOLEAN
      OBVIOUS
    <3> HIDE DEF lost
    <3>3. QED
      BY <1>1, <3>1, <3>2, Zenon DEF Shot
  <2>3. QED
    BY <1>1, <1>3, <2>1, <2>2 DEF StopSession, IInv
<1>4. ASSUME NEW ready \in BOOLEAN, CameraReadyChanges(ready)
      PROVE  IInv'
  BY <1>1, <1>4, SetCameraReadyConsistent, CallPreserves DEF CameraReadyChanges
<1>5. ASSUME NEW ready \in BOOLEAN, WifiReadyChanges(ready)
      PROVE  IInv'
  BY <1>1, <1>5, SetWifiReadyConsistent, CallPreserves DEF WifiReadyChanges
<1>6. ASSUME NEW id \in RequestIds, NEW delay \in Delays, NEW autofocus \in BOOLEAN,
             CaptureRequest(id, delay, autofocus)
      PROVE  IInv'
  <2>1. delay \in Int /\ delay \in 0 .. MaxDelay /\ CanRequestCapture(m, delay)
    BY <1>6, BoundsAssumption DEF CaptureRequest, CanRequestCapture
  <2>2. now + delay \in Nat
    BY <1>1, <2>1 DEF Time
  <2>3. PICK sink : Call(RequestCapture(m, id, delay, autofocus, now, sink), now + delay)
    BY <1>6, Zenon DEF CaptureRequest
  <2>4. Consistent(RequestCapture(m, id, delay, autofocus, now, sink))
    BY <1>1, <2>1, RequestCaptureConsistent
  <2>5. QED
    BY <2>2, <2>3, <2>4, CallPreserves
<1>7. CASE CancelRequest
  BY <1>1, <1>7, CancelCountdownConsistent, CallPreserves DEF CancelRequest
<1>8. CASE FocusDown
  BY <1>1, <1>8, PressFocusConsistent, CallPreserves DEF FocusDown
<1>9. CASE FocusUp
  BY <1>1, <1>9, ReleaseFocusConsistent, CallPreserves DEF FocusUp
<1>10. CASE ShutterDown
  BY <1>1, <1>10, PressShutterConsistent, CallPreserves DEF ShutterDown
<1>11. CASE ShutterUp
  <2>1. PICK sink : LET r == LiftShutter(m, now, sink)
                    IN  /\ Returns(r, ask)
                        /\ shot' = [Shooting(r) EXCEPT !.lifted = shot.physical /\ shot.down]
    BY <1>11, Zenon DEF ShutterUp
  <2> DEFINE r == LiftShutter(m, now, sink)
             up == shot.physical /\ shot.down
  <2>2. Consistent(r)
    BY <1>1, LiftShutterConsistent DEF IInv
  <2>3. up \in BOOLEAN
    BY <1>1 DEF Shot
  <2>4. Returns(r, ask) /\ shot' = [Shooting(r) EXCEPT !.lifted = up]
    BY <2>1, Zenon
  <2> HIDE DEF r, up
  <2>5. shot' \in Shot
    BY <2>2, <2>3, <2>4, LiftRecords, Zenon DEF Records, Consistent
  <2>6. QED
    BY <1>1, <2>2, <2>4, <2>5, ReturnPreserves
<1>12. CASE ServerTick
  BY <1>1, <1>12, TickConsistent, CallPreserves DEF ServerTick
<1>13. ASSUME NEW c \in inflight, NEW ok \in BOOLEAN, CommandResult(c, ok)
       PROVE  IInv'
  <2> DEFINE r == IF ok THEN m ELSE ReportFailure(m, c.id)
             failed == ~(~ok /\ IsLastCapture(c))
  <2>1. c.id \in Nat /\ c.id > 0
    BY <1>1 DEF InFlight, CommandId
  <2>2. Consistent(r)
    BY <1>1, <2>1, ReportFailureConsistent
  <2>3. r.out = {}
    <3>1. ReportFailure(m, c.id).out = m.out
      BY <1>1, Zenon DEF ReportFailure, Fail, ClearSchedule, Machine
    <3>2. QED
      BY <3>1 DEF IInv
  <2> HIDE DEF r
  <2>4. m' = r /\ now' = now /\ (ask' = ask \/ ask' = 0)
    BY <1>13, Zenon DEF CommandResult, r
  <2>5. inflight' \subseteq InFlight
    <3>1. ASSUME NEW d \in inflight
          PROVE  [d EXCEPT !.stale = @ \/ EndsJob(m, r)] \in InFlight
      BY <1>1, <3>1, Zenon DEF InFlight
    <3>2. inflight' = { [d EXCEPT !.stale = @ \/ EndsJob(m, r)] : d \in inflight \ {c} }
      BY <1>13, Zenon DEF CommandResult, r
    <3>3. QED
      BY <3>1, <3>2, Zenon
  <2>6. shot' \in Shot
    <3>1. Shooting(r) \in Shot
      BY <1>1, <2>2, ShootingType DEF Consistent
    <3>2. shot' = [Shooting(r) EXCEPT !.down = @ /\ failed]
      BY <1>13, Zenon DEF CommandResult, r
    <3> HIDE DEF failed
    <3>3. QED
      BY <3>1, <3>2, Zenon DEF Shot
  <2>7. QED
    BY <1>1, <2>2, <2>3, <2>4, <2>5, <2>6 DEF IInv
<1>14. CASE TimePasses
  BY <1>1, <1>14 DEF TimePasses, IInv, Time
<1>15. CASE UNCHANGED vars
  BY <1>1, <1>15 DEF vars, IInv
<1>16. QED
  BY <1>2, <1>3, <1>4, <1>5, <1>6, <1>7, <1>8, <1>9, <1>10, <1>11, <1>12, <1>13,
     <1>14, <1>15, Zenon DEF Next

\* The invariant implies the properties that the runs check.
LEMMA InvariantImplies ==
  IInv => TypeOK /\ ActiveOnlyWhenReady /\ NeverStuckStarting /\ ScheduleMatchesState
<1> SUFFICES ASSUME IInv
             PROVE  TypeOK /\ ActiveOnlyWhenReady /\ NeverStuckStarting
                    /\ ScheduleMatchesState
  OBVIOUS
<1>1. TypeOK
  BY DEF IInv, Consistent, TypeOK, Time
<1>2. ActiveOnlyWhenReady /\ NeverStuckStarting
  BY DEF IInv, Consistent, Active, ActiveOnlyWhenReady, NeverStuckStarting
<1>3. ScheduleMatchesState
  BY DEF IInv, Consistent, Scheduled, FocusIsHeld, ScheduleMatchesState,
         IdleHasNoSchedule, ShotIsScheduled, AutofocusComesFirst
<1>4. QED
  BY <1>1, <1>2, <1>3

\* The invariant holds in every reachable state.
THEOREM Invariant == Spec => []IInv
  BY InitInvariant, StepInvariant, PTL DEF Spec

\* Every variable keeps its type.
THEOREM TypeCorrect == Spec => []TypeOK
  BY Invariant, InvariantImplies, PTL

\* A remote that is armed or at work is running with camera and network ready, and
\* one that is running and ready has left STARTING.
THEOREM ReadinessDecides == Spec => []StateFollowsReadiness
  BY Invariant, InvariantImplies, PTL DEF StateFollowsReadiness

\* The schedule of the shot in progress matches the state.
THEOREM ScheduleMatches == Spec => []ScheduleMatchesState
  BY Invariant, InvariantImplies, PTL

-----------------------------------------------------------------------------
(* What a method does to the commands, the ids and the deadlines.          *)

\* A command of this type was sent in between.
Sends(mm, r, type) ==
  /\ r.out = mm.out \cup {[id |-> mm.nextCommandId, type |-> type]}
  /\ r.nextCommandId = mm.nextCommandId + 1

\* The sink has refused a command in between.
Fails(mm, r) ==
  /\ r.state = "ERROR" /\ r.sched = NoSchedule
  /\ r.out = mm.out /\ r.nextCommandId = mm.nextCommandId + 1

\* The ids of the commands that the job in progress waits for.
Ids(mm) == {mm.sched.focusCommandId, mm.sched.captureCommandId, mm.sched.releaseCommandId}

\* Commands and ids of the schedule are old, or have new numbers.
Numbers(mm, r) ==
  /\ r.nextCommandId >= mm.nextCommandId
  /\ \A c \in r.out \ mm.out : mm.nextCommandId <= c.id /\ c.id < r.nextCommandId
  /\ \A i \in Ids(r) : i \in Ids(mm) \/ i = 0 \/ i >= mm.nextCommandId

\* Without a schedule, the object waits for no command.
LEMMA NoIds == Ids(Constructed) = {0} /\ \A mm : mm.sched = NoSchedule => Ids(mm) = {0}
  BY DEF Ids, Constructed, NoSchedule

\* The next id is a positive number.
LEMMA NextId == ASSUME NEW mm \in Machine PROVE mm.nextCommandId \in Nat /\ mm.nextCommandId > 0
  BY DEF Machine, CommandId

\* send(), when the sink refuses.
LEMMA RefusedFails ==
  ASSUME NEW mm \in Machine
  PROVE  Fails(mm, Refused(mm))
<1> DEFINE id == mm.nextCommandId + 1
           n == [mm EXCEPT !.nextCommandId = id]
<1>1. Refused(mm) = Fail(n, "queue full")
  BY DEF Refused
<1>2. n.nextCommandId = id /\ n.out = mm.out
  BY Zenon DEF Machine
<1>3. n \in Machine
  <2>1. id \in CommandId
    BY DEF Machine, CommandId
  <2> HIDE DEF id
  <2>2. QED
    BY <2>1, Zenon DEF Machine
<1> HIDE DEF n
<1>4. LET f == Fail(n, "queue full")
      IN  /\ f.state = "ERROR" /\ f.sched = NoSchedule
          /\ f.out = n.out /\ f.nextCommandId = n.nextCommandId
  BY <1>3, Zenon DEF Fail, Machine
<1>5. QED
  BY <1>1, <1>2, <1>4 DEF Fails

\* send(), when the sink accepts.
LEMMA PostedSends ==
  ASSUME NEW mm \in Machine, NEW type
  PROVE  Sends(mm, Posted(mm, type), type)
<1> DEFINE o == mm.out \cup {[id |-> mm.nextCommandId, type |-> type]}
           id == mm.nextCommandId + 1
<1>1. Posted(mm, type) = [mm EXCEPT !.nextCommandId = id, !.out = o]
  BY DEF Posted
<1> HIDE DEF o, id
<1>2. Posted(mm, type).nextCommandId = id /\ Posted(mm, type).out = o
  BY <1>1, Zenon DEF Machine
<1>3. QED
  BY <1>2 DEF Sends, o, id

\* COMMAND_CANCEL_AUTOFOCUS leaves the schedule alone, or fails.
LEMMA CancelAutofocusEffect ==
  ASSUME NEW mm \in Machine, NEW sink
  PROVE  LET f == CancelAutofocus(mm, sink)
         IN  \/ Fails(mm, f)
             \/ Sends(mm, f, "CANCEL_AUTOFOCUS") /\ f.sched = mm.sched
  BY RefusedFails, PostedSends, PostedFields DEF CancelAutofocus, CommandType

\* COMMAND_START_AUTOFOCUS: the job waits for its result.
LEMMA StartAutofocusEffect ==
  ASSUME NEW mm \in Machine, NEW sink
  PROVE  LET f == StartAutofocus(mm, sink)
         IN  \/ Fails(mm, f)
             \/ /\ Sends(mm, f, "START_AUTOFOCUS")
                /\ f.state = "FOCUSING"
                /\ f.sched.focusCommandId = mm.nextCommandId
                /\ f.sched.captureCommandId = mm.sched.captureCommandId
                /\ f.sched.releaseCommandId = mm.sched.releaseCommandId
                /\ f.sched.captureDeadline = mm.sched.captureDeadline
                /\ f.sched.standaloneFocus = mm.sched.standaloneFocus
                /\ f.sched.captureSent = mm.sched.captureSent
                /\ f.sched.physicalCapture = mm.sched.physicalCapture
<1>1. CASE "START_AUTOFOCUS" \in sink
  <2> DEFINE id == mm.nextCommandId
             p == Posted(mm, "START_AUTOFOCUS")
             s == [p.sched EXCEPT !.focusSent = TRUE, !.focusCommandId = id]
             f == StartAutofocus(mm, sink)
  <2>1. /\ p \in Machine /\ p.sched = mm.sched
    BY PostedFields DEF CommandType
  <2>2. Sends(mm, p, "START_AUTOFOCUS")
    BY PostedSends
  <2>3. f = [p EXCEPT !.sched = s, !.state = "FOCUSING"]
    BY <1>1 DEF StartAutofocus
  <2>4. p.sched \in Schedule
    BY <2>1 DEF Machine
  <2> HIDE DEF f, p, id
  <2>5. /\ s.focusCommandId = id
        /\ s.captureCommandId = mm.sched.captureCommandId
        /\ s.releaseCommandId = mm.sched.releaseCommandId
        /\ s.captureDeadline = mm.sched.captureDeadline
        /\ s.standaloneFocus = mm.sched.standaloneFocus
        /\ s.captureSent = mm.sched.captureSent
        /\ s.physicalCapture = mm.sched.physicalCapture
    BY <2>1, <2>4, Zenon DEF Schedule
  <2> HIDE DEF s
  <2>6. f.state = "FOCUSING" /\ f.sched = s /\ f.out = p.out /\ f.nextCommandId = p.nextCommandId
    BY <2>1, <2>3, Zenon DEF Machine
  <2>7. QED
    BY <2>2, <2>5, <2>6 DEF f, id, Sends
<1>2. CASE "START_AUTOFOCUS" \notin sink
  BY <1>2, RefusedFails DEF StartAutofocus
<1>3. QED
  BY <1>1, <1>2

Hold(physical) == IF physical THEN PhysicalShutterFailsafe ELSE WebShutterHold

\* The shot was sent at the time t.
Shoots(r, physical, t) ==
  /\ r.state = "CAPTURING"
  /\ r.sched.physicalCapture = physical
  /\ r.sched.releaseDeadline = t + Hold(physical)
  /\ r.sched.cooldownDeadline = t + Cooldown

\* beginCapture(): the hold and the cooldown count from the shot.
LEMMA BeginCaptureEffect ==
  ASSUME NEW mm \in Machine, NEW physical \in BOOLEAN, NEW t, NEW sink
  PROVE  LET f == BeginCapture(mm, physical, t, sink)
         IN  \/ Fails(mm, f)
             \/ /\ Sends(mm, f, "CAPTURE")
                /\ Shoots(f, physical, t)
                /\ f.sched.focusCommandId = mm.sched.focusCommandId
                /\ f.sched.captureCommandId = mm.nextCommandId
                /\ f.sched.releaseCommandId = mm.sched.releaseCommandId
<1>1. CASE "CAPTURE" \in sink
  <2> DEFINE id == mm.nextCommandId
             p == Posted(mm, "CAPTURE")
             hold == t + Hold(physical)
             rest == t + Cooldown
             s == [p.sched EXCEPT
                     !.physicalCapture = physical, !.captureSent = TRUE,
                     !.standaloneFocus = FALSE, !.captureCommandId = id,
                     !.releaseDeadline = hold, !.cooldownDeadline = rest]
             f == BeginCapture(mm, physical, t, sink)
  <2>1. /\ p \in Machine /\ p.sched = mm.sched
    BY PostedFields DEF CommandType
  <2>2. Sends(mm, p, "CAPTURE")
    BY PostedSends
  <2>3. f = [p EXCEPT !.sched = s, !.state = "CAPTURING"]
    BY <1>1 DEF BeginCapture, Hold
  <2>4. p.sched \in Schedule
    BY <2>1 DEF Machine
  <2> HIDE DEF f, p, id, hold, rest
  <2>5. /\ s.focusCommandId = mm.sched.focusCommandId
        /\ s.captureCommandId = id
        /\ s.releaseCommandId = mm.sched.releaseCommandId
        /\ s.physicalCapture = physical
        /\ s.releaseDeadline = hold /\ s.cooldownDeadline = rest
    BY <2>1, <2>4, Zenon DEF Schedule
  <2> HIDE DEF s
  <2>6. f.state = "CAPTURING" /\ f.sched = s /\ f.out = p.out /\ f.nextCommandId = p.nextCommandId
    BY <2>1, <2>3, Zenon DEF Machine
  <2>7. QED
    BY <2>2, <2>5, <2>6, Zenon DEF f, id, hold, rest, Sends, Shoots
<1>2. CASE "CAPTURE" \notin sink
  BY <1>2, RefusedFails DEF BeginCapture
<1>3. QED
  BY <1>1, <1>2

\* COMMAND_RELEASE_SHUTTER: the cooldown goes on.
LEMMA ReleaseShutterEffect ==
  ASSUME NEW mm \in Machine, NEW sink
  PROVE  LET f == ReleaseShutter(mm, sink)
         IN  \/ Fails(mm, f)
             \/ /\ Sends(mm, f, "RELEASE_SHUTTER")
                /\ f.state = "COOLDOWN"
                /\ f.sched.focusCommandId = mm.sched.focusCommandId
                /\ f.sched.captureCommandId = mm.sched.captureCommandId
                /\ f.sched.releaseCommandId = mm.nextCommandId
                /\ f.sched.physicalCapture = mm.sched.physicalCapture
                /\ f.sched.cooldownDeadline = mm.sched.cooldownDeadline
<1>1. CASE "RELEASE_SHUTTER" \in sink
  <2> DEFINE id == mm.nextCommandId
             p == Posted(mm, "RELEASE_SHUTTER")
             s == [p.sched EXCEPT !.releaseDeadline = 0, !.releaseCommandId = id]
             f == ReleaseShutter(mm, sink)
  <2>1. /\ p \in Machine /\ p.sched = mm.sched
    BY PostedFields DEF CommandType
  <2>2. Sends(mm, p, "RELEASE_SHUTTER")
    BY PostedSends
  <2>3. f = [p EXCEPT !.sched = s, !.state = "COOLDOWN"]
    BY <1>1 DEF ReleaseShutter
  <2>4. p.sched \in Schedule
    BY <2>1 DEF Machine
  <2> HIDE DEF f, p, id
  <2>5. /\ s.focusCommandId = mm.sched.focusCommandId
        /\ s.captureCommandId = mm.sched.captureCommandId
        /\ s.releaseCommandId = id
        /\ s.physicalCapture = mm.sched.physicalCapture
        /\ s.cooldownDeadline = mm.sched.cooldownDeadline
    BY <2>1, <2>4, Zenon DEF Schedule
  <2> HIDE DEF s
  <2>6. f.state = "COOLDOWN" /\ f.sched = s /\ f.out = p.out /\ f.nextCommandId = p.nextCommandId
    BY <2>1, <2>3, Zenon DEF Machine
  <2>7. QED
    BY <2>2, <2>5, <2>6, Zenon DEF f, id, Sends
<1>2. CASE "RELEASE_SHUTTER" \notin sink
  BY <1>2, RefusedFails DEF ReleaseShutter
<1>3. QED
  BY <1>1, <1>2

\* A failure, and a command with its id in the schedule, number as they should.
LEMMA FailsNumbers ==
  ASSUME NEW mm \in Machine, NEW r, Fails(mm, r)
  PROVE  Numbers(mm, r) /\ Ids(r) = {0}
<1>1. Ids(r) = {0}
  BY NoIds DEF Fails
<1>2. QED
  BY <1>1, NextId DEF Fails, Numbers

\* A sent command has the next id, and the schedule may wait for it.
LEMMA SendsNumbers ==
  ASSUME NEW mm \in Machine, NEW r, NEW type, Sends(mm, r, type),
         \A i \in Ids(r) : i \in Ids(mm) \/ i = 0 \/ i = mm.nextCommandId
  PROVE  Numbers(mm, r)
<1>1. mm.nextCommandId \in Nat
  BY NextId
<1>2. ASSUME NEW c \in r.out \ mm.out
      PROVE  mm.nextCommandId <= c.id /\ c.id < r.nextCommandId
  <2>1. c = [id |-> mm.nextCommandId, type |-> type]
    BY <1>2 DEF Sends
  <2>2. c.id = mm.nextCommandId
    BY <2>1
  <2>3. QED
    BY <1>1, <2>2 DEF Sends
<1>3. r.nextCommandId >= mm.nextCommandId
  BY <1>1 DEF Sends
<1>4. QED
  BY <1>1, <1>2, <1>3 DEF Numbers

\* Two steps of a call.
LEMMA NumbersCompose ==
  ASSUME NEW a \in Machine, NEW b \in Machine, NEW c \in Machine, Numbers(a, b), Numbers(b, c)
  PROVE  Numbers(a, c)
<1>1. /\ a.nextCommandId \in Nat /\ b.nextCommandId \in Nat /\ c.nextCommandId \in Nat
      /\ \A x \in b.out \cup c.out : x.id \in Nat
  BY DEF Machine, CommandId, Command
<1>2. c.nextCommandId >= a.nextCommandId
  BY <1>1 DEF Numbers
<1>3. ASSUME NEW x \in c.out \ a.out
      PROVE  a.nextCommandId <= x.id /\ x.id < c.nextCommandId
  <2>1. x.id \in Nat
    BY <1>1, <1>3
  <2>2. CASE x \in b.out
    BY <1>1, <1>3, <2>1, <2>2 DEF Numbers
  <2>3. CASE x \notin b.out
    BY <1>1, <1>3, <2>1, <2>3 DEF Numbers
  <2>4. QED
    BY <2>2, <2>3
<1>4. ASSUME NEW i \in Ids(c)
      PROVE  i \in Ids(a) \/ i = 0 \/ i >= a.nextCommandId
  <2>1. i \in Nat
    BY <1>4 DEF Ids, Machine, Schedule
  <2>2. QED
    BY <1>1, <1>4, <2>1 DEF Numbers
<1>5. QED
  BY <1>2, <1>3, <1>4 DEF Numbers

-----------------------------------------------------------------------------
(* A tick, by the state it finds.                                          *)

\* A step that sends this type, or is refused, has sent no other.
LEMMA SentTypes ==
  ASSUME NEW mm, NEW r, NEW type, NEW other, Dispatched(r, other)
  PROVE  /\ Fails(mm, r) => Dispatched(mm, other)
         /\ Sends(mm, r, type) => other = type \/ Dispatched(mm, other)
<1>1. PICK c \in r.out : c.type = other
  BY DEF Dispatched
<1>2. ASSUME Sends(mm, r, type), c \notin mm.out
      PROVE  other = type
  <2>1. c = [id |-> mm.nextCommandId, type |-> type]
    BY <1>1, <1>2 DEF Sends
  <2>2. QED
    BY <1>1, <2>1
<1>3. QED
  BY <1>1, <1>2 DEF Fails, Dispatched

\* A command that was sent is in "out".
LEMMA SendsDispatches ==
  ASSUME NEW mm, NEW r, NEW type, Sends(mm, r, type)
  PROVE  Dispatched(r, type)
<1>1. [id |-> mm.nextCommandId, type |-> type] \in r.out
  BY DEF Sends
<1>2. QED
  BY <1>1 DEF Dispatched

\* The object waits for the CAPTURE that it sends.
Owns(r) == \A c \in r.out : c.type = "CAPTURE" => c.id = r.sched.captureCommandId

LEMMA SendsOwns ==
  ASSUME NEW mm, NEW r, Sends(mm, r, "CAPTURE"), ~Dispatched(mm, "CAPTURE"),
         r.sched.captureCommandId = mm.nextCommandId
  PROVE  Owns(r)
<1>1. ASSUME NEW c \in r.out, c.type = "CAPTURE"
      PROVE  c.id = r.sched.captureCommandId
  <2>1. c = [id |-> mm.nextCommandId, type |-> "CAPTURE"]
    BY <1>1 DEF Sends, Dispatched
  <2>2. QED
    BY <2>1
<1>2. QED
  BY <1>1 DEF Owns

\* A call that returns early.
LEMMA NothingNumbers ==
  ASSUME NEW mm \in Machine
  PROVE  Numbers(mm, mm)
  BY NextId DEF Numbers

\* The countdown goes on, the shot is sent, or the sink refuses.
Waits(mm, r) ==
  /\ Waiting(r) /\ ~Dispatched(r, "CAPTURE")
  /\ r.sched.standaloneFocus = mm.sched.standaloneFocus
  /\ r.sched.captureDeadline = mm.sched.captureDeadline

\* A tick of a countdown or a held focus: it goes on, fails, or the shot that is
\* due is sent.
LEMMA TickWaiting ==
  ASSUME NEW mm, Consistent(mm), mm.out = {}, Waiting(mm), NEW t \in Time, NEW sink
  PROVE  LET r == Tick(mm, t, sink)
         IN  /\ Numbers(mm, r)
             /\ ~Dispatched(r, "RELEASE_SHUTTER")
             /\ \/ r.state = "ERROR" /\ ~Dispatched(r, "CAPTURE")
                \/ Waits(mm, r) /\ ~(t >= mm.sched.captureDeadline)
                \/ /\ Shoots(r, FALSE, t) /\ Dispatched(r, "CAPTURE") /\ Owns(r)
                   /\ t >= mm.sched.captureDeadline
<1> DEFINE a == TickFocus(mm, t, sink)
           b == TickCapture(a, t, sink)
           r == Tick(mm, t, sink)
<1>1. mm \in Machine /\ mm.running
  BY DEF Consistent, Active, Waiting, Busy
<1>2. \A type : ~Dispatched(mm, type)
  BY DEF Dispatched
<1>3. Consistent(a) /\ FocusTaken(a, t)
  BY TickFocusConsistent
<1>4. Consistent(b)
  BY <1>3, TickCaptureConsistent
<1>5. a \in Machine /\ b \in Machine
  BY <1>3, <1>4 DEF Consistent
<1>6. r = TickCooldown(TickRelease(b, t, sink), t)
  BY <1>1 DEF Tick
<1>7. ASSUME b.state \notin {"CAPTURING", "COOLDOWN"} \/ Shoots(b, FALSE, t)
      PROVE  r = b
  <2>1. Shoots(b, FALSE, t) => b.state = "CAPTURING" /\ ~(t >= b.sched.releaseDeadline)
    BY ConfigAssumption DEF Shoots, Hold, Time
  <2>2. TickRelease(b, t, sink) = b
    BY <1>7, <2>1 DEF TickRelease, ReleaseDue
  <2>3. TickCooldown(b, t) = b
    BY <1>7, <2>1 DEF TickCooldown
  <2>4. QED
    BY <1>6, <2>2, <2>3
<1>8. \/ Fails(mm, a)
      \/ /\ Waits(mm, a) /\ ~Dispatched(a, "RELEASE_SHUTTER")
         /\ Numbers(mm, a)
  <2>1. CASE a = mm
    BY <1>1, <1>2, <2>1, NothingNumbers DEF Waits
  <2>2. CASE a = StartAutofocus(mm, sink)
    <3>1. CASE Fails(mm, a)
      BY <3>1
    <3>2. CASE /\ Sends(mm, a, "START_AUTOFOCUS")
               /\ a.state = "FOCUSING"
               /\ a.sched.focusCommandId = mm.nextCommandId
               /\ a.sched.captureCommandId = mm.sched.captureCommandId
               /\ a.sched.releaseCommandId = mm.sched.releaseCommandId
               /\ a.sched.captureDeadline = mm.sched.captureDeadline
               /\ a.sched.standaloneFocus = mm.sched.standaloneFocus
      <4>1. Numbers(mm, a)
        BY <1>1, <3>2, SendsNumbers DEF Ids
      <4>2. ~Dispatched(a, "CAPTURE") /\ ~Dispatched(a, "RELEASE_SHUTTER")
        BY <1>2, <3>2, SentTypes
      <4>3. QED
        BY <3>2, <4>1, <4>2 DEF Waits, Waiting
    <3>3. QED
      BY <1>1, <2>2, <3>1, <3>2, StartAutofocusEffect
  <2>3. QED
    BY <2>1, <2>2 DEF TickFocus
<1>9. CASE Fails(mm, a)
  <2>1. b = a
    BY <1>9 DEF TickCapture, Fails, Waiting
  <2>2. r = a /\ r.state = "ERROR"
    BY <1>7, <1>9, <2>1 DEF Fails
  <2>3. Numbers(mm, a)
    BY <1>1, <1>9, FailsNumbers
  <2>4. ~Dispatched(a, "CAPTURE") /\ ~Dispatched(a, "RELEASE_SHUTTER")
    BY <1>2, <1>9, SentTypes
  <2>5. QED
    BY <2>2, <2>3, <2>4
<1>10. CASE /\ Waits(mm, a) /\ ~Dispatched(a, "RELEASE_SHUTTER")
            /\ Numbers(mm, a)
  <2>1. CASE b = a /\ ~(t >= a.sched.captureDeadline)
    <3>1. r = a
      BY <1>7, <1>10, <2>1 DEF Waits, Waiting
    <3>2. QED
      BY <1>10, <2>1, <3>1 DEF Waits
  <2>2. CASE b = BeginCapture(a, FALSE, t, sink) /\ t >= a.sched.captureDeadline
    <3>1. CASE Fails(a, b)
      <4>1. r = b /\ r.state = "ERROR"
        BY <1>7, <3>1 DEF Fails
      <4>2. Numbers(mm, b)
        BY <1>1, <1>5, <1>10, <3>1, FailsNumbers, NumbersCompose
      <4>3. ~Dispatched(b, "CAPTURE") /\ ~Dispatched(b, "RELEASE_SHUTTER")
        BY <1>10, <3>1, SentTypes DEF Waits
      <4>4. QED
        BY <4>1, <4>2, <4>3
    <3>2. CASE /\ Sends(a, b, "CAPTURE")
               /\ Shoots(b, FALSE, t)
               /\ b.sched.focusCommandId = a.sched.focusCommandId
               /\ b.sched.captureCommandId = a.nextCommandId
               /\ b.sched.releaseCommandId = a.sched.releaseCommandId
      <4>1. r = b
        BY <1>7, <3>2
      <4>2. Numbers(a, b)
        BY <1>5, <3>2, SendsNumbers DEF Ids
      <4>3. Numbers(mm, b)
        BY <1>1, <1>5, <1>10, <4>2, NumbersCompose
      <4>4. ~Dispatched(b, "RELEASE_SHUTTER")
        BY <1>10, <3>2, SentTypes
      <4>5. t >= mm.sched.captureDeadline
        BY <1>10, <2>2 DEF Waits
      <4>6. Dispatched(b, "CAPTURE")
        BY <3>2, SendsDispatches
      <4>7. Owns(b)
        BY <1>10, <3>2, SendsOwns DEF Waits
      <4>8. QED
        BY <3>2, <4>1, <4>3, <4>4, <4>5, <4>6, <4>7
    <3>3. QED
      <4> HIDE DEF a, b
      <4> DEFINE key == FALSE
                 f == BeginCapture(a, key, t, sink)
      <4>1. b = f
        BY <2>2
      <4>2. key \in BOOLEAN /\ (Shoots(f, key, t) => Shoots(f, FALSE, t))
        OBVIOUS
      <4> HIDE DEF key
      <4>3. \/ Fails(a, f)
            \/ /\ Sends(a, f, "CAPTURE")
               /\ Shoots(f, key, t)
               /\ f.sched.focusCommandId = a.sched.focusCommandId
               /\ f.sched.captureCommandId = a.nextCommandId
               /\ f.sched.releaseCommandId = a.sched.releaseCommandId
        BY <1>5, <4>2, BeginCaptureEffect
      <4> HIDE DEF f
      <4>4. QED
        BY <3>1, <3>2, <4>1, <4>2, <4>3
  <2>3. Waiting(a) /\ ~a.sched.captureSent
    BY <1>3, <1>10 DEF Waits, Waiting, Consistent, Scheduled
  <2>4. QED
    BY <2>1, <2>2, <2>3 DEF TickCapture
<1>11. QED
  BY <1>8, <1>9, <1>10

\* A shot is over: the remote is at home, without a schedule.
Home(mm, r) ==
  /\ r.state = HomeState(mm) /\ r.sched = NoSchedule

\* The object at home, and what it keeps.
LEMMA GoesHomeFields ==
  ASSUME NEW mm \in Machine
  PROVE  LET r == [ClearSchedule(mm) EXCEPT !.state = HomeState(mm)]
         IN  /\ Home(mm, r)
             /\ r.out = mm.out /\ r.nextCommandId = mm.nextCommandId
<1> DEFINE home == HomeState(mm)
<1> HIDE DEF home
<1>1. LET r == [ClearSchedule(mm) EXCEPT !.state = home]
      IN  /\ r.state = home /\ r.sched = NoSchedule
          /\ r.out = mm.out /\ r.nextCommandId = mm.nextCommandId
  BY Zenon DEF ClearSchedule, Machine
<1>2. QED
  BY <1>1 DEF home, Home

\* The fourth stage of tick(): the end of a cooldown.
LEMMA TickCooling ==
  ASSUME NEW mm, Consistent(mm), mm.state = "COOLDOWN", NEW t \in Time
  PROVE  LET r == TickCooldown(mm, t)
         IN  \/ r = mm /\ ~(t >= mm.sched.cooldownDeadline)
             \/ /\ t >= mm.sched.cooldownDeadline
                /\ Home(mm, r)
                /\ r.out = mm.out /\ r.nextCommandId = mm.nextCommandId
  BY GoesHomeFields DEF TickCooldown, Consistent

\* The shutter is held, released, or all is over.
LEMMA TickHolding ==
  ASSUME NEW mm, Consistent(mm), mm.out = {}, mm.state \in {"CAPTURING", "COOLDOWN"},
         NEW t \in Time, NEW sink
  PROVE  LET r == Tick(mm, t, sink)
         IN  /\ Numbers(mm, r)
             /\ ~Dispatched(r, "CAPTURE")
             /\ Dispatched(r, "RELEASE_SHUTTER") =>
                  mm.state = "CAPTURING" /\ t >= mm.sched.releaseDeadline
             /\ mm.state = "CAPTURING" /\ t >= mm.sched.releaseDeadline =>
                  r.state # "CAPTURING"
             /\ \/ r = mm
                \/ r.state = "ERROR"
                \/ /\ r.state = "COOLDOWN"
                   /\ r.sched.physicalCapture = mm.sched.physicalCapture
                   /\ r.sched.cooldownDeadline = mm.sched.cooldownDeadline
                \/ /\ r.state \in {"ARMED", "STARTING"}
                   /\ t >= mm.sched.cooldownDeadline
             /\ t >= mm.sched.releaseDeadline /\ t >= mm.sched.cooldownDeadline => ~Busy(r)
<1> DEFINE c == TickRelease(mm, t, sink)
           r == Tick(mm, t, sink)
<1>1. mm \in Machine /\ mm.running
  BY DEF Consistent, Active, Busy
<1>2. \A type : ~Dispatched(mm, type)
  BY DEF Dispatched
<1>3. TickFocus(mm, t, sink) = mm /\ TickCapture(mm, t, sink) = mm
  BY DEF TickFocus, TickCapture, Waiting
<1>4. r = TickCooldown(c, t)
  BY <1>1, <1>3 DEF Tick
<1>5. c = mm \/ (c = ReleaseShutter(mm, sink) /\ mm.state = "CAPTURING"
                 /\ t >= mm.sched.releaseDeadline)
  BY DEF TickRelease, ReleaseDue
<1>6. Consistent(c)
  BY <1>5, ReleaseShutterConsistent
<1>7. mm.state = "CAPTURING" /\ t >= mm.sched.releaseDeadline => c.state # "CAPTURING"
  <2>1. mm.state = "CAPTURING" => mm.sched.captureSent /\ mm.sched.releaseDeadline > 0
    BY DEF Consistent, Scheduled
  <2>2. ReleaseShutter(mm, sink).state # "CAPTURING"
    BY <1>1, ReleaseShutterEffect DEF Fails
  <2>3. QED
    BY <2>1, <2>2 DEF TickRelease, ReleaseDue
<1>8. c \in Machine
  BY <1>6 DEF Consistent
<1>9. /\ Numbers(mm, c)
      /\ ~Dispatched(c, "CAPTURE")
      /\ Dispatched(c, "RELEASE_SHUTTER") =>
           mm.state = "CAPTURING" /\ t >= mm.sched.releaseDeadline
      /\ \/ c = mm
         \/ c.state = "ERROR"
         \/ /\ c.state = "COOLDOWN"
            /\ c.sched.physicalCapture = mm.sched.physicalCapture
            /\ c.sched.cooldownDeadline = mm.sched.cooldownDeadline
  <2>1. CASE c = mm
    BY <1>1, <1>2, <2>1, NothingNumbers
  <2>2. CASE c = ReleaseShutter(mm, sink) /\ mm.state = "CAPTURING"
             /\ t >= mm.sched.releaseDeadline
    <3>1. CASE Fails(mm, c)
      <4>1. Numbers(mm, c)
        BY <1>1, <3>1, FailsNumbers
      <4>2. ~Dispatched(c, "CAPTURE")
        BY <1>2, <3>1, SentTypes
      <4>3. QED
        BY <2>2, <3>1, <4>1, <4>2 DEF Fails
    <3>2. CASE /\ Sends(mm, c, "RELEASE_SHUTTER")
               /\ c.state = "COOLDOWN"
               /\ c.sched.focusCommandId = mm.sched.focusCommandId
               /\ c.sched.captureCommandId = mm.sched.captureCommandId
               /\ c.sched.releaseCommandId = mm.nextCommandId
               /\ c.sched.physicalCapture = mm.sched.physicalCapture
               /\ c.sched.cooldownDeadline = mm.sched.cooldownDeadline
      <4>1. Numbers(mm, c)
        BY <1>1, <3>2, SendsNumbers DEF Ids
      <4>2. ~Dispatched(c, "CAPTURE")
        BY <1>2, <3>2, SentTypes
      <4>3. QED
        BY <2>2, <3>2, <4>1, <4>2
    <3>3. QED
      BY <1>1, <2>2, <3>1, <3>2, ReleaseShutterEffect
  <2>3. QED
    BY <1>5, <2>1, <2>2
<1>10. CASE r = c /\ ~(c.state = "COOLDOWN" /\ t >= c.sched.cooldownDeadline)
  <2>1. t >= mm.sched.releaseDeadline /\ t >= mm.sched.cooldownDeadline => ~Busy(r)
    BY <1>9, <1>10, <1>7 DEF Busy
  <2>2. QED
    BY <1>9, <1>10, <1>7, <2>1
<1>11. CASE /\ c.state = "COOLDOWN" /\ t >= c.sched.cooldownDeadline
            /\ Home(c, r)
            /\ r.out = c.out /\ r.nextCommandId = c.nextCommandId
  <2>1. r.state \in {"ARMED", "STARTING"} /\ Ids(r) = {0}
    BY <1>11, NoIds DEF Home, HomeState
  <2>2. Numbers(mm, r)
    BY <1>9, <1>11, <2>1 DEF Numbers
  <2>3. \A type : Dispatched(r, type) <=> Dispatched(c, type)
    BY <1>11 DEF Dispatched
  <2>4. t >= mm.sched.cooldownDeadline
    BY <1>9, <1>11
  <2>5. ~Busy(r)
    BY <2>1 DEF Busy
  <2>6. QED
    BY <1>9, <2>1, <2>2, <2>3, <2>4, <2>5
<1>12. QED
  <2>1. CASE c.state = "COOLDOWN"
    BY <1>4, <1>6, <1>10, <1>11, <2>1, TickCooling
  <2>2. CASE c.state # "COOLDOWN"
    BY <1>4, <1>10, <2>2 DEF TickCooldown
  <2>3. QED
    BY <2>1, <2>2

\* A tick without a job does nothing.
LEMMA TickIdle ==
  ASSUME NEW mm, ~Busy(mm), NEW t, NEW sink
  PROVE  Tick(mm, t, sink) = mm
<1>1. TickFocus(mm, t, sink) = mm /\ TickCapture(mm, t, sink) = mm
  BY DEF TickFocus, TickCapture, Waiting, Busy
<1>2. TickRelease(mm, t, sink) = mm /\ TickCooldown(mm, t) = mm
  BY DEF TickRelease, ReleaseDue, TickCooldown, Busy
<1>3. QED
  BY <1>1, <1>2 DEF Tick

-----------------------------------------------------------------------------
(* The effect of each method.                                              *)

\* Shots are spaced: what is held or cools down was sent by this call, or is
\* what was held before it.  What is released is not held any more.
Spaced(mm, r, t) ==
  /\ Dispatched(r, "CAPTURE") =>
       /\ mm.state \notin {"CAPTURING", "COOLDOWN"}
       /\ Shoots(r, r.sched.physicalCapture, t)
       /\ Owns(r)
  /\ ~Dispatched(r, "CAPTURE") =>
       /\ r.state = "CAPTURING" =>
            /\ mm.state = "CAPTURING"
            /\ r.sched.physicalCapture = mm.sched.physicalCapture
            /\ r.sched.releaseDeadline = mm.sched.releaseDeadline
            /\ r.sched.cooldownDeadline = mm.sched.cooldownDeadline
            /\ r.sched.captureCommandId = mm.sched.captureCommandId
       /\ r.state = "COOLDOWN" =>
            /\ mm.state \in {"CAPTURING", "COOLDOWN"}
            /\ r.sched.cooldownDeadline = mm.sched.cooldownDeadline
  /\ mm.state \in {"CAPTURING", "COOLDOWN"} =>
       \/ r.state \in {"CAPTURING", "COOLDOWN", "STARTING", "STOPPED", "ERROR"}
       \/ t >= mm.sched.cooldownDeadline
  /\ Dispatched(r, "RELEASE_SHUTTER") => r.state # "CAPTURING"

\* A job that takes the place of another has none of its ids.
Replaces(mm, r) ==
  EndsJob(mm, r) => \A i \in Ids(r) : i = 0 \/ i >= mm.nextCommandId

\* A countdown that runs is the one that ran before, and so is a held focus,
\* if its shot is not due at once.
Counts(mm, r) ==
  /\ CountdownRunning(r) =>
       CountdownRunning(mm) /\ r.sched.captureDeadline = mm.sched.captureDeadline
  /\ FocusHeld(r) /\ r.sched.captureDeadline # 0 =>
       FocusHeld(mm) /\ r.sched.captureDeadline = mm.sched.captureDeadline

\* The states that a call may lead to.
StateMoves(mm, r) ==
  \/ /\ r.state = mm.state
     /\ mm.state = "FOCUSING" => r.sched.standaloneFocus = mm.sched.standaloneFocus
  \/ r.state \in {"STOPPED", "STARTING"}
  \/ mm.state = "STARTING" /\ r.state = "ARMED"
  \/ mm.state = "ARMED"
  \/ CountdownRunning(mm) /\ CountdownRunning(r)
  \/ Waiting(mm) /\ r.state \in {"ARMED", "CAPTURING", "ERROR"}
  \/ /\ mm.state \in {"CAPTURING", "COOLDOWN"}
     /\ r.state \in {"CAPTURING", "COOLDOWN", "ARMED", "ERROR"}

Effect(mm, r, t) == Numbers(mm, r) /\ Spaced(mm, r, t) /\ Replaces(mm, r)

\* A job ends idle, unless a key has taken the place of a countdown.
LEMMA EndsIdle ==
  ASSUME NEW mm, NEW r, Consistent(r), CountdownRunning(mm) => ~r.sched.physicalCapture
  PROVE  Replaces(mm, r)
  BY NoIds DEF Replaces, EndsJob, Consistent, Scheduled

\* A call that returns early changes nothing.
LEMMA NothingEffect ==
  ASSUME NEW mm, Consistent(mm), mm.out = {}, NEW t
  PROVE  Effect(mm, mm, t) /\ Counts(mm, mm) /\ StateMoves(mm, mm)
<1>1. mm \in Machine /\ \A type : ~Dispatched(mm, type)
  BY DEF Consistent, Dispatched
<1>2. Numbers(mm, mm)
  BY <1>1, NothingNumbers
<1>3. CountdownRunning(mm) => ~mm.sched.physicalCapture
  BY DEF Consistent, Scheduled, CountdownRunning
<1>4. Replaces(mm, mm)
  BY <1>3, EndsIdle
<1>5. Spaced(mm, mm, t) /\ Counts(mm, mm) /\ StateMoves(mm, mm)
  BY <1>1 DEF Spaced, Counts, FocusHeld, StateMoves
<1>6. QED
  BY <1>2, <1>4, <1>5 DEF Effect

\* tick(), in any state.
LEMMA TickEffect ==
  ASSUME NEW mm, Consistent(mm), mm.out = {}, NEW t \in Time, NEW sink
  PROVE  LET r == Tick(mm, t, sink)
         IN  /\ Effect(mm, r, t) /\ Counts(mm, r) /\ StateMoves(mm, r)
             /\ Dispatched(r, "CAPTURE") => Waiting(mm) /\ t >= mm.sched.captureDeadline
             /\ Dispatched(r, "RELEASE_SHUTTER") =>
                  mm.state = "CAPTURING" /\ t >= mm.sched.releaseDeadline
<1> DEFINE r == Tick(mm, t, sink)
<1>1. Consistent(r)
  BY TickConsistent
<1>2. mm \in Machine /\ \A type : ~Dispatched(mm, type)
  BY DEF Consistent, Dispatched
<1>3. CASE Waiting(mm)
  <2> HIDE DEF r
  <2>1. /\ Numbers(mm, r)
        /\ ~Dispatched(r, "RELEASE_SHUTTER")
        /\ \/ r.state = "ERROR" /\ ~Dispatched(r, "CAPTURE")
           \/ Waits(mm, r) /\ ~(t >= mm.sched.captureDeadline)
           \/ /\ Shoots(r, FALSE, t) /\ Dispatched(r, "CAPTURE") /\ Owns(r)
              /\ t >= mm.sched.captureDeadline
    BY <1>3, TickWaiting DEF r
  <2>2. ~r.sched.physicalCapture
    BY <1>1, <2>1 DEF Consistent, Scheduled, Waits, Waiting, Shoots
  <2>3. Replaces(mm, r)
    BY <1>1, <2>2, EndsIdle
  <2>4. Spaced(mm, r, t)
    <3>1. Shoots(r, FALSE, t) => Shoots(r, r.sched.physicalCapture, t)
      BY Zenon DEF Shoots
    <3>2. Shoots(r, FALSE, t) => r.state = "CAPTURING"
      BY DEF Shoots
    <3>3. QED
      BY <1>3, <2>1, <3>1, <3>2 DEF Spaced, Waits, Waiting
  <2>5. Counts(mm, r)
    BY <1>1, <1>3, <2>1 DEF Consistent, FocusIsHeld, Counts, FocusHeld, CountdownRunning, Waits, Waiting, Shoots
  <2>6. Dispatched(r, "CAPTURE") => t >= mm.sched.captureDeadline
    BY <2>1 DEF Waits
  <2>7. StateMoves(mm, r)
    <3>1. CASE Waits(mm, r)
      BY <1>1, <1>3, <3>1
      DEF Consistent, FocusIsHeld, StateMoves, CountdownRunning, Waits, Waiting
    <3>2. CASE r.state \in {"ERROR", "CAPTURING"}
      BY <1>3, <3>2 DEF StateMoves
    <3>3. QED
      BY <2>1, <3>1, <3>2 DEF Shoots
  <2>8. QED
    BY <1>3, <2>1, <2>3, <2>4, <2>5, <2>6, <2>7 DEF Effect, r
<1>4. CASE mm.state \in {"CAPTURING", "COOLDOWN"}
  <2> HIDE DEF r
  <2>1. /\ Numbers(mm, r)
        /\ ~Dispatched(r, "CAPTURE")
        /\ Dispatched(r, "RELEASE_SHUTTER") =>
             mm.state = "CAPTURING" /\ t >= mm.sched.releaseDeadline
        /\ \/ r = mm
           \/ r.state = "ERROR"
           \/ /\ r.state = "COOLDOWN"
              /\ r.sched.physicalCapture = mm.sched.physicalCapture
              /\ r.sched.cooldownDeadline = mm.sched.cooldownDeadline
           \/ /\ r.state \in {"ARMED", "STARTING"}
              /\ t >= mm.sched.cooldownDeadline
        /\ mm.state = "CAPTURING" /\ t >= mm.sched.releaseDeadline => r.state # "CAPTURING"
    BY <1>4, TickHolding DEF r
  <2>2. Replaces(mm, r)
    BY <1>1, <1>4, EndsIdle DEF CountdownRunning
  <2>3. Spaced(mm, r, t)
    BY <1>4, <2>1 DEF Spaced
  <2>4. Counts(mm, r)
    BY <1>4, <2>1 DEF Counts, FocusHeld, CountdownRunning
  <2>5. StateMoves(mm, r)
    BY <1>4, <2>1 DEF StateMoves
  <2>6. QED
    BY <2>1, <2>2, <2>3, <2>4, <2>5, <1>4 DEF Effect, Waiting, r
<1>5. CASE ~Busy(mm)
  <2>1. r = mm
    BY <1>5, TickIdle
  <2>2. QED
    BY <1>2, <2>1, NothingEffect
<1>6. QED
  BY <1>3, <1>4, <1>5 DEF Busy, Waiting

\* A call that sends nothing and drops the schedule, or keeps it.
Silent(mm, r) ==
  r.out = mm.out /\ r.nextCommandId = mm.nextCommandId

\* setCameraReady() and setWifiReady(), once the flag is stored in nn.
LEMMA ReadinessEffect ==
  ASSUME NEW mm, Consistent(mm), mm.out = {}, mm.running, NEW nn \in Machine, NEW ready,
         Silent(mm, nn), nn.state = mm.state, nn.sched = mm.sched, NEW t,
         Consistent(ReadinessChanged(nn, ready))
  PROVE  LET r == ReadinessChanged(nn, ready)
         IN  /\ Effect(mm, r, t) /\ Counts(mm, r)
             /\ \A type : ~Dispatched(r, type)
             /\ \/ r.state = mm.state /\ r.sched = mm.sched
                \/ r.state = "STARTING"
                \/ mm.state = "STARTING" /\ r.state = "ARMED"
<1> DEFINE r == ReadinessChanged(nn, ready)
<1>1. LET s == [ClearSchedule(nn) EXCEPT !.state = "STARTING"]
      IN  s.state = "STARTING" /\ s.sched = NoSchedule /\ Silent(nn, s)
  BY Zenon DEF ClearSchedule, Machine, Silent
<1>2. LET s == [nn EXCEPT !.state = "ARMED"]
      IN  s.state = "ARMED" /\ s.sched = nn.sched /\ Silent(nn, s)
  BY Zenon DEF Machine, Silent
<1>3. /\ Silent(mm, r)
      /\ \/ r.state = mm.state /\ r.sched = mm.sched
         \/ r.state = "STARTING" /\ r.sched = NoSchedule
         \/ mm.state = "STARTING" /\ r.state = "ARMED" /\ r.sched = mm.sched
  BY <1>1, <1>2 DEF ReadinessChanged, Silent
<1>4. mm \in Machine
  BY DEF Consistent
<1> HIDE DEF r
<1>5. Ids(r) \in {Ids(mm), {0}}
  BY <1>3, NoIds DEF Ids
<1>6. Numbers(mm, r)
  BY <1>3, <1>4, <1>5, NextId DEF Numbers, Silent
<1>7. \A type : ~Dispatched(r, type)
  BY <1>3 DEF Dispatched, Silent
<1>8. Consistent(r)
  BY DEF r
<1>9. CountdownRunning(mm) => ~r.sched.physicalCapture
  BY <1>3 DEF Consistent, Scheduled, CountdownRunning, NoSchedule
<1>10. Replaces(mm, r)
  BY <1>8, <1>9, EndsIdle
<1>11. Spaced(mm, r, t)
  BY <1>3, <1>7 DEF Spaced
<1>12. Counts(mm, r)
  BY <1>3 DEF Counts, FocusHeld, CountdownRunning
<1>13. QED
  BY <1>3, <1>6, <1>7, <1>10, <1>11, <1>12 DEF Effect, r

\* Cancelling an autofocus, as the callers do, sends nothing else.
LEMMA CancelEffect ==
  ASSUME NEW mm \in Machine, mm.out = {}, NEW sink,
         NEW told \in {CancelSentFocus(mm, sink), CancelAutofocus(mm, sink)}
  PROVE  /\ Numbers(mm, told)
         /\ ~Dispatched(told, "CAPTURE") /\ ~Dispatched(told, "RELEASE_SHUTTER")
<1>1. \A type : ~Dispatched(mm, type)
  BY DEF Dispatched
<1>2. CASE told = mm
  BY <1>1, <1>2, NothingNumbers
<1>3. CASE Fails(mm, told)
  BY <1>1, <1>3, FailsNumbers, SentTypes
<1>4. CASE Sends(mm, told, "CANCEL_AUTOFOCUS") /\ told.sched = mm.sched
  BY <1>1, <1>4, SendsNumbers, SentTypes DEF Ids
<1>5. QED
  BY <1>2, <1>3, <1>4, CancelAutofocusEffect DEF CancelSentFocus

\* The job is dropped: the remote is armed again.
LEMMA DropEffect ==
  ASSUME NEW mm, Consistent(mm), mm.out = {}, Waiting(mm), NEW sink, NEW t,
         NEW told \in {CancelSentFocus(mm, sink), CancelAutofocus(mm, sink)}
  PROVE  LET r == [ClearSchedule(told) EXCEPT !.state = HomeState(told)]
         IN  /\ Effect(mm, r, t) /\ Counts(mm, r) /\ r.state = "ARMED"
             /\ ~Dispatched(r, "CAPTURE") /\ ~Dispatched(r, "RELEASE_SHUTTER")
<1> DEFINE r == [ClearSchedule(told) EXCEPT !.state = HomeState(told)]
<1>1. mm \in Machine /\ mm.running /\ Ready(mm)
  BY DEF Consistent, Active, Busy, Waiting
<1>2. Consistent(told) /\ SameReadiness(mm, told)
  BY CancelSentFocusConsistent, CancelAutofocusConsistent
<1>3. told \in Machine /\ Ready(told) /\ told.running
  BY <1>1, <1>2 DEF Consistent, SameReadiness, Ready
<1>4. Home(told, r) /\ Silent(told, r)
  BY <1>3, GoesHomeFields DEF Silent
<1>5. Consistent(r)
  BY <1>3, GoesHome
<1> HIDE DEF r
<1>6. r.state = "ARMED" /\ Ids(r) = {0} /\ r.sched = NoSchedule
  BY <1>3, <1>4, NoIds DEF Home, HomeState
<1>7. /\ Numbers(mm, told)
      /\ ~Dispatched(told, "CAPTURE") /\ ~Dispatched(told, "RELEASE_SHUTTER")
  BY <1>1, CancelEffect
<1>8. ~Dispatched(r, "CAPTURE") /\ ~Dispatched(r, "RELEASE_SHUTTER")
  BY <1>4, <1>7 DEF Silent, Dispatched
<1>9. Numbers(mm, r)
  BY <1>4, <1>6, <1>7 DEF Numbers, Silent
<1>10. Replaces(mm, r)
  BY <1>5, <1>6, EndsIdle DEF NoSchedule
<1>11. Spaced(mm, r, t) /\ Counts(mm, r)
  BY <1>6, <1>8 DEF Spaced, Counts, FocusHeld, CountdownRunning, Waiting
<1>12. QED
  BY <1>6, <1>8, <1>9, <1>10, <1>11 DEF Effect, r

\* requestCapture(): the countdown is the one that was asked for.
LEMMA RequestEffect ==
  ASSUME NEW mm, Consistent(mm), mm.out = {}, NEW id \in RequestIds, NEW delay \in Int,
         NEW autofocus \in BOOLEAN, NEW t \in Time, NEW sink,
         CanRequestCapture(mm, delay)
  PROVE  LET r == RequestCapture(mm, id, delay, autofocus, t, sink)
         IN  /\ Effect(mm, r, t)
             /\ CountdownRunning(r) => t + delay <= r.sched.captureDeadline
             /\ CountdownRunning(r) => r.sched.captureDeadline = CaptureTime(t, delay, autofocus)
             /\ ~FocusHeld(r)
             /\ Dispatched(r, "CAPTURE") => delay = 0 /\ ~autofocus
             /\ ~Dispatched(r, "RELEASE_SHUTTER")
<1> DEFINE due == CaptureTime(t, delay, autofocus)
           focus == FocusTime(t, delay, autofocus)
           next == IF delay = 0 /\ autofocus THEN "FOCUSING" ELSE "COUNTDOWN"
           s == [NoSchedule EXCEPT !.autofocusRequested = autofocus,
                                   !.captureDeadline = due, !.focusDeadline = focus]
           n == [mm EXCEPT !.sched = s, !.lastRequestId = id, !.lastError = "",
                           !.state = next]
           r == RequestCapture(mm, id, delay, autofocus, t, sink)
<1>1. /\ mm \in Machine /\ mm.state = "ARMED"
      /\ delay \in 0 .. MaxDelay
  BY DEF Consistent, CanRequestCapture
<1>2. Consistent(n)
  BY RequestedConsistent
<1>3. r = Tick(n, t, sink)
  BY DEF RequestCapture
<1>4. Consistent(r)
  BY RequestCaptureConsistent
<1>5. t + delay <= due /\ due \in Nat
  BY <1>1, RequestTimes
<1>6. due <= t => delay = 0 /\ ~autofocus
  BY <1>1, ConfigAssumption DEF CaptureTime, Time
<1>7. next \in {"FOCUSING", "COUNTDOWN"}
  OBVIOUS
<1> HIDE DEF due, focus, next
<1>8. /\ s.focusCommandId = 0 /\ s.captureCommandId = 0 /\ s.releaseCommandId = 0
      /\ s.captureDeadline = due /\ ~s.standaloneFocus
  BY Zenon DEF NoSchedule
<1> HIDE DEF s
<1>9. n.state = next /\ n.sched = s /\ Silent(mm, n)
  BY <1>1, Zenon DEF Machine, Silent
<1> HIDE DEF n, r
<1>10. /\ Ids(n) = {0} /\ n.out = {} /\ Waiting(n)
       /\ n.sched.captureDeadline = due /\ ~n.sched.standaloneFocus
  BY <1>7, <1>8, <1>9 DEF Ids, Waiting, Silent
<1>11. n \in Machine
  BY <1>2 DEF Consistent
<1>12. /\ Effect(n, r, t) /\ Counts(n, r) /\ StateMoves(n, r)
       /\ Dispatched(r, "CAPTURE") => t >= due
       /\ Dispatched(r, "RELEASE_SHUTTER") => n.state = "CAPTURING"
  BY <1>2, <1>3, <1>10, TickEffect
<1>13. Numbers(mm, r)
  BY <1>9, <1>10, <1>12 DEF Effect, Numbers, Silent
<1>14. Replaces(mm, r)
  BY <1>1 DEF Replaces, EndsJob, Busy, CountdownRunning
<1>15. Spaced(mm, r, t)
  BY <1>1, <1>10, <1>12 DEF Effect, Spaced, Waiting
<1>16. CountdownRunning(r) =>
         r.sched.captureDeadline = due /\ t + delay <= r.sched.captureDeadline
  BY <1>5, <1>10, <1>12 DEF Counts
<1>17. ~FocusHeld(r)
  BY <1>10, <1>12 DEF StateMoves, FocusHeld, CountdownRunning, Waiting
<1>18. Dispatched(r, "CAPTURE") => delay = 0 /\ ~autofocus
  BY <1>5, <1>6, <1>12 DEF Time
<1>19. ~Dispatched(r, "RELEASE_SHUTTER")
  BY <1>10, <1>12 DEF Waiting
<1>20. QED
  BY <1>13, <1>14, <1>15, <1>16, <1>18, <1>19, <1>17 DEF Effect, r, due

\* setFocus(true).
LEMMA PressFocusEffect ==
  ASSUME NEW mm, Consistent(mm), mm.out = {}, CanPressFocus(mm), NEW sink, NEW t
  PROVE  LET r == PressFocus(mm, sink)
         IN  /\ Effect(mm, r, t) /\ Counts(mm, r)
             /\ ~Dispatched(r, "CAPTURE") /\ ~Dispatched(r, "RELEASE_SHUTTER")
<1> DEFINE s == [mm.sched EXCEPT !.standaloneFocus = TRUE]
           n == [mm EXCEPT !.sched = s]
           r == PressFocus(mm, sink)
<1>1. mm \in Machine /\ mm.sched \in Schedule /\ mm.state = "ARMED"
  BY DEF Consistent, CanPressFocus, Machine
<1>2. r = StartAutofocus(n, sink)
  BY DEF PressFocus
<1>3. /\ s \in Schedule
      /\ s.focusCommandId = mm.sched.focusCommandId
      /\ s.captureCommandId = mm.sched.captureCommandId
      /\ s.releaseCommandId = mm.sched.releaseCommandId
      /\ s.standaloneFocus /\ s.captureDeadline = mm.sched.captureDeadline
  BY <1>1, Zenon DEF Schedule
<1> HIDE DEF s
<1>4. n \in Machine /\ n.sched = s /\ Silent(mm, n)
  BY <1>1, <1>3, Zenon DEF Machine, Silent
<1> HIDE DEF n, r
<1>5. Ids(n) = Ids(mm) /\ \A type : ~Dispatched(n, type)
  BY <1>3, <1>4 DEF Ids, Silent, Dispatched
<1>6. /\ Numbers(n, r)
      /\ ~Dispatched(r, "CAPTURE") /\ ~Dispatched(r, "RELEASE_SHUTTER")
      /\ r.state = "ERROR" \/ (r.state = "FOCUSING" /\ r.sched.standaloneFocus)
  <2>1. CASE Fails(n, r)
    <3>1. Numbers(n, r)
      BY <1>4, <2>1, FailsNumbers
    <3>2. r.state = "ERROR"
      BY <2>1 DEF Fails
    <3>3. QED
      BY <1>5, <2>1, <3>1, <3>2, SentTypes
  <2>2. CASE /\ Sends(n, r, "START_AUTOFOCUS")
             /\ r.state = "FOCUSING"
             /\ r.sched.focusCommandId = n.nextCommandId
             /\ r.sched.captureCommandId = n.sched.captureCommandId
             /\ r.sched.releaseCommandId = n.sched.releaseCommandId
             /\ r.sched.standaloneFocus = n.sched.standaloneFocus
    <3>1. Numbers(n, r)
      BY <1>4, <2>2, SendsNumbers DEF Ids
    <3>2. r.sched.standaloneFocus
      BY <1>3, <1>4, <2>2
    <3>3. QED
      BY <1>5, <2>2, <3>1, <3>2, SentTypes
  <2>3. QED
    BY <1>2, <1>4, <2>1, <2>2, StartAutofocusEffect
<1>7. Numbers(mm, r)
  BY <1>4, <1>5, <1>6 DEF Numbers, Silent
<1>8. r.state = "FOCUSING" => r.sched.captureDeadline = 0
  <2>1. CASE Fails(n, r)
    BY <2>1 DEF Fails
  <2>2. CASE r.sched.captureDeadline = n.sched.captureDeadline
    <3>1. mm.sched.captureDeadline = 0
      BY <1>1 DEF Consistent, Scheduled, Busy, NoSchedule
    <3>2. QED
      BY <1>3, <1>4, <2>2, <3>1
  <2>3. QED
    BY <1>2, <1>4, <2>1, <2>2, StartAutofocusEffect
<1>9. Replaces(mm, r) /\ Spaced(mm, r, t) /\ Counts(mm, r)
  BY <1>1, <1>6, <1>8 DEF Replaces, EndsJob, Busy, CountdownRunning, Spaced, Counts, FocusHeld
<1>10. QED
  BY <1>6, <1>7, <1>9 DEF Effect, r

\* physicalShutter(true).
LEMMA PressShutterEffect ==
  ASSUME NEW mm, Consistent(mm), mm.out = {}, CanPressShutter(mm), NEW t \in Time, NEW sink
  PROVE  LET r == PressShutter(mm, t, sink)
         IN  /\ Effect(mm, r, t) /\ Counts(mm, r)
             /\ ~Dispatched(r, "RELEASE_SHUTTER")
             /\ r.state \in {"CAPTURING", "ERROR"}
<1> DEFINE told == CancelSentFocus(mm, sink)
           dropped == IF CountdownRunning(mm) THEN ClearSchedule(told) ELSE mm
           n == [dropped EXCEPT !.lastRequestId = "physical", !.lastError = ""]
           r == PressShutter(mm, t, sink)
<1>1. mm \in Machine /\ mm.state \in {"ARMED", "COUNTDOWN", "FOCUSING"}
  BY DEF Consistent, CanPressShutter, CountdownRunning, FocusHeld
<1>2. told \in Machine
  BY CancelSentFocusConsistent DEF Consistent
<1>3. /\ Numbers(mm, told)
      /\ ~Dispatched(told, "CAPTURE") /\ ~Dispatched(told, "RELEASE_SHUTTER")
  BY <1>1, CancelEffect
<1>4. r = BeginCapture(n, TRUE, t, sink)
  BY DEF PressShutter
<1> HIDE DEF told
<1>5. /\ dropped \in Machine /\ Numbers(mm, dropped)
      /\ ~Dispatched(dropped, "CAPTURE") /\ ~Dispatched(dropped, "RELEASE_SHUTTER")
      /\ CountdownRunning(mm) => dropped.sched = NoSchedule
  <2>1. CASE CountdownRunning(mm)
    <3> DEFINE x == ClearSchedule(told)
    <3>1. x \in Machine /\ x.sched = NoSchedule /\ Silent(told, x)
      BY <1>2, NoScheduleType, Zenon DEF ClearSchedule, Machine, Silent
    <3>2. dropped = x
      BY <2>1
    <3> HIDE DEF x, dropped
    <3>3. Numbers(mm, x)
      BY <1>3, <3>1, NoIds DEF Numbers, Silent
    <3>4. \A type : Dispatched(x, type) <=> Dispatched(told, type)
      BY <3>1 DEF Dispatched, Silent
    <3>5. QED
      BY <1>3, <3>1, <3>2, <3>3, <3>4
  <2>2. CASE ~CountdownRunning(mm)
    BY <1>1, <2>2, NothingNumbers DEF Dispatched
  <2>3. QED
    BY <2>1, <2>2
<1> HIDE DEF dropped
<1>6. "physical" \in ShotOwner /\ "" \in ErrorCause
  BY DEF ShotOwner, ErrorCause
<1>7. n \in Machine /\ n.sched = dropped.sched /\ Silent(dropped, n)
  BY <1>5, <1>6, Zenon DEF Machine, Silent
<1>8. Consistent(r)
  BY PressShutterConsistent
<1> HIDE DEF n, r
<1>9. /\ Numbers(mm, n) /\ (CountdownRunning(mm) => n.sched = NoSchedule)
      /\ ~Dispatched(n, "CAPTURE") /\ ~Dispatched(n, "RELEASE_SHUTTER")
  BY <1>5, <1>7 DEF Numbers, Ids, Silent, Dispatched
<1>10. r \in Machine
  BY <1>8 DEF Consistent
<1>11. CASE Fails(n, r)
  <2>1. Numbers(mm, r)
    BY <1>1, <1>7, <1>9, <1>10, <1>11, FailsNumbers, NumbersCompose
  <2>2. ~Dispatched(r, "CAPTURE") /\ ~Dispatched(r, "RELEASE_SHUTTER")
    BY <1>9, <1>11, SentTypes
  <2>3. r.state = "ERROR" /\ ~r.sched.physicalCapture
    BY <1>11 DEF Fails, NoSchedule
  <2>4. Replaces(mm, r)
    BY <1>8, <2>3, EndsIdle
  <2>5. Spaced(mm, r, t) /\ Counts(mm, r)
    BY <1>1, <2>2, <2>3 DEF Spaced, Counts, FocusHeld, CountdownRunning
  <2>6. QED
    BY <2>1, <2>2, <2>3, <2>4, <2>5 DEF Effect, r
<1>12. CASE /\ Sends(n, r, "CAPTURE")
            /\ Shoots(r, TRUE, t)
            /\ r.sched.focusCommandId = n.sched.focusCommandId
            /\ r.sched.captureCommandId = n.nextCommandId
            /\ r.sched.releaseCommandId = n.sched.releaseCommandId
  <2>1. Numbers(n, r)
    BY <1>7, <1>12, SendsNumbers DEF Ids
  <2>2. Numbers(mm, r)
    BY <1>1, <1>7, <1>9, <1>10, <2>1, NumbersCompose
  <2>3. ~Dispatched(r, "RELEASE_SHUTTER")
    BY <1>9, <1>12, SentTypes
  <2>4. r.state = "CAPTURING"
    BY <1>12 DEF Shoots
  <2>5. n.nextCommandId >= mm.nextCommandId
    BY <1>9 DEF Numbers
  <2>6. Replaces(mm, r)
    BY <1>9, <1>12, <2>4, <2>5 DEF Replaces, EndsJob, Busy, Ids, NoSchedule
  <2>7. Shoots(r, r.sched.physicalCapture, t)
    BY <1>12, Zenon DEF Shoots
  <2>8. Dispatched(r, "CAPTURE")
    BY <1>12, SendsDispatches
  <2>9. Owns(r)
    BY <1>9, <1>12, SendsOwns
  <2>10. Spaced(mm, r, t) /\ Counts(mm, r)
    BY <1>1, <2>3, <2>4, <2>7, <2>8, <2>9 DEF Spaced, Counts, FocusHeld, CountdownRunning
  <2>11. QED
    BY <2>2, <2>3, <2>4, <2>6, <2>10 DEF Effect, r
<1>13. QED
  <2> DEFINE key == TRUE
             f == BeginCapture(n, key, t, sink)
  <2>1. r = f
    BY <1>4
  <2>2. key \in BOOLEAN /\ (Shoots(f, key, t) => Shoots(f, TRUE, t))
    OBVIOUS
  <2> HIDE DEF key
  <2>3. \/ Fails(n, f)
        \/ /\ Sends(n, f, "CAPTURE")
           /\ Shoots(f, key, t)
           /\ f.sched.focusCommandId = n.sched.focusCommandId
           /\ f.sched.captureCommandId = n.nextCommandId
           /\ f.sched.releaseCommandId = n.sched.releaseCommandId
    BY <1>7, <2>2, BeginCaptureEffect
  <2> HIDE DEF f
  <2>4. QED
    BY <1>11, <1>12, <2>1, <2>2, <2>3

\* physicalShutter(false).
LEMMA LiftShutterEffect ==
  ASSUME NEW mm, Consistent(mm), mm.out = {}, NEW t \in Time, NEW sink
  PROVE  LET r == LiftShutter(mm, t, sink)
         IN  /\ Effect(mm, r, t) /\ Counts(mm, r)
             /\ ~Dispatched(r, "CAPTURE")
             /\ Dispatched(r, "RELEASE_SHUTTER") => mm.state = "CAPTURING" /\ mm.sched.physicalCapture
             /\ StateMoves(mm, r)
<1> DEFINE up == /\ mm.state = "CAPTURING" /\ mm.sched.physicalCapture
                 /\ mm.sched.releaseDeadline > 0
           s == [mm.sched EXCEPT !.releaseDeadline = t]
           n == [mm EXCEPT !.sched = s]
           r == LiftShutter(mm, t, sink)
<1>1. mm \in Machine /\ mm.sched \in Schedule /\ \A type : ~Dispatched(mm, type)
  BY DEF Consistent, Machine, Dispatched
<1>2. CASE up
  <2>1. r = Tick(n, t, sink)
    BY <1>2 DEF LiftShutter
  <2>2. Consistent(n)
    BY <1>2, LiftedConsistent
  <2>3. Consistent(r)
    BY LiftShutterConsistent
  <2>4. /\ s.focusCommandId = mm.sched.focusCommandId
        /\ s.captureCommandId = mm.sched.captureCommandId
        /\ s.releaseCommandId = mm.sched.releaseCommandId
        /\ s.releaseDeadline = t
        /\ s.cooldownDeadline = mm.sched.cooldownDeadline
    BY <1>1, Zenon DEF Schedule
  <2> HIDE DEF s
  <2>5. n.sched = s /\ n.state = mm.state /\ Silent(mm, n)
    BY <1>1, Zenon DEF Machine, Silent
  <2> HIDE DEF n, r
  <2>6. n.state = "CAPTURING" /\ n.out = {} /\ t >= n.sched.releaseDeadline
    BY <1>2, <2>4, <2>5 DEF Silent, Time
  <2>7. /\ Numbers(n, r)
        /\ ~Dispatched(r, "CAPTURE")
        /\ r.state # "CAPTURING"
        /\ \/ r = n
           \/ r.state = "ERROR"
           \/ /\ r.state = "COOLDOWN"
              /\ r.sched.cooldownDeadline = n.sched.cooldownDeadline
           \/ /\ r.state \in {"ARMED", "STARTING"}
              /\ t >= n.sched.cooldownDeadline
    BY <2>1, <2>2, <2>6, TickHolding
  <2>8. Numbers(mm, r)
    BY <2>4, <2>5, <2>7 DEF Numbers, Ids, Silent
  <2>9. Replaces(mm, r)
    BY <1>2, <2>3, EndsIdle DEF CountdownRunning
  <2>10. Spaced(mm, r, t) /\ Counts(mm, r)
    BY <1>2, <2>4, <2>5, <2>6, <2>7 DEF Spaced, Counts, FocusHeld, CountdownRunning
  <2>11. StateMoves(mm, r)
    BY <1>2, <2>6, <2>7 DEF StateMoves
  <2>12. QED
    BY <1>2, <2>7, <2>8, <2>9, <2>10, <2>11 DEF Effect, r
<1>3. CASE ~up
  <2>1. r = mm
    BY <1>3 DEF LiftShutter
  <2>2. QED
    BY <1>1, <2>1, NothingEffect
<1>4. QED
  BY <1>2, <1>3

\* reportCommandResult() of a failure.
LEMMA ReportFailureEffect ==
  ASSUME NEW mm, Consistent(mm), mm.out = {}, NEW id \in Nat, id > 0, NEW t
  PROVE  LET r == ReportFailure(mm, id)
         IN  /\ Effect(mm, r, t) /\ Counts(mm, r) /\ StateMoves(mm, r)
             /\ r.out = {}
             /\ id \notin Ids(mm) => r = mm
             /\ id = mm.sched.captureCommandId => r.state # "CAPTURING"
<1> DEFINE focusFailed == /\ id = mm.sched.focusCommandId
                          /\ ~mm.sched.standaloneFocus
                          /\ ~mm.sched.captureSent
           armed == [ClearSchedule(mm) EXCEPT !.lastError = "autofocus failed",
                                              !.state = "ARMED"]
           a == IF focusFailed THEN armed ELSE mm
           warned == [a EXCEPT !.lastError = "shutter release failed"]
           failed == Fail(mm, "capture failed")
           r == ReportFailure(mm, id)
<1>1. mm \in Machine /\ \A type : ~Dispatched(mm, type)
  BY DEF Consistent, Dispatched
<1>2. /\ armed.state = "ARMED" /\ armed.sched = NoSchedule /\ Silent(mm, armed)
      /\ failed.state = "ERROR" /\ failed.sched = NoSchedule /\ Silent(mm, failed)
  BY <1>1, Zenon DEF ClearSchedule, Fail, Machine, Silent
<1>3. LET w == [mm EXCEPT !.lastError = "shutter release failed"]
      IN  w.state = mm.state /\ w.sched = mm.sched /\ Silent(mm, w)
  BY <1>1, Zenon DEF Machine, Silent
<1>4. r = IF id = mm.sched.captureCommandId THEN failed
          ELSE IF id = a.sched.releaseCommandId THEN warned
          ELSE a
  BY DEF ReportFailure
<1>5. focusFailed => CountdownRunning(mm)
  BY DEF Consistent, Scheduled, FocusIsHeld, Busy, CountdownRunning, NoSchedule
<1>6. id = mm.sched.captureCommandId => Busy(mm)
  BY DEF Consistent, Scheduled, NoSchedule
<1>7. focusFailed => id # a.sched.releaseCommandId
  <2>1. NoSchedule.releaseCommandId = 0
    BY DEF NoSchedule
  <2>2. focusFailed => a = armed
    BY Zenon
  <2> HIDE DEF armed, failed, a, focusFailed
  <2>3. QED
    BY <1>2, <2>1, <2>2
<1>8. id \notin Ids(mm) => r = mm
  BY <1>4 DEF Ids
<1>9. /\ Silent(mm, r)
      /\ \/ r.state = mm.state /\ r.sched = mm.sched
         \/ Busy(mm) /\ r.state = "ERROR" /\ r.sched = NoSchedule
         \/ CountdownRunning(mm) /\ r.state = "ARMED" /\ r.sched = NoSchedule
  <2>1. CASE id = mm.sched.captureCommandId
    BY <1>2, <1>4, <1>6, <2>1
  <2>2. CASE id # mm.sched.captureCommandId /\ focusFailed
    BY <1>2, <1>4, <1>5, <1>7, <2>2
  <2>3. CASE id # mm.sched.captureCommandId /\ ~focusFailed
    BY <1>3, <1>4, <2>3 DEF Silent
  <2>4. QED
    BY <2>1, <2>2, <2>3
<1>10. Consistent(r)
  BY ReportFailureConsistent
<1>11. id = mm.sched.captureCommandId => r.state # "CAPTURING"
  BY <1>2, <1>4
<1> HIDE DEF r, focusFailed
<1>12. Ids(r) \in {Ids(mm), {0}}
  BY <1>9, NoIds DEF Ids
<1>13. Numbers(mm, r)
  BY <1>1, <1>9, <1>12, NextId DEF Numbers, Silent
<1>14. CountdownRunning(mm) => ~r.sched.physicalCapture
  BY <1>9 DEF Consistent, Scheduled, CountdownRunning, NoSchedule
<1>15. Replaces(mm, r)
  BY <1>10, <1>14, EndsIdle
<1>16. r.out = {} /\ \A type : ~Dispatched(r, type)
  BY <1>9 DEF Dispatched, Silent
<1>17. Spaced(mm, r, t) /\ Counts(mm, r) /\ StateMoves(mm, r)
  BY <1>9, <1>16 DEF Spaced, Counts, FocusHeld, StateMoves, CountdownRunning, Busy, Waiting
<1>18. QED
  BY <1>8, <1>11, <1>13, <1>15, <1>16, <1>17 DEF Effect, r

-----------------------------------------------------------------------------
(* The history variables agree with the object.                            *)

\* Ids of commands in flight are old; the job in progress waits for none of
\* the stale ones.
Numbered ==
  \A c \in inflight : c.id < m.nextCommandId /\ (c.stale => c.id \notin Ids(m))

\* "shot" is the shot that is held or cools down; otherwise the last one was
\* interrupted or is over.
Shots ==
  /\ m.state = "CAPTURING" =>
       /\ shot.physical = m.sched.physicalCapture
       /\ m.sched.releaseDeadline = shot.at + Hold(shot.physical)
  /\ m.state \in {"CAPTURING", "COOLDOWN"} =>
       /\ shot.at # 0 /\ ~shot.interrupted
       /\ m.sched.cooldownDeadline = shot.at + Cooldown
  /\ m.state \notin {"CAPTURING", "COOLDOWN"} =>
       shot.at = 0 \/ shot.interrupted \/ now >= shot.at + Cooldown

\* A countdown never ends before the time that was asked for.
Asked ==
  CountdownRunning(m) => ask # 0 /\ ask <= m.sched.captureDeadline

\* A shutter that is held is down, and the last CAPTURE on its way, if there is
\* one, is the one that the object waits for: so its failure ends the shot.
HeldDown ==
  m.state = "CAPTURING" =>
    /\ shot.down
    /\ \A c \in inflight : IsLastCapture(c) => c.id = m.sched.captureCommandId

HInv == IInv /\ Numbered /\ Shots /\ Asked /\ HeldDown

\* A step leaves what the method has returned, but for the commands sent, the
\* oldest of which may have gone, and the history that belongs to it.
Leads(r) ==
  /\ m'.state = r.state /\ m'.sched = r.sched /\ m'.nextCommandId = r.nextCommandId
  /\ inflight' \subseteq Queued(m, r)
  /\ \A q \in Queued(m, r) \ inflight', d \in inflight' : q.id <= d.id
  /\ LET h == Shooting(r)
     IN  /\ shot'.at = h.at /\ shot'.physical = h.physical
         /\ shot'.interrupted <=> h.interrupted
         /\ r.state = "CAPTURING" => (shot'.down <=> h.down)
  /\ now' = now

\* A call leaves its result.
LEMMA ReturnLeads ==
  ASSUME NEW r \in Machine, NEW due, Returns(r, due), Records(r)
  PROVE  Leads(r)
<1>1. m' = [r EXCEPT !.out = {}] /\ inflight' = Queued(m, r) /\ now' = now
  BY Zenon DEF Returns
<1>2. /\ m'.state = r.state /\ m'.sched = r.sched
      /\ m'.nextCommandId = r.nextCommandId
  BY <1>1, Zenon DEF Machine
<1>3. QED
  BY <1>1, <1>2, Zenon DEF Leads, Records

\* The result of a command: the machine as it is, or after a failure, which is
\* not that of the shutter that is held.
LEMMA ResultLeads ==
  ASSUME IInv, NEW c \in inflight, NEW ok \in BOOLEAN, CommandResult(c, ok),
         NEW r \in Machine, r = IF ok THEN m ELSE ReportFailure(m, c.id), r.out = {},
         ~ok /\ IsLastCapture(c) => r.state # "CAPTURING"
  PROVE  Leads(r) /\ m' = r /\ ask' = IF Waiting(r) THEN ask ELSE 0
<1> DEFINE failed == ~(~ok /\ IsLastCapture(c))
           image(d) == [d EXCEPT !.stale = @ \/ EndsJob(m, r)]
<1>1. /\ m' = r /\ now' = now
      /\ inflight' = { image(d) : d \in inflight \ {c} }
      /\ shot' = [Shooting(r) EXCEPT !.down = @ /\ failed]
      /\ ask' = IF Waiting(r) THEN ask ELSE 0
      /\ \A d \in inflight : c.id <= d.id
  BY Zenon DEF CommandResult
<1>2. ASSUME NEW d \in inflight
      PROVE  /\ image(d) = [id |-> d.id, type |-> d.type, stale |-> d.stale \/ EndsJob(m, r)]
             /\ image(d).id = d.id
  <2> DEFINE stale == d.stale \/ EndsJob(m, r)
  <2>1. d \in InFlight
    BY <1>2 DEF IInv
  <2>2. image(d) = [d EXCEPT !.stale = stale]
    BY Zenon
  <2> HIDE DEF stale
  <2>3. [d EXCEPT !.stale = stale] = [id |-> d.id, type |-> d.type, stale |-> stale]
    BY <2>1 DEF InFlight
  <2>4. QED
    BY <2>2, <2>3, Zenon DEF stale
<1> HIDE DEF image
<1>3. /\ \A d \in inflight : image(d) \in Queued(m, r)
      /\ \A q \in Queued(m, r) : \E d \in inflight : q = image(d)
  <2> DEFINE copy(d) == [id |-> d.id, type |-> d.type, stale |-> d.stale \/ EndsJob(m, r)]
  <2>1. Queued(m, r) = { copy(d) : d \in inflight }
    BY DEF Queued
  <2>2. \A d \in inflight : image(d) = copy(d)
    BY <1>2
  <2> HIDE DEF copy
  <2>3. QED
    BY <2>1, <2>2, Zenon
<1>4. inflight' \subseteq Queued(m, r)
  BY <1>1, <1>3, Zenon
<1>5. ASSUME NEW q \in Queued(m, r) \ inflight', NEW d \in inflight'
      PROVE  q.id <= d.id
  <2>1. q = image(c)
    BY <1>1, <1>3, <1>5, Zenon
  <2>2. PICK e \in inflight : d = image(e)
    BY <1>1, <1>5, Zenon
  <2>3. q.id = c.id /\ d.id = e.id
    BY <1>2, <2>1, <2>2, Zenon
  <2>4. QED
    BY <1>1, <2>3, Zenon
<1>6. Shooting(r) \in Shot
  BY ShootingType DEF IInv
<1>7. r.state = "CAPTURING" => failed
  OBVIOUS
<1> HIDE DEF failed
<1>8. LET h == Shooting(r)
      IN  /\ shot'.at = h.at /\ shot'.physical = h.physical
          /\ shot'.interrupted <=> h.interrupted
          /\ shot'.down <=> h.down /\ failed
  BY <1>1, <1>6, Zenon DEF Shot
<1>9. QED
  BY <1>1, <1>4, <1>5, <1>7, <1>8, Zenon DEF Leads

\* A call keeps the numbers in order.
LEMMA NumberedStep ==
  ASSUME IInv, Numbered, NEW r, Consistent(r), Numbers(m, r), Replaces(m, r), Leads(r)
  PROVE  Numbered'
<1>1. /\ m \in Machine /\ r \in Machine /\ m.out = {} /\ inflight \subseteq InFlight
      /\ Scheduled(r)
  BY DEF IInv, Consistent
<1>2. /\ m'.nextCommandId = r.nextCommandId /\ Ids(m') = Ids(r)
      /\ inflight' \subseteq Queued(m, r)
  BY DEF Leads, Ids
<1>3. m.nextCommandId \in Nat /\ r.nextCommandId \in Nat /\ r.nextCommandId >= m.nextCommandId
  BY <1>1, NextId DEF Numbers
<1>4. \A i \in Ids(r) : i \in Nat
  BY <1>1 DEF Ids, Machine, Schedule
<1>5. ASSUME NEW c \in inflight
      PROVE  /\ c.id < r.nextCommandId
             /\ c.stale \/ EndsJob(m, r) => c.id \notin Ids(r)
  <2>1. c.id \in Nat /\ c.id > 0 /\ c.id < m.nextCommandId
    BY <1>1, <1>5 DEF InFlight, CommandId, Numbered
  <2>2. c.stale => c.id \notin Ids(m)
    BY <1>5 DEF Numbered
  <2>3. c.stale => c.id \notin Ids(r)
    BY <1>3, <1>4, <2>1, <2>2 DEF Numbers
  <2>4. EndsJob(m, r) => c.id \notin Ids(r)
    BY <1>3, <1>4, <2>1 DEF Replaces
  <2>5. QED
    BY <1>3, <2>1, <2>3, <2>4
<1>6. ASSUME NEW c \in r.out
      PROVE  c.id < r.nextCommandId /\ (~Busy(r) => c.id \notin Ids(r))
  <2>1. c.id \in Nat /\ c.id > 0
    BY <1>1, <1>6 DEF Machine, Command, CommandId
  <2>2. c.id < r.nextCommandId
    BY <1>1, <1>6 DEF Numbers
  <2>3. ~Busy(r) => Ids(r) = {0}
    BY <1>1, NoIds DEF Scheduled
  <2>4. QED
    BY <2>1, <2>2, <2>3
<1>7. ASSUME NEW d \in inflight'
      PROVE  d.id < m'.nextCommandId /\ (d.stale => d.id \notin Ids(m'))
  <2>1. CASE \E c \in inflight :
               d = [id |-> c.id, type |-> c.type, stale |-> c.stale \/ EndsJob(m, r)]
    <3>1. PICK c \in inflight :
               d = [id |-> c.id, type |-> c.type, stale |-> c.stale \/ EndsJob(m, r)]
      BY <2>1
    <3>2. d.id = c.id /\ d.stale = (c.stale \/ EndsJob(m, r))
      BY <3>1, Zenon
    <3>3. QED
      BY <1>2, <1>5, <3>2, Zenon
  <2>2. CASE \E c \in r.out : d = [id |-> c.id, type |-> c.type, stale |-> ~Busy(r)]
    <3>1. PICK c \in r.out : d = [id |-> c.id, type |-> c.type, stale |-> ~Busy(r)]
      BY <2>2
    <3>2. d.id = c.id /\ d.stale = (~Busy(r))
      BY <3>1, Zenon
    <3>3. QED
      BY <1>2, <1>6, <3>2, Zenon
  <2>3. d \in Queued(m, r)
    BY <1>2, <1>7
  <2>4. QED
    BY <2>1, <2>2, <2>3, Zenon DEF Queued
<1>8. QED
  BY <1>7 DEF Numbered

\* The fields of the history after a call.
LEMMA ShootingFields ==
  ASSUME NEW r \in Machine, shot \in Shot, now \in Time
  PROVE  LET h == Shooting(r)
             lost == r.state \in {"STARTING", "STOPPED", "ERROR"}
         IN  /\ Dispatched(r, "CAPTURE") =>
                  /\ h.at = now /\ h.physical = r.sched.physicalCapture
                  /\ h.interrupted <=> lost
             /\ ~Dispatched(r, "CAPTURE") =>
                  /\ h.at = shot.at /\ h.physical = shot.physical
                  /\ h.interrupted <=> shot.interrupted \/ (shot.at # 0 /\ lost)
             /\ h.down <=> /\ Dispatched(r, "CAPTURE") \/ shot.down
                           /\ ~Dispatched(r, "RELEASE_SHUTTER")
<1> DEFINE new == [at |-> now, physical |-> r.sched.physicalCapture,
                   down |-> TRUE, lifted |-> FALSE, interrupted |-> FALSE]
           s == IF Dispatched(r, "CAPTURE") THEN new ELSE shot
           released == Dispatched(r, "RELEASE_SHUTTER")
           lost == r.state \in {"STARTING", "STOPPED", "ERROR"}
           gone == s.at # 0 /\ lost
           h == Shooting(r)
<1>1. h = [s EXCEPT !.down = @ /\ ~released, !.lifted = FALSE, !.interrupted = @ \/ gone]
  BY Zenon DEF Shooting
<1>2. r.sched.physicalCapture \in BOOLEAN /\ now \in Nat /\ now # 0
  BY DEF Machine, Schedule, Time
<1>3. new \in Shot
  BY <1>2, Zenon DEF Shot
<1>4. s \in Shot
  BY <1>3
<1>5. (Dispatched(r, "CAPTURE") => s = new) /\ (~Dispatched(r, "CAPTURE") => s = shot)
  OBVIOUS
<1> HIDE DEF h, released, s
<1>6. /\ h.at = s.at /\ h.physical = s.physical
      /\ h.interrupted <=> s.interrupted \/ gone
      /\ h.down <=> s.down /\ ~released
  <2> HIDE DEF gone
  <2>1. QED
    BY <1>1, <1>4, Zenon DEF Shot
<1>7. new.at = now /\ new.physical = r.sched.physicalCapture /\ ~new.interrupted /\ new.down
  BY Zenon
<1> HIDE DEF new, lost
<1>8. CASE Dispatched(r, "CAPTURE")
  BY <1>2, <1>5, <1>6, <1>7, <1>8, Zenon DEF h, lost, released
<1>9. CASE ~Dispatched(r, "CAPTURE")
  BY <1>5, <1>6, <1>9, Zenon DEF h, lost, released
<1>10. QED
  BY <1>8, <1>9

\* A call keeps the history of the shot in step with the object.
LEMMA ShotsStep ==
  ASSUME IInv, Shots, NEW r, Consistent(r), Spaced(m, r, now), Leads(r)
  PROVE  Shots'
<1> DEFINE shoot == Dispatched(r, "CAPTURE")
           lost == r.state \in {"STARTING", "STOPPED", "ERROR"}
<1>1. /\ r \in Machine /\ shot \in Shot /\ now \in Time /\ now' = now
  BY DEF IInv, Consistent, Leads
<1>2. m'.state = r.state /\ m'.sched = r.sched
  BY DEF Leads
<1>3. /\ shoot => shot'.at = now /\ shot'.physical = r.sched.physicalCapture
                  /\ (shot'.interrupted <=> lost)
      /\ ~shoot => shot'.at = shot.at /\ shot'.physical = shot.physical
                   /\ (shot'.interrupted <=> shot.interrupted \/ (shot.at # 0 /\ lost))
  BY <1>1, ShootingFields DEF Leads
<1>4. CASE shoot
  <2>1. r.state = "CAPTURING" /\ r.sched.releaseDeadline = now + Hold(r.sched.physicalCapture)
        /\ r.sched.cooldownDeadline = now + Cooldown
    BY <1>4 DEF Spaced, Shoots
  <2>2. /\ shot'.at = now /\ shot'.physical = r.sched.physicalCapture
        /\ ~shot'.interrupted /\ now # 0
    BY <1>1, <1>3, <1>4, <2>1 DEF Time
  <2>3. QED
    BY <1>2, <2>1, <2>2 DEF Shots
<1>5. CASE ~shoot
  <2>1. /\ shot'.at = shot.at /\ shot'.physical = shot.physical
        /\ (shot'.interrupted <=> shot.interrupted \/ (shot.at # 0 /\ lost))
    BY <1>3, <1>5
  <2>2. CASE r.state = "CAPTURING"
    <3>1. /\ m.state = "CAPTURING"
          /\ r.sched.physicalCapture = m.sched.physicalCapture
          /\ r.sched.releaseDeadline = m.sched.releaseDeadline
          /\ r.sched.cooldownDeadline = m.sched.cooldownDeadline
      BY <1>5, <2>2 DEF Spaced
    <3>2. QED
      BY <1>2, <2>1, <2>2, <3>1 DEF Shots
  <2>3. CASE r.state = "COOLDOWN"
    <3>1. /\ m.state \in {"CAPTURING", "COOLDOWN"}
          /\ r.sched.cooldownDeadline = m.sched.cooldownDeadline
      BY <1>5, <2>3 DEF Spaced
    <3>2. QED
      BY <1>2, <2>1, <2>3, <3>1 DEF Shots
  <2>4. CASE r.state \notin {"CAPTURING", "COOLDOWN"}
    <3>1. CASE m.state \in {"CAPTURING", "COOLDOWN"}
      <4>1. lost \/ now >= m.sched.cooldownDeadline
        BY <2>4, <3>1 DEF Spaced
      <4>2. shot.at # 0 /\ m.sched.cooldownDeadline = shot.at + Cooldown
        BY <3>1 DEF Shots
      <4>3. QED
        BY <1>1, <1>2, <2>1, <2>4, <4>1, <4>2 DEF Shots
    <3>2. CASE m.state \notin {"CAPTURING", "COOLDOWN"}
      BY <1>1, <1>2, <2>1, <2>4, <3>2 DEF Shots
    <3>3. QED
      BY <3>1, <3>2
  <2>5. QED
    BY <2>2, <2>3, <2>4
<1>6. QED
  BY <1>4, <1>5

\* A call keeps the shutter of a shot that is held down.
LEMMA HeldDownStep ==
  ASSUME IInv, Numbered, HeldDown, NEW r, Consistent(r), Numbers(m, r), Spaced(m, r, now),
         Leads(r)
  PROVE  HeldDown'
<1> SUFFICES ASSUME r.state = "CAPTURING"
             PROVE  /\ shot'.down
                    /\ \A d \in inflight' : IsLastCapture(d)' => d.id = r.sched.captureCommandId
  BY DEF HeldDown, Leads
<1>1. /\ r \in Machine /\ m \in Machine /\ shot \in Shot /\ now \in Time /\ m.out = {}
      /\ inflight \subseteq InFlight
  BY DEF IInv, Consistent
<1>2. ~Dispatched(r, "RELEASE_SHUTTER")
  BY DEF Spaced
<1>3. ~Dispatched(r, "CAPTURE") =>
        m.state = "CAPTURING" /\ r.sched.captureCommandId = m.sched.captureCommandId
  BY DEF Spaced
<1>4. shot'.down
  <2>1. Dispatched(r, "CAPTURE") \/ shot.down
    BY <1>3 DEF HeldDown
  <2>2. Shooting(r).down
    BY <1>1, <1>2, <2>1, ShootingFields
  <2>3. QED
    BY <2>2 DEF Leads
<1>5. ASSUME NEW d \in inflight', IsLastCapture(d)'
      PROVE  d.id = r.sched.captureCommandId
  <2>1. /\ d.type = "CAPTURE" /\ d \in Queued(m, r)
        /\ \A q \in Queued(m, r) : q.type = "CAPTURE" => q.id <= d.id
    BY <1>5 DEF IsLastCapture, Leads
  <2>2. ASSUME NEW c \in inflight, c.type = "CAPTURE"
        PROVE  c.id <= d.id
    <3> DEFINE q == [id |-> c.id, type |-> c.type, stale |-> c.stale \/ EndsJob(m, r)]
    <3>1. q \in Queued(m, r)
      BY <2>2, Zenon DEF Queued
    <3>2. q.id = c.id /\ q.type = c.type
      BY Zenon
    <3>3. QED
      BY <2>1, <2>2, <3>1, <3>2, Zenon
  <2>3. ASSUME NEW c \in r.out, c.type = "CAPTURE"
        PROVE  c.id = r.sched.captureCommandId /\ c.id <= d.id /\ m.nextCommandId <= c.id
    <3> DEFINE q == [id |-> c.id, type |-> c.type, stale |-> ~Busy(r)]
    <3>1. q \in Queued(m, r)
      BY <2>3, Zenon DEF Queued
    <3>2. q.id = c.id /\ q.type = c.type
      BY Zenon
    <3>3. c.id <= d.id
      BY <2>1, <2>3, <3>1, <3>2, Zenon
    <3>4. Owns(r)
      BY <2>3 DEF Spaced, Dispatched
    <3>5. QED
      BY <1>1, <2>3, <3>3, <3>4 DEF Owns, Numbers
  <2>4. CASE \E c \in r.out : d = [id |-> c.id, type |-> c.type, stale |-> ~Busy(r)]
    <3>1. PICK c \in r.out : d = [id |-> c.id, type |-> c.type, stale |-> ~Busy(r)]
      BY <2>4
    <3>2. d.id = c.id /\ d.type = c.type
      BY <3>1, Zenon
    <3>3. QED
      BY <2>1, <2>3, <3>2
  <2>5. CASE \E c \in inflight :
               d = [id |-> c.id, type |-> c.type, stale |-> c.stale \/ EndsJob(m, r)]
    <3>1. PICK c \in inflight :
               d = [id |-> c.id, type |-> c.type, stale |-> c.stale \/ EndsJob(m, r)]
      BY <2>5
    <3>2. d.id = c.id /\ d.type = c.type
      BY <3>1, Zenon
    <3>3. ~Dispatched(r, "CAPTURE")
      <4>1. c.id < m.nextCommandId /\ c.id \in Nat /\ m.nextCommandId \in Nat
        BY <1>1, <3>1, NextId DEF Numbered, InFlight, CommandId
      <4>2. \A x \in r.out : x.id \in Nat
        BY <1>1 DEF Machine, Command, CommandId
      <4>3. QED
        BY <2>3, <3>2, <4>1, <4>2 DEF Dispatched
    <3>4. IsLastCapture(c)
      BY <2>1, <2>2, <3>2 DEF IsLastCapture
    <3>5. QED
      BY <1>3, <3>2, <3>3, <3>4 DEF HeldDown
  <2>6. QED
    BY <2>1, <2>4, <2>5, Zenon DEF Queued
<1>6. QED
  BY <1>4, <1>5

-----------------------------------------------------------------------------
(* The calls of Next have the effects of the methods.                      *)

\* What the properties allow a CAPTURE and a RELEASE_SHUTTER for.
MayShoot ==
  \/ ask # 0 /\ now >= ask
  \/ \E id \in RequestIds : CaptureRequest(id, 0, FALSE)
  \/ ShutterDown
  \/ FocusHeld(m)

MayRelease ==
  /\ m.state = "CAPTURING"
  /\ \/ now >= m.sched.releaseDeadline
     \/ m.sched.physicalCapture /\ shot'.lifted

\* The countdown of a new request ends in time, and it holds no focus of a key.
Promptly(r) ==
  /\ ~FocusHeld(r)
  /\ CountdownRunning(r) =>
       r.sched.captureDeadline <= now + LongestOf(MaxDelay, ImmediateAutofocusLead)

Performs(r, due) ==
  /\ Consistent(r) /\ Effect(m, r, now) /\ StateMoves(m, r) /\ Leads(r)
  /\ ask' = IF Waiting(r) THEN due ELSE 0
  /\ CountdownRunning(r) => due # 0 /\ due <= r.sched.captureDeadline
  /\ Counts(m, r) \/ (m.state = "ARMED" /\ Promptly(r))
  /\ Dispatched(r, "CAPTURE") => MayShoot
  /\ Dispatched(r, "RELEASE_SHUTTER") => MayRelease

Performed == \E r, due : Performs(r, due)

\* A call that starts no countdown.
LEMMA ReturnPerforms ==
  ASSUME Asked, NEW r, Consistent(r), Effect(m, r, now), Counts(m, r), StateMoves(m, r),
         Returns(r, ask), Records(r),
         Dispatched(r, "CAPTURE") => MayShoot,
         Dispatched(r, "RELEASE_SHUTTER") => MayRelease
  PROVE  Performed
<1>1. CountdownRunning(r) => ask # 0 /\ ask <= r.sched.captureDeadline
  BY DEF Asked, Counts
<1>2. Leads(r) /\ ask' = IF Waiting(r) THEN ask ELSE 0
  BY ReturnLeads DEF Returns, Consistent
<1>3. Performs(r, ask)
  BY <1>1, <1>2 DEF Performs
<1>4. QED
  BY <1>3 DEF Performed

LEMMA CallPerforms ==
  ASSUME IInv, Asked, NEW r, Consistent(r), Effect(m, r, now), Counts(m, r), StateMoves(m, r),
         Call(r, ask),
         Dispatched(r, "CAPTURE") => MayShoot,
         Dispatched(r, "RELEASE_SHUTTER") => MayRelease
  PROVE  Performed
  BY CallRecords, ReturnPerforms DEF Call, Consistent

\* A change of camera or network.
LEMMA CameraPerforms ==
  ASSUME IInv, Asked, NEW ready \in BOOLEAN, CameraReadyChanges(ready)
  PROVE  Performed
<1> DEFINE n == [m EXCEPT !.cameraReady = ready]
           r == SetCameraReady(m, ready)
<1>1. /\ Consistent(m) /\ m.out = {} /\ m.running /\ Call(r, ask) /\ m \in Machine
  BY DEF IInv, CameraReadyChanges, Consistent
<1>2. n \in Machine /\ n.state = m.state /\ n.sched = m.sched /\ Silent(m, n)
  BY <1>1, Zenon DEF Machine, Silent
<1>3. r = ReadinessChanged(n, ready)
  BY DEF SetCameraReady
<1>4. Consistent(r)
  BY <1>1, SetCameraReadyConsistent
<1> HIDE DEF n, r
<1>5. /\ Effect(m, r, now) /\ Counts(m, r) /\ \A type : ~Dispatched(r, type)
      /\ \/ r.state = m.state /\ r.sched = m.sched
         \/ r.state = "STARTING"
         \/ m.state = "STARTING" /\ r.state = "ARMED"
  BY <1>1, <1>2, <1>3, <1>4, ReadinessEffect
<1>6. StateMoves(m, r)
  BY <1>5 DEF StateMoves
<1>7. QED
  BY <1>1, <1>4, <1>5, <1>6, CallPerforms

\* The network comes or goes.
LEMMA WifiPerforms ==
  ASSUME IInv, Asked, NEW ready \in BOOLEAN, WifiReadyChanges(ready)
  PROVE  Performed
<1> DEFINE n == [m EXCEPT !.wifiReady = ready]
           r == SetWifiReady(m, ready)
<1>1. /\ Consistent(m) /\ m.out = {} /\ m.running /\ Call(r, ask) /\ m \in Machine
  BY DEF IInv, WifiReadyChanges, Consistent
<1>2. n \in Machine /\ n.state = m.state /\ n.sched = m.sched /\ Silent(m, n)
  BY <1>1, Zenon DEF Machine, Silent
<1>3. r = ReadinessChanged(n, ready)
  BY DEF SetWifiReady
<1>4. Consistent(r)
  BY <1>1, SetWifiReadyConsistent
<1> HIDE DEF n, r
<1>5. /\ Effect(m, r, now) /\ Counts(m, r) /\ \A type : ~Dispatched(r, type)
      /\ \/ r.state = m.state /\ r.sched = m.sched
         \/ r.state = "STARTING"
         \/ m.state = "STARTING" /\ r.state = "ARMED"
  BY <1>1, <1>2, <1>3, <1>4, ReadinessEffect
<1>6. StateMoves(m, r)
  BY <1>5 DEF StateMoves
<1>7. QED
  BY <1>1, <1>4, <1>5, <1>6, CallPerforms

\* A capture request.
LEMMA RequestPerforms ==
  ASSUME IInv, NEW id \in RequestIds, NEW delay \in Delays, NEW autofocus \in BOOLEAN,
         CaptureRequest(id, delay, autofocus)
  PROVE  Performed
<1>1. /\ delay \in Int /\ delay \in 0 .. MaxDelay /\ CanRequestCapture(m, delay)
      /\ Consistent(m) /\ m.out = {} /\ now \in Time
  BY BoundsAssumption DEF CaptureRequest, CanRequestCapture, IInv
<1>2. now + delay # 0
  BY <1>1 DEF Time
<1>3. PICK sink : Call(RequestCapture(m, id, delay, autofocus, now, sink), now + delay)
  BY Zenon DEF CaptureRequest
<1> DEFINE r == RequestCapture(m, id, delay, autofocus, now, sink)
<1>4. Consistent(r)
  BY <1>1, RequestCaptureConsistent
<1>5. /\ Effect(m, r, now)
      /\ CountdownRunning(r) => now + delay <= r.sched.captureDeadline
      /\ CountdownRunning(r) => r.sched.captureDeadline = CaptureTime(now, delay, autofocus)
      /\ ~FocusHeld(r)
      /\ Dispatched(r, "CAPTURE") => delay = 0 /\ ~autofocus
      /\ ~Dispatched(r, "RELEASE_SHUTTER")
  BY <1>1, RequestEffect
<1> HIDE DEF r
<1>6. ASSUME delay = 0, ~autofocus
      PROVE  MayShoot
  <2>1. autofocus = FALSE
    BY <1>6
  <2>2. CaptureRequest(id, 0, FALSE)
    BY <1>6, <2>1, Zenon
  <2>3. QED
    BY <2>2, Zenon DEF MayShoot
<1>7. Leads(r) /\ ask' = IF Waiting(r) THEN now + delay ELSE 0
  BY <1>3, <1>4, CallRecords, ReturnLeads DEF Call, Returns, Consistent, r
<1>8. StateMoves(m, r)
  BY <1>1 DEF StateMoves, CanRequestCapture
<1>9. m.state = "ARMED" /\ Promptly(r)
  BY <1>1, <1>5, RequestTimes DEF Promptly, CanRequestCapture
<1>10. Performs(r, now + delay)
  BY <1>2, <1>4, <1>5, <1>6, <1>7, <1>8, <1>9 DEF Performs
<1>11. QED
  BY <1>10 DEF Performed

\* A cancel, and the end of a focus hold.
LEMMA CancelPerforms ==
  ASSUME IInv, Asked, CancelRequest
  PROVE  Performed
<1>1. Consistent(m) /\ m.out = {} /\ CanCancelCountdown(m)
  BY DEF IInv, CancelRequest
<1>2. PICK sink : Call(CancelCountdown(m, sink), ask)
  BY DEF CancelRequest
<1> DEFINE r == CancelCountdown(m, sink)
<1>3. Consistent(r)
  BY <1>1, CancelCountdownConsistent
<1>4. /\ Effect(m, r, now) /\ Counts(m, r) /\ r.state = "ARMED"
      /\ ~Dispatched(r, "CAPTURE") /\ ~Dispatched(r, "RELEASE_SHUTTER")
  <2> DEFINE told == CancelSentFocus(m, sink)
  <2>1. r = [ClearSchedule(told) EXCEPT !.state = HomeState(told)]
    BY DEF CancelCountdown
  <2>2. told \in {CancelSentFocus(m, sink), CancelAutofocus(m, sink)}
    OBVIOUS
  <2> HIDE DEF r, told
  <2>3. QED
    BY <1>1, <2>1, <2>2, DropEffect DEF CanCancelCountdown
<1>5. StateMoves(m, r)
  BY <1>1, <1>4 DEF StateMoves, CanCancelCountdown, Waiting
<1>6. QED
  BY <1>2, <1>3, <1>4, <1>5, CallPerforms

\* The focus key goes up.
LEMMA UnfocusPerforms ==
  ASSUME IInv, Asked, FocusUp
  PROVE  Performed
<1>1. Consistent(m) /\ m.out = {} /\ CanReleaseFocus(m)
  BY DEF IInv, FocusUp
<1>2. PICK sink : Call(ReleaseFocus(m, sink), ask)
  BY DEF FocusUp
<1> DEFINE r == ReleaseFocus(m, sink)
<1>3. Consistent(r)
  BY <1>1, ReleaseFocusConsistent
<1>4. /\ Effect(m, r, now) /\ Counts(m, r) /\ r.state = "ARMED"
      /\ ~Dispatched(r, "CAPTURE") /\ ~Dispatched(r, "RELEASE_SHUTTER")
  <2> DEFINE told == CancelAutofocus(m, sink)
  <2>1. r = [ClearSchedule(told) EXCEPT !.state = HomeState(told)]
    BY DEF ReleaseFocus
  <2>2. told \in {CancelSentFocus(m, sink), CancelAutofocus(m, sink)}
    OBVIOUS
  <2> HIDE DEF r, told
  <2>3. QED
    BY <1>1, <2>1, <2>2, DropEffect DEF CanReleaseFocus, Waiting
<1>5. StateMoves(m, r)
  BY <1>1, <1>4 DEF StateMoves, CanReleaseFocus, Waiting
<1>6. QED
  BY <1>2, <1>3, <1>4, <1>5, CallPerforms

\* The keys.
LEMMA FocusPerforms ==
  ASSUME IInv, Asked, FocusDown
  PROVE  Performed
<1>1. Consistent(m) /\ m.out = {} /\ CanPressFocus(m)
  BY DEF IInv, FocusDown
<1>2. PICK sink : Call(PressFocus(m, sink), ask)
  BY DEF FocusDown
<1>3. Consistent(PressFocus(m, sink))
  BY <1>1, PressFocusConsistent
<1>4. StateMoves(m, PressFocus(m, sink))
  BY <1>1 DEF StateMoves, CanPressFocus
<1>5. QED
  BY <1>1, <1>2, <1>3, <1>4, PressFocusEffect, CallPerforms

\* The shutter key goes down.
LEMMA PressPerforms ==
  ASSUME IInv, Asked, ShutterDown
  PROVE  Performed
<1>1. Consistent(m) /\ m.out = {} /\ CanPressShutter(m) /\ now \in Time
  BY DEF IInv, ShutterDown
<1>2. PICK sink : Call(PressShutter(m, now, sink), ask)
  BY DEF ShutterDown
<1>3. Consistent(PressShutter(m, now, sink))
  BY <1>1, PressShutterConsistent
<1>4. MayShoot
  BY DEF MayShoot
<1> DEFINE r == PressShutter(m, now, sink)
<1>5. /\ Effect(m, r, now) /\ Counts(m, r)
      /\ ~Dispatched(r, "RELEASE_SHUTTER")
      /\ r.state \in {"CAPTURING", "ERROR"}
  BY <1>1, PressShutterEffect
<1> HIDE DEF r
<1>6. StateMoves(m, r)
  BY <1>1, <1>5 DEF StateMoves, CanPressShutter, CountdownRunning, FocusHeld, Waiting
<1>7. QED
  BY <1>2, <1>3, <1>4, <1>5, <1>6, CallPerforms DEF r

\* The shutter key goes up.
LEMMA LiftPerforms ==
  ASSUME IInv, Shots, Asked, HeldDown, ShutterUp
  PROVE  Performed
<1>1. Consistent(m) /\ m.out = {} /\ now \in Time /\ shot \in Shot
  BY DEF IInv
<1>2. PICK sink : LET r == LiftShutter(m, now, sink)
                  IN  /\ Returns(r, ask)
                      /\ shot' = [Shooting(r) EXCEPT !.lifted = shot.physical /\ shot.down]
  BY Zenon DEF ShutterUp
<1> DEFINE r == LiftShutter(m, now, sink)
           up == shot.physical /\ shot.down
<1>3. Consistent(r)
  BY <1>1, LiftShutterConsistent
<1>4. /\ Effect(m, r, now) /\ Counts(m, r) /\ StateMoves(m, r) /\ ~Dispatched(r, "CAPTURE")
      /\ Dispatched(r, "RELEASE_SHUTTER") => m.state = "CAPTURING" /\ m.sched.physicalCapture
  BY <1>1, LiftShutterEffect
<1>5. Returns(r, ask) /\ shot' = [Shooting(r) EXCEPT !.lifted = up]
  BY <1>2, Zenon
<1>6. up \in BOOLEAN
  BY <1>1 DEF Shot
<1> HIDE DEF r
<1>7. Shooting(r) \in Shot /\ r \in Machine
  BY <1>1, <1>3, ShootingType DEF Consistent
<1>8. shot'.lifted <=> shot.physical /\ shot.down
  <2> HIDE DEF up
  <2>1. shot'.lifted = up
    BY <1>5, <1>7, Zenon DEF Shot
  <2>2. QED
    BY <2>1 DEF up
<1> HIDE DEF up
<1>9. Records(r)
  BY <1>5, <1>6, <1>7, LiftRecords, Zenon
<1>10. m.state = "CAPTURING" /\ m.sched.physicalCapture => MayRelease
  BY <1>8 DEF MayRelease, Shots, HeldDown
<1>11. QED
  BY <1>3, <1>4, <1>5, <1>9, <1>10, ReturnPerforms

\* A tick.
LEMMA TickPerforms ==
  ASSUME IInv, Asked, ServerTick
  PROVE  Performed
<1>1. Consistent(m) /\ m.out = {} /\ now \in Time /\ ask \in Nat /\ m.sched \in Schedule
  BY DEF IInv, Consistent, Machine
<1>2. PICK sink : Call(Tick(m, now, sink), ask)
  BY DEF ServerTick
<1>3. Consistent(Tick(m, now, sink))
  BY <1>1, TickConsistent
<1>4. Waiting(m) /\ now >= m.sched.captureDeadline => MayShoot
  <2>1. Waiting(m) /\ now >= m.sched.captureDeadline =>
          (ask # 0 /\ now >= ask) \/ FocusHeld(m)
    BY <1>1 DEF Waiting, CountdownRunning, FocusHeld, Asked, Schedule, Time
  <2>2. QED
    BY <2>1, Zenon DEF MayShoot
<1>5. m.state = "CAPTURING" /\ now >= m.sched.releaseDeadline => MayRelease
  BY DEF MayRelease
<1>6. QED
  BY <1>1, <1>2, <1>3, <1>4, <1>5, TickEffect, CallPerforms

\* The result of a command.
LEMMA ResultPerforms ==
  ASSUME IInv, Asked, HeldDown, NEW c \in inflight, NEW ok \in BOOLEAN, CommandResult(c, ok)
  PROVE  Performed
<1> DEFINE r == IF ok THEN m ELSE ReportFailure(m, c.id)
<1>1. Consistent(m) /\ m.out = {} /\ c.id \in Nat /\ c.id > 0
  BY DEF IInv, InFlight, CommandId
<1>2. /\ Consistent(r) /\ Effect(m, r, now) /\ Counts(m, r) /\ StateMoves(m, r)
      /\ r.out = {}
      /\ ~ok /\ c.id = m.sched.captureCommandId => r.state # "CAPTURING"
  <2>1. CASE ok
    BY <1>1, <2>1, NothingEffect
  <2>2. CASE ~ok
    BY <1>1, <2>2, ReportFailureConsistent, ReportFailureEffect
  <2>3. QED
    BY <2>1, <2>2
<1>3. r = IF ok THEN m ELSE ReportFailure(m, c.id)
  OBVIOUS
<1> HIDE DEF r
<1>4. \A type : ~Dispatched(r, type)
  BY <1>2 DEF Dispatched
<1>5. ~ok /\ IsLastCapture(c) => r.state # "CAPTURING"
  BY <1>2, <1>4 DEF HeldDown, Effect, Spaced
<1>6. Leads(r) /\ ask' = IF Waiting(r) THEN ask ELSE 0
  BY <1>2, <1>3, <1>5, ResultLeads DEF Consistent
<1>7. CountdownRunning(r) => ask # 0 /\ ask <= r.sched.captureDeadline
  BY <1>2 DEF Asked, Counts
<1>8. Performs(r, ask)
  BY <1>2, <1>4, <1>6, <1>7 DEF Performs
<1>9. QED
  BY <1>8 DEF Performed

\* Every step of Next that is not the session's or the clock's.
LEMMA StepPerforms ==
  ASSUME IInv, Shots, Asked, HeldDown, Next
  PROVE  StartSession \/ StopSession \/ TimePasses \/ Performed
  BY CameraPerforms, WifiPerforms, RequestPerforms, CancelPerforms, UnfocusPerforms,
     FocusPerforms, PressPerforms, LiftPerforms, TickPerforms, ResultPerforms, Zenon DEF Next

-----------------------------------------------------------------------------
(* The invariant with the history.                                         *)

\* nativeStart leaves a new remote, without a job.
LEMMA SessionStarts ==
  ASSUME IInv, StartSession
  PROVE  /\ inflight' = {} /\ now' = now /\ shot' = shot /\ ask' = ask
         /\ m'.state = "STARTING" /\ ~Busy(m)
<1> DEFINE home == HomeState(Constructed)
           s == Start(Constructed)
<1>1. ~Constructed.running /\ home = "STARTING"
  BY DEF Constructed, HomeState, Ready
<1>2. s = [ClearSchedule(Constructed) EXCEPT !.running = TRUE, !.lastError = "", !.state = home]
  BY <1>1 DEF Start
<1>3. Constructed \in Machine
  BY ConstructedConsistent DEF Consistent
<1> HIDE DEF home
<1>4. s.state = home
  BY <1>2, <1>3, Zenon DEF ClearSchedule, Machine
<1>5. ~m.running /\ Active(m)
  BY DEF IInv, Consistent, StartSession
<1>6. QED
  BY <1>1, <1>4, <1>5 DEF StartSession, Active

\* nativeStop leaves a stopped remote and an interrupted shot.
LEMMA SessionStops ==
  ASSUME IInv, StopSession
  PROVE  /\ inflight' = {} /\ now' = now /\ shot'.at = shot.at
         /\ shot'.interrupted <=> shot.at # 0
         /\ m'.state = "STOPPED"
<1> DEFINE c == CancelSentFocus(m, {})
           s == Stop(m, {})
           lost == shot.at # 0
<1>1. /\ m.running /\ m \in Machine /\ shot \in Shot
      /\ m' = [s EXCEPT !.out = {}]
      /\ shot' = [shot EXCEPT !.down = FALSE, !.lifted = FALSE, !.interrupted = lost]
      /\ inflight' = {} /\ now' = now
  BY DEF StopSession, IInv, Consistent
<1>2. s = [ClearSchedule(c) EXCEPT !.running = FALSE, !.state = "STOPPED"]
  BY <1>1 DEF Stop
<1>3. c \in Machine
  BY CancelSentFocusConsistent DEF IInv, Consistent
<1>4. Consistent(s)
  BY <1>1, StopConsistent DEF IInv
<1> HIDE DEF c
<1>5. s.state = "STOPPED"
  BY <1>2, <1>3, Zenon DEF ClearSchedule, Machine
<1> HIDE DEF s, lost
<1>6. m'.state = "STOPPED"
  BY <1>1, <1>4, <1>5, Zenon DEF Consistent, Machine
<1>7. shot'.at = shot.at /\ shot'.interrupted = lost
  BY <1>1, Zenon DEF Shot
<1>8. QED
  BY <1>1, <1>6, <1>7 DEF lost

\* The history of a remote that has not run is empty.
LEMMA HistoryInit == Init => HInv
<1> SUFFICES ASSUME Init PROVE HInv
  OBVIOUS
<1>1. m.state = "STOPPED" /\ shot.at = 0 /\ inflight = {}
  BY DEF Init, Constructed, NoShot
<1>2. Numbered /\ Shots /\ Asked /\ HeldDown
  BY <1>1 DEF Numbered, Shots, Asked, HeldDown, CountdownRunning
<1>3. QED
  BY <1>2, InitInvariant DEF HInv

\* Every step keeps the history in agreement with the object.
LEMMA HistoryStep == HInv /\ [Next]_vars => HInv'
<1> SUFFICES ASSUME HInv, [Next]_vars PROVE HInv'
  OBVIOUS
<1>1. IInv /\ Numbered /\ Shots /\ Asked /\ HeldDown
  BY DEF HInv
<1>2. IInv'
  BY <1>1, StepInvariant
<1>3. Cooldown \in Nat /\ now \in Nat /\ shot.at \in Nat
  BY <1>1, ConfigAssumption DEF IInv, Time, Shot
<1>4. CASE Performed
  <2>1. PICK r, due : Performs(r, due)
    BY <1>4 DEF Performed
  <2>2. Consistent(r) /\ Leads(r) /\ Numbers(m, r) /\ Replaces(m, r) /\ Spaced(m, r, now)
    BY <2>1 DEF Performs, Effect
  <2>3. Numbered'
    BY <1>1, <2>2, NumberedStep
  <2>4. Shots'
    BY <1>1, <2>2, ShotsStep
  <2>5. HeldDown'
    BY <1>1, <2>2, HeldDownStep
  <2>6. Asked'
    <3>1. /\ CountdownRunning(r) => due # 0 /\ due <= r.sched.captureDeadline
          /\ ask' = IF Waiting(r) THEN due ELSE 0
      BY <2>1 DEF Performs
    <3>2. m'.state = r.state /\ m'.sched = r.sched
      BY <2>2 DEF Leads
    <3>3. QED
      BY <3>1, <3>2 DEF Asked, CountdownRunning, Waiting
  <2>7. QED
    BY <1>2, <2>3, <2>4, <2>5, <2>6 DEF HInv
<1>5. CASE StartSession
  <2>1. /\ inflight' = {} /\ now' = now /\ shot' = shot /\ ask' = ask
        /\ m'.state = "STARTING" /\ ~Busy(m)
    BY <1>1, <1>5, SessionStarts
  <2>2. Numbered' /\ Shots' /\ Asked' /\ HeldDown'
    BY <1>1, <2>1 DEF Numbered, Shots, Asked, HeldDown, CountdownRunning, Busy
  <2>3. QED
    BY <1>2, <2>2 DEF HInv
<1>6. CASE StopSession
  <2>1. /\ inflight' = {} /\ now' = now /\ shot'.at = shot.at
        /\ shot'.interrupted <=> shot.at # 0
        /\ m'.state = "STOPPED"
    BY <1>1, <1>6, SessionStops
  <2>2. Numbered' /\ Shots' /\ Asked' /\ HeldDown'
    BY <2>1 DEF Numbered, Shots, Asked, HeldDown, CountdownRunning
  <2>3. QED
    BY <1>2, <2>2 DEF HInv
<1>7. CASE TimePasses
  <2>1. UNCHANGED <<m, inflight, ask, shot>> /\ now' = now + 1
    BY <1>7 DEF TimePasses
  <2>2. Numbered' /\ Asked' /\ HeldDown'
    BY <1>1, <2>1 DEF Numbered, Asked, HeldDown, IsLastCapture, CountdownRunning, Ids
  <2>3. Shots'
    BY <1>1, <1>3, <2>1 DEF Shots, Hold
  <2>4. QED
    BY <1>2, <2>2, <2>3 DEF HInv
<1>8. CASE UNCHANGED vars
  BY <1>1, <1>2, <1>8
  DEF vars, HInv, Numbered, Asked, Shots, HeldDown, IsLastCapture, CountdownRunning, Ids, Hold
<1>9. QED
  BY <1>1, <1>4, <1>5, <1>6, <1>7, <1>8, StepPerforms

\* The history agrees with the object in every reachable state.
THEOREM History == Spec => []HInv
  BY HistoryInit, HistoryStep, PTL DEF Spec

\* What is sent in a step is sent by the method that the step calls.
LEMMA SentByCall ==
  ASSUME HInv, [Next]_vars, NEW type, Sent(type)
  PROVE  \E r, due : Performs(r, due) /\ Dispatched(r, type)
<1>1. IInv /\ Numbered /\ Shots /\ Asked /\ HeldDown
  BY DEF HInv
<1>2. PICK c \in inflight' : c.id >= m.nextCommandId /\ c.type = type
  BY DEF Sent
<1>3. m.nextCommandId \in Nat /\ \A d \in inflight : d.id \in Nat /\ d.id < m.nextCommandId
  BY <1>1, NextId DEF IInv, Consistent, InFlight, CommandId, Numbered
<1>4. c \notin inflight
  BY <1>2, <1>3
<1>5. inflight' # inflight /\ inflight' # {}
  BY <1>2, <1>4
<1>6. ~StartSession /\ ~StopSession /\ ~TimePasses /\ ~UNCHANGED vars
  BY <1>1, <1>5, SessionStarts, SessionStops DEF TimePasses, vars
<1>7. Performed
  BY <1>1, <1>6, StepPerforms
<1>8. PICK r, due : Performs(r, due)
  BY <1>7 DEF Performed
<1>9. c \in Queued(m, r)
  BY <1>2, <1>8 DEF Performs, Leads
<1>10. ASSUME NEW d \in inflight,
              c = [id |-> d.id, type |-> d.type, stale |-> d.stale \/ EndsJob(m, r)]
       PROVE  FALSE
  <2>1. c.id = d.id
    BY <1>10, Zenon
  <2>2. QED
    BY <1>2, <1>3, <2>1
<1>11. PICK d \in r.out : c = [id |-> d.id, type |-> d.type, stale |-> ~Busy(r)]
  BY <1>9, <1>10, Zenon DEF Queued
<1>12. d.type = type
  BY <1>2, <1>11, Zenon
<1>13. QED
  BY <1>8, <1>11, <1>12, Zenon DEF Dispatched

-----------------------------------------------------------------------------
(* The action properties.                                                  *)

\* The result of a command of a job that is over changes nothing.
THEOREM LateResults == Spec => StaleResultsIgnored
<1>1. ASSUME HInv, NEW c \in inflight, NEW ok \in BOOLEAN, c.stale, CommandResult(c, ok)
      PROVE  m' = m
  <2>1. /\ Consistent(m) /\ m.out = {} /\ c.id \in Nat /\ c.id > 0
        /\ c.id \notin Ids(m)
    BY <1>1 DEF HInv, IInv, InFlight, CommandId, Numbered
  <2>2. ReportFailure(m, c.id) = m
    BY <2>1, ReportFailureEffect
  <2>3. QED
    BY <1>1, <2>2, Zenon DEF CommandResult
<1>2. HInv => [\A c \in inflight, ok \in BOOLEAN :
                 c.stale /\ CommandResult(c, ok) => m' = m]_vars
  BY <1>1, Zenon
<1>3. QED
  BY <1>2, History, PTL DEF StaleResultsIgnored

\* Two shots are at least Cooldown apart, unless the first is interrupted.
THEOREM ShotsApart == Spec => CapturesSpaced
<1>1. ASSUME HInv, [Next]_vars, Sent("CAPTURE")
      PROVE  shot.at = 0 \/ shot.interrupted \/ now >= shot.at + Cooldown
  <2>1. PICK r, due : Performs(r, due) /\ Dispatched(r, "CAPTURE")
    BY <1>1, SentByCall
  <2>2. m.state \notin {"CAPTURING", "COOLDOWN"}
    BY <2>1 DEF Performs, Effect, Spaced
  <2>3. QED
    BY <1>1, <2>2 DEF HInv, Shots
<1>2. HInv /\ [Next]_vars =>
        [Sent("CAPTURE") => shot.at = 0 \/ shot.interrupted \/ now >= shot.at + Cooldown]_vars
  BY <1>1, Zenon
<1>3. QED
  BY <1>2, History, PTL DEF Spec, CapturesSpaced

\* A shutter is released while it is down, so once, and only when its hold is over
\* or its key goes up.
THEOREM ReleasesOnTime == Spec => ReleaseOnTime
<1> DEFINE OnTime ==
      /\ shot.down /\ ~shot.interrupted
      /\ now >= shot.at + HoldOf(shot) \/ (shot.physical /\ shot'.lifted)
<1>1. ASSUME HInv, [Next]_vars, Sent("RELEASE_SHUTTER")
      PROVE  OnTime
  <2>1. PICK r, due : Performs(r, due) /\ Dispatched(r, "RELEASE_SHUTTER")
    BY <1>1, SentByCall
  <2>2. MayRelease
    BY <2>1 DEF Performs
  <2>3. /\ m.state = "CAPTURING"
        /\ (now >= m.sched.releaseDeadline) \/ (m.sched.physicalCapture /\ shot'.lifted)
    BY <2>2, Zenon DEF MayRelease
  <2>4. /\ shot.physical = m.sched.physicalCapture
        /\ m.sched.releaseDeadline = shot.at + HoldOf(shot)
        /\ ~shot.interrupted /\ shot.down
    BY <1>1, <2>3 DEF HInv, Shots, HeldDown, Hold, HoldOf
  <2>5. QED
    BY <2>3, <2>4, Zenon
<1>2. HInv /\ [Next]_vars => [Sent("RELEASE_SHUTTER") => OnTime]_vars
  BY <1>1, Zenon
<1>3. QED
  BY <1>2, History, PTL DEF Spec, ReleaseOnTime

\* Every shot is asked for, and not sent before its time.
THEOREM ShotsAsked == Spec => CapturesAsAsked
<1>1. ASSUME HInv, [Next]_vars, Sent("CAPTURE")
      PROVE  MayShoot
  <2>1. PICK r, due : Performs(r, due) /\ Dispatched(r, "CAPTURE")
    BY <1>1, SentByCall
  <2>2. QED
    BY <2>1, Zenon DEF Performs
<1>2. HInv /\ [Next]_vars => [Sent("CAPTURE") => MayShoot]_vars
  BY <1>1, Zenon
<1>3. QED
  BY <1>2, History, PTL DEF Spec, CapturesAsAsked, MayShoot

-----------------------------------------------------------------------------
(* The end of each job.                                                    *)

\* What deadlines are near to: a countdown was never put off, and no shot lies in
\* the future.
Near ==
  /\ CountdownRunning(m) =>
       m.sched.captureDeadline <= now + LongestOf(MaxDelay, ImmediateAutofocusLead)
  /\ shot.at <= now

\* The two longest durations are natural numbers.
LEMMA Longest ==
  /\ LongestOf(MaxDelay, ImmediateAutofocusLead) \in Nat
  /\ LongestOf(WebShutterHold, PhysicalShutterFailsafe) \in Nat
  /\ \A physical : Hold(physical) <= LongestOf(WebShutterHold, PhysicalShutterFailsafe)
  BY ConfigAssumption DEF LongestOf, Hold

\* Nothing is due when the application starts.
LEMMA NearInit == Init => Near
<1> SUFFICES ASSUME Init PROVE Near
  OBVIOUS
<1>1. m.state = "STOPPED" /\ shot.at = 0
  BY DEF Init, Constructed, NoShot
<1>2. now = 1
  BY DEF Init
<1>3. QED
  BY <1>1, <1>2 DEF Near, CountdownRunning

\* A call, the clock and the session leave the deadlines near.
LEMMA NearStep == HInv /\ Near /\ [Next]_vars => Near'
<1> SUFFICES ASSUME HInv, Near, [Next]_vars PROVE Near'
  OBVIOUS
<1>1. /\ IInv /\ Shots /\ Asked /\ HeldDown
      /\ now \in Nat /\ now \in Time /\ shot \in Shot /\ shot.at \in Nat
      /\ m.sched.captureDeadline \in Nat
  BY DEF HInv, IInv, Time, Shot, Consistent, Machine, Schedule
<1>2. CASE Performed
  <2>1. PICK r, due : Performs(r, due)
    BY <1>2 DEF Performed
  <2>2. /\ r \in Machine /\ m'.state = r.state /\ m'.sched = r.sched /\ now' = now
        /\ shot'.at = Shooting(r).at
        /\ Counts(m, r) \/ (m.state = "ARMED" /\ Promptly(r))
    BY <2>1 DEF Performs, Leads, Consistent
  <2>3. shot'.at \in {now, shot.at}
    BY <1>1, <2>2, ShootingFields
  <2>4. CountdownRunning(m') <=> CountdownRunning(r)
    BY <2>2 DEF CountdownRunning
  <2>5. CASE Counts(m, r)
    BY <1>1, <2>2, <2>3, <2>4, <2>5 DEF Near, Counts
  <2>6. CASE Promptly(r)
    BY <1>1, <2>2, <2>3, <2>4, <2>6 DEF Near, Promptly
  <2>7. QED
    BY <2>2, <2>5, <2>6
<1>3. CASE StartSession \/ StopSession
  <2>1. m'.state \in {"STARTING", "STOPPED"} /\ now' = now /\ shot'.at = shot.at
    BY <1>1, <1>3, SessionStarts, SessionStops
  <2>2. QED
    BY <2>1 DEF Near, CountdownRunning
<1>4. CASE TimePasses
  <2>1. m' = m /\ shot' = shot /\ now' = now + 1
    BY <1>4 DEF TimePasses
  <2>2. QED
    BY <1>1, <2>1, Longest DEF Near
<1>5. CASE UNCHANGED vars
  BY <1>5 DEF vars, Near
<1>6. QED
  BY <1>1, <1>2, <1>3, <1>4, <1>5, StepPerforms

\* A tick ends the countdown or the shot whose deadlines are over.
LEMMA TicksEnd == ASSUME IInv PROVE TicksEndJobs
<1>1. Consistent(m) /\ m.out = {} /\ now \in Time
  BY DEF IInv
<1>2. ASSUME CountdownRunning(m), now >= m.sched.captureDeadline, NEW sink
      PROVE  ~Waiting(Tick(m, now, sink))
  <2> DEFINE r == Tick(m, now, sink)
  <2>1. r.state \in {"ERROR", "CAPTURING"}
    BY <1>1, <1>2, TickWaiting DEF Shoots, CountdownRunning, Waiting
  <2>2. QED
    BY <2>1 DEF Waiting
<1>3. ASSUME m.state \in {"CAPTURING", "COOLDOWN"}, Over(m), NEW sink
      PROVE  ~Busy(Tick(m, now, sink))
  BY <1>1, <1>3, TickHolding DEF Over
<1>4. QED
  BY <1>2, <1>3 DEF TicksEndJobs

\* No job waits for more than time and a tick.
THEOREM JobsAreDue == Spec => []JobsFallDue
<1>1. Init => Near
  BY NearInit
<1>2. HInv /\ Near /\ [Next]_vars => Near'
  BY NearStep
<1>3. ASSUME HInv, Near PROVE JobsFallDue
  <2>1. /\ IInv /\ Shots /\ Scheduled(m)
        /\ now \in Nat /\ shot.at \in Nat /\ shot.at <= now
        /\ m.sched.releaseDeadline \in Nat /\ m.sched.cooldownDeadline \in Nat
    BY <1>3 DEF HInv, IInv, Near, Time, Shot, Consistent, Machine, Schedule
  <2>2. CountdownRunning(m) =>
          m.sched.captureDeadline <= now + LongestOf(MaxDelay, ImmediateAutofocusLead)
    BY <1>3 DEF Near
  <2>3. m.sched.releaseDeadline <= now + LongestOf(WebShutterHold, PhysicalShutterFailsafe)
    <3>1. CASE m.state = "CAPTURING"
      <4>1. /\ m.sched.releaseDeadline = shot.at + Hold(shot.physical)
            /\ Hold(shot.physical) \in Nat
        BY <2>1, <3>1, ConfigAssumption DEF Shots, Hold
      <4>2. QED
        BY <2>1, <4>1, Longest
    <3>2. CASE m.state # "CAPTURING"
      BY <2>1, <3>2, Longest DEF Scheduled
    <3>3. QED
      BY <3>1, <3>2
  <2>4. m.sched.cooldownDeadline <= now + Cooldown
    BY <2>1, ConfigAssumption DEF Shots, Scheduled
  <2>5. QED
    BY <2>1, <2>2, <2>3, <2>4, TicksEnd DEF JobsFallDue, DeadlinesAreNear
<1>4. QED
  BY <1>1, <1>2, <1>3, History, PTL DEF Spec

\* No call puts off the job that runs.
THEOREM JobsKeepTheirTime == Spec => JobsAreNotProlonged
<1> DEFINE Kept ==
      /\ CountdownRunning(m) /\ Waiting(m)' =>
           /\ CountdownRunning(m)'
           /\ m.sched.captureDeadline' = m.sched.captureDeadline
      /\ m.state \in {"CAPTURING", "COOLDOWN"} /\ Busy(m)' =>
           /\ ~Waiting(m)'
           /\ m.sched.cooldownDeadline' = m.sched.cooldownDeadline
           /\ m.sched.releaseDeadline' \in {m.sched.releaseDeadline, 0}
<1>1. ASSUME HInv, [Next]_vars PROVE Kept
  <2>1. CASE Performed
    <3>1. PICK r, due : Performs(r, due)
      BY <2>1 DEF Performed
    <3>2. /\ m'.state = r.state /\ m'.sched = r.sched
          /\ Scheduled(r) /\ r.sched.releaseDeadline \in Nat /\ StateMoves(m, r) /\ Spaced(m, r, now)
          /\ Counts(m, r) \/ m.state = "ARMED"
      BY <3>1 DEF Performs, Leads, Consistent, Effect, Machine, Schedule
    <3>3. ASSUME CountdownRunning(m), Waiting(r)
          PROVE  /\ CountdownRunning(r)
                 /\ r.sched.captureDeadline = m.sched.captureDeadline
      <4>1. CountdownRunning(r)
        BY <3>2, <3>3 DEF StateMoves, CountdownRunning, Waiting
      <4>2. Counts(m, r)
        BY <3>2, <3>3 DEF CountdownRunning
      <4>3. QED
        BY <4>1, <4>2 DEF Counts
    <3>4. ASSUME m.state \in {"CAPTURING", "COOLDOWN"}, Busy(r)
          PROVE  /\ r.state \in {"CAPTURING", "COOLDOWN"}
                 /\ r.sched.cooldownDeadline = m.sched.cooldownDeadline
                 /\ r.sched.releaseDeadline \in {m.sched.releaseDeadline, 0}
      <4>1. r.state \in {"CAPTURING", "COOLDOWN"}
        BY <3>2, <3>4 DEF StateMoves, Busy, CountdownRunning, Waiting
      <4>2. ~Dispatched(r, "CAPTURE")
        BY <3>2, <3>4 DEF Spaced
      <4>3. r.state = "COOLDOWN" => r.sched.releaseDeadline = 0
        BY <3>2 DEF Scheduled
      <4>4. QED
        BY <3>2, <4>1, <4>2, <4>3 DEF Spaced
    <3>5. QED
      BY <3>2, <3>3, <3>4 DEF Busy, Waiting, CountdownRunning
  <2>2. CASE StartSession \/ StopSession
    <3>1. m'.state \in {"STARTING", "STOPPED"}
      BY <1>1, <2>2, SessionStarts, SessionStops DEF HInv
    <3>2. QED
      BY <3>1 DEF Waiting, Busy
  <2>3. CASE m' = m
    BY <2>3 DEF Waiting, Busy, CountdownRunning
  <2>4. QED
    BY <1>1, <2>1, <2>2, <2>3, StepPerforms DEF HInv, TimePasses, vars
<1>2. HInv /\ [Next]_vars => [Kept]_vars
  BY <1>1, Zenon
<1>3. QED
  BY <1>2, History, PTL DEF Spec, JobsAreNotProlonged

\* What JobsEnd promises of single steps: deadlines are near and stay, and a tick
\* ends what is over.
THEOREM JobsOnTime == Spec => JobsAreOnTime
  BY JobsAreDue, JobsKeepTheirTime, PTL DEF JobsAreOnTime

-----------------------------------------------------------------------------
(* The remote implements Shutter.                                          *)

\* The phase of each state.
LEMMA PhaseTable ==
  ASSUME NEW mm \in Machine
  PROVE  /\ mm.state = "STOPPED" => PhaseOf(mm) = "off"
         /\ mm.state = "STARTING" => PhaseOf(mm) = "unready"
         /\ mm.state = "ARMED" => PhaseOf(mm) = "armed"
         /\ CountdownRunning(mm) => PhaseOf(mm) = "pending"
         /\ FocusHeld(mm) => PhaseOf(mm) = "held"
         /\ mm.state \in {"CAPTURING", "COOLDOWN"} => PhaseOf(mm) = "shooting"
         /\ mm.state = "ERROR" => PhaseOf(mm) = "error"
         /\ \/ mm.state \in {"STOPPED", "STARTING", "ARMED", "CAPTURING", "COOLDOWN", "ERROR"}
            \/ CountdownRunning(mm) \/ FocusHeld(mm)
  BY DEF PhaseOf, CountdownRunning, FocusHeld, Machine, RemoteState

\* The moves between phases that the calls make.
PhaseMoves(p, q) ==
  \/ q = p
  \/ q \in {"off", "unready"}
  \/ p = "unready" /\ q = "armed"
  \/ p = "armed" /\ q \in {"pending", "held", "shooting", "error"}
  \/ p \in {"pending", "held"} /\ q \in {"armed", "shooting", "error"}
  \/ p = "shooting" /\ q \in {"armed", "error"}

\* What a call does to the state, it does to the phase.
LEMMA PhaseStep ==
  ASSUME NEW mm \in Machine, NEW r \in Machine, StateMoves(mm, r)
  PROVE  PhaseMoves(PhaseOf(mm), PhaseOf(r)) /\ PhaseOf(mm) \in Abstract!Phase
<1> DEFINE p == PhaseOf(mm)
           q == PhaseOf(r)
<1>1. /\ mm.state = "STOPPED" => p = "off"
      /\ mm.state = "STARTING" => p = "unready"
      /\ mm.state = "ARMED" => p = "armed"
      /\ CountdownRunning(mm) => p = "pending"
      /\ FocusHeld(mm) => p = "held"
      /\ mm.state \in {"CAPTURING", "COOLDOWN"} => p = "shooting"
      /\ mm.state = "ERROR" => p = "error"
      /\ \/ mm.state \in {"STOPPED", "STARTING", "ARMED", "CAPTURING", "COOLDOWN", "ERROR"}
         \/ CountdownRunning(mm) \/ FocusHeld(mm)
  BY PhaseTable
<1>2. /\ r.state = "STOPPED" => q = "off"
      /\ r.state = "STARTING" => q = "unready"
      /\ r.state = "ARMED" => q = "armed"
      /\ CountdownRunning(r) => q = "pending"
      /\ FocusHeld(r) => q = "held"
      /\ r.state \in {"CAPTURING", "COOLDOWN"} => q = "shooting"
      /\ r.state = "ERROR" => q = "error"
      /\ \/ r.state \in {"STOPPED", "STARTING", "ARMED", "CAPTURING", "COOLDOWN", "ERROR"}
         \/ CountdownRunning(r) \/ FocusHeld(r)
  BY PhaseTable
<1> HIDE DEF p, q
<1>3. p \in Abstract!Phase
  BY <1>1 DEF Abstract!Phase
<1>4. PhaseMoves(p, q)
  <2>1. CASE mm.state = r.state /\ mm.state # "FOCUSING"
    BY <1>1, <1>2, <2>1 DEF PhaseMoves, CountdownRunning, FocusHeld
  <2>2. CASE mm.state = r.state /\ mm.state = "FOCUSING"
    BY <1>1, <1>2, <2>2 DEF StateMoves, PhaseMoves, CountdownRunning, FocusHeld, Waiting
  <2>3. CASE mm.state # r.state
    BY <1>1, <1>2, <2>3 DEF StateMoves, PhaseMoves, CountdownRunning, FocusHeld, Waiting
  <2>4. QED
    BY <2>1, <2>2, <2>3
<1>5. QED
  BY <1>3, <1>4 DEF p, q

\* Those moves are the moves of Shutter.
LEMMA ShutterStep ==
  ASSUME PhaseOf(m) \in Abstract!Phase, PhaseMoves(PhaseOf(m), PhaseOf(m'))
  PROVE  [Abstract!PhaseNext]_(PhaseOf(m))
<1> DEFINE p == PhaseOf(m)
<1>1. p' = PhaseOf(m')
  OBVIOUS
<1>2. p \in Abstract!Phase /\ PhaseMoves(p, p')
  BY <1>1
<1>3. p' = p \/ Abstract!PhaseNext
  BY <1>2
  DEF PhaseMoves, Abstract!Phase, Abstract!PhaseNext, Abstract!Moves, Abstract!Begin,
      Abstract!End, Abstract!Unready, Abstract!Ready, Abstract!Request, Abstract!Cancel,
      Abstract!Hold, Abstract!Unhold, Abstract!Press, Abstract!Elapse, Abstract!Fails
<1>4. QED
  BY <1>3

\* Every step of the remote is a step of Shutter or leaves the phase.
THEOREM Refinement == Spec => ImplementsShutter
<1>1. Init => Abstract!PhaseInit
  <2> SUFFICES ASSUME Init PROVE PhaseOf(m) = "off"
    BY DEF Abstract!PhaseInit
  <2>1. m \in Machine /\ m.state = "STOPPED"
    BY InitInvariant DEF IInv, Consistent, Init, Constructed
  <2>2. QED
    BY <2>1, PhaseTable
<1>2. ASSUME HInv, [Next]_vars
      PROVE  [Abstract!PhaseNext]_(PhaseOf(m))
  <2>1. IInv /\ Shots /\ Asked /\ HeldDown /\ m \in Machine
    BY <1>2 DEF HInv, IInv, Consistent
  <2>2. m' \in Machine
    BY <1>2, <2>1, StepInvariant DEF IInv, Consistent
  <2>3. CASE StateMoves(m, m')
    BY <2>1, <2>2, <2>3, PhaseStep, ShutterStep
  <2>4. CASE Performed
    <3>1. PICK r, due : Performs(r, due)
      BY <2>4 DEF Performed
    <3>2. StateMoves(m, r) /\ m'.state = r.state /\ m'.sched = r.sched
      BY <3>1 DEF Performs, Leads
    <3>3. StateMoves(m, m')
      BY <3>2 DEF StateMoves, CountdownRunning
    <3>4. QED
      BY <2>3, <3>3
  <2>5. CASE StartSession \/ StopSession
    <3>1. m'.state \in {"STARTING", "STOPPED"}
      BY <2>1, <2>5, SessionStarts, SessionStops
    <3>2. QED
      BY <2>3, <3>1 DEF StateMoves
  <2>6. CASE TimePasses \/ UNCHANGED vars
    <3>1. m' = m
      BY <2>6 DEF TimePasses, vars
    <3>2. QED
      BY <2>3, <3>1 DEF StateMoves
  <2>7. QED
    BY <1>2, <2>1, <2>4, <2>5, <2>6, StepPerforms
<1>3. HInv /\ [Next]_vars => [Abstract!PhaseNext]_(PhaseOf(m))
  BY <1>2
<1>4. QED
  BY <1>1, <1>3, History, PTL DEF Spec, ImplementsShutter, Abstract!PhaseSpec
=============================================================================
