----------------------------- MODULE SonyCamera ------------------------------
(***************************************************************************)
(* SonyCameraController.java, as the activity uses it: the readiness of    *)
(* the camera, and the way of each shot to a thumbnail.  A shot is shown   *)
(* by the JPEG that the camera's framework hands out, at some time or      *)
(* never; after a timeout by a frame of the live view instead.             *)
(*                                                                         *)
(* Commands, callbacks, timers and the surface all come by the main        *)
(* thread; each is one action.  Thumbnails are made by the thread of a     *)
(* pool, at most one at a time and one waiting; every session has its own  *)
(* pool.  Timers may fire in any order, which includes the order of their  *)
(* times.  The framework is external: any of its calls may throw, and none *)
(* has to, not even to start a preview on a surface that is gone: stop()   *)
(* takes the surface callback away, so what the controller believes of the *)
(* surface is stale after a pause until the surface is created again.      *)
(*                                                                         *)
(* Bound for TLC: MaxGeneration.                                           *)
(***************************************************************************)
EXTENDS Integers, Sequences

CONSTANT MaxGeneration

ASSUME CameraAssumption == MaxGeneration \in Nat

VARIABLES
  exists,    \* there is a surface
  surface,   \* surfaceAvailable
  active,    \* active
  camera,    \* cameraEx is open
  preview,   \* previewStarted
  started,   \* the activity's nativeStarted
  ready,     \* what the native runtime knows of the camera
  release,   \* a RELEASE_SHUTTER is to come
  capture,   \* captureGeneration
  fallback,  \* fallbackGeneration
  timers,    \* the runnables that wait for the deadline, by generation
  oneShot,   \* the generation of the one-shot preview callback, or 0
  jpegs,     \* the shots whose JPEG may still come
  session,   \* counts the sessions by their first generation
  waiting,   \* the queue of the session's pool
  running,   \* the thumbnails in the making, in every pool
  thumbnail, \* the thumbnail that the runtime retains
  owed,      \* history: the latest shot while an answer to it is owed
  late       \* history: a JPEG of an earlier shot came after the latest shot

device == <<exists, surface, active, camera, preview, started, ready, release>>
shots  == <<capture, fallback, timers, oneShot, jpegs, session>>
work   == <<waiting, running, thumbnail, owed>>
vars   == <<device, shots, work, late>>

Generation == 0 .. MaxGeneration

Task == [shot : Generation, source : {"captured", "live view"}, session : Generation]

None == [shot |-> 0, source |-> "captured", session |-> 0]

Init ==
  /\ exists = FALSE /\ surface = FALSE /\ active = FALSE /\ camera = FALSE
  /\ preview = FALSE /\ started = FALSE /\ ready = FALSE /\ release = FALSE
  /\ capture = 0 /\ fallback = 0 /\ timers = {} /\ oneShot = 0 /\ jpegs = {}
  /\ session = 0 /\ waiting = <<>> /\ running = {} /\ thumbnail = None /\ owed = 0
  /\ late = FALSE

-----------------------------------------------------------------------------
(* Publications: onCameraPreview(), with a thumbnail or an error. *)

Settled(shot) == IF shot >= owed THEN 0 ELSE owed

PublishError(shot) ==
  /\ owed' = Settled(shot)
  /\ UNCHANGED <<waiting, running, thumbnail>>

\* submitPreviewTask().
Submit(task) ==
  IF ~\E t \in running : t.session = session
  THEN running' = running \cup {task} /\ UNCHANGED <<waiting, thumbnail, owed>>
  ELSE IF waiting = <<>>
  THEN waiting' = <<task>> /\ UNCHANGED <<running, thumbnail, owed>>
  ELSE PublishError(task.shot)

\* The end of a task: processJpeg() publishes a thumbnail or an error.  The
\* activity drops both without a native session.
Work(task) ==
  /\ thumbnail' \in IF started THEN {task, thumbnail} ELSE {thumbnail}
  /\ owed' = IF started /\ task.session = session THEN Settled(task.shot) ELSE owed
  /\ IF task.session = session /\ waiting # <<>>
     THEN running' = (running \ {task}) \cup {Head(waiting)} /\ waiting' = Tail(waiting)
     ELSE running' = running \ {task} /\ UNCHANGED waiting
  /\ UNCHANGED <<device, shots, late>>

-----------------------------------------------------------------------------
(* The activity and the surface. *)

\* startPreview(), of a camera with a surface, so far as the controller knows.
Previews == camera' /\ surface'

\* What onResume() tells the native runtime.  The camera starts before it.
\* Mutant: it is not told again.
ToldMutant == FALSE
Told == started' /\ preview'

\* onResume().
Resume ==
  /\ ~active /\ capture < MaxGeneration
  /\ active' = TRUE
  /\ camera' \in BOOLEAN /\ started' \in BOOLEAN /\ preview' \in BOOLEAN
  /\ UNCHANGED <<exists, surface, release>>
  /\ preview' => Previews
  /\ ready' = Told
  /\ session' = capture + 1 /\ capture' = capture + 1
  /\ thumbnail' = IF started' THEN None ELSE thumbnail
  /\ UNCHANGED <<fallback, timers, oneShot, jpegs, waiting, running, owed, late>>

\* onPause(): nativeStop(), and then stop().  What runs in the pool runs on.
Pause ==
  /\ active /\ capture < MaxGeneration
  /\ active' = FALSE /\ camera' = FALSE /\ preview' = FALSE
  /\ started' = FALSE /\ ready' = FALSE /\ release' = FALSE
  /\ capture' = capture + 1 /\ fallback' = 0 /\ timers' = {}
  /\ oneShot' = 0 /\ jpegs' = {}
  /\ waiting' = <<>> /\ owed' = 0 /\ late' = FALSE
  /\ thumbnail' = None
  /\ UNCHANGED <<exists, surface, session, running>>

\* surfaceCreated(), which only an active controller is told.
SurfaceCreated ==
  /\ ~exists /\ exists' = TRUE
  /\ surface' = (surface \/ active)
  /\ UNCHANGED camera
  /\ preview' \in {preview, TRUE}
  /\ preview' # preview => active /\ Previews
  /\ ready' = (ready \/ (started /\ preview'))
  /\ owed' = 0
  /\ UNCHANGED <<active, started, release, shots, waiting, running, thumbnail, late>>

LosesSurface == active /\ surface' = FALSE /\ preview' = FALSE /\ ready' = FALSE

SurfaceDestroyed ==
  /\ exists /\ exists' = FALSE
  /\ LosesSurface \/ (~active /\ UNCHANGED <<surface, preview, ready>>)
  /\ owed' = 0
  /\ UNCHANGED <<active, camera, started, release, shots, waiting, running, thumbnail, late>>

-----------------------------------------------------------------------------
(* Commands, as far as they succeed: what throws changes nothing. *)

\* takePicture() and scheduleFallback().  The shot ends the preview, and the
\* one-shot callback may be lost with it.  Nobody asks for a running preview.
Capture ==
  /\ active /\ camera /\ started /\ capture < MaxGeneration
  /\ preview' = FALSE /\ release' = TRUE
  /\ capture' = capture + 1
  /\ fallback' = capture'
  /\ timers' = timers \cup {[generation |-> capture', pending |-> FALSE]}
  /\ oneShot' \in {oneShot, 0}
  /\ jpegs' = jpegs \cup {capture'}
  /\ owed' = capture' /\ late' = FALSE
  /\ UNCHANGED <<exists, surface, active, camera, started, ready, session>>
  /\ UNCHANGED <<waiting, running, thumbnail>>

\* requestPendingFallback().
\* Mutant: it is left out.
PendingMutant == {}

Pending ==
  IF fallback # 0 /\ fallback = capture
  THEN {[generation |-> fallback, pending |-> TRUE]} ELSE {}

\* restartPreviewIfRequired(), also when it fails: then the command does.
ReleaseShutter ==
  /\ active /\ release
  /\ release' = FALSE
  /\ UNCHANGED <<exists, surface, camera>>
  /\ \/ preview /\ UNCHANGED <<preview, ready, timers, owed>>
     \/ /\ ~preview /\ Previews
        /\ preview' = TRUE /\ ready' = started
        /\ timers' = timers \cup Pending
        /\ UNCHANGED owed
     \/ /\ ~preview
        /\ owed' = 0
        /\ UNCHANGED <<preview, ready, timers>>
  /\ UNCHANGED <<active, started, capture, fallback, oneShot, jpegs, session>>
  /\ UNCHANGED <<waiting, running, thumbnail, late>>

\* The native runtime drops the shot without its release: it has lost the
\* readiness of camera or network in the hold, or the command was refused.
\* Nothing restarts the preview of that shot then.
ReleaseForgotten ==
  /\ active /\ release
  /\ release' = FALSE
  /\ owed' = 0
  /\ UNCHANGED <<exists, surface, active, camera, preview, started, ready, shots>>
  /\ UNCHANGED <<waiting, running, thumbnail, late>>

-----------------------------------------------------------------------------
(* Timers and callbacks. *)

\* The two runnables, which do the same: requestLiveViewFallback().
Timer(t) ==
  LET g == t.generation
  IN  /\ timers' = timers \ {t}
      /\ \/ /\ active /\ preview /\ fallback = g
            /\ \/ oneShot' = g /\ UNCHANGED fallback /\ UNCHANGED work
               \/ fallback' = 0 /\ UNCHANGED oneShot /\ PublishError(g)
         \/ ~(active /\ preview /\ fallback = g) /\ UNCHANGED <<oneShot, fallback, work>>
      /\ UNCHANGED <<device, capture, jpegs, session, late>>

\* onPreviewFrame().
\* Mutant: the fallback may have been settled.
WantedMutant(g) == TRUE
Wanted(g) == fallback = g

Frame ==
  /\ active /\ preview /\ oneShot # 0
  /\ oneShot' = 0
  /\ \/ /\ Wanted(oneShot)
        /\ fallback' = 0
        /\ Submit([shot |-> oneShot, source |-> "live view", session |-> session])
     \/ ~Wanted(oneShot) /\ UNCHANGED <<fallback, work>>
  /\ UNCHANGED <<device, capture, timers, jpegs, session, late>>

\* handleCapturedJpeg(), with a picture or an empty one.
Jpeg(shot) ==
  /\ active /\ jpegs' = {later \in jpegs : later > shot}
  /\ fallback' = 0
  /\ \/ Submit([shot |-> shot, source |-> "captured", session |-> session])
     \/ PublishError(shot)
  /\ late' = (late \/ shot < capture)
  /\ UNCHANGED <<device, capture, timers, oneShot, session>>

SomeTimer == \E t \in timers : Timer(t)
SomeWork == \E task \in running : Work(task)

Next ==
  \/ Resume \/ Pause
  \/ SurfaceCreated \/ SurfaceDestroyed
  \/ Capture \/ ReleaseShutter \/ ReleaseForgotten
  \/ SomeTimer \/ Frame \/ SomeWork
  \/ \E shot \in jpegs : Jpeg(shot)

Spec == Init /\ [][Next]_vars

\* A shot is released or forgotten in the end (ShutterIsReleased of
\* RemoteControl); timers fire, the preview has frames and the pool works.  No
\* JPEG has to come.
FairSpec ==
  /\ Spec
  /\ WF_vars(ReleaseShutter \/ ReleaseForgotten) /\ WF_vars(SomeTimer) /\ WF_vars(Frame)
  /\ WF_vars(SomeWork)
-----------------------------------------------------------------------------
(* Properties. *)

\* Types; the pool has one task at work and at most one waiting.
TypeOK ==
  /\ {exists, surface, active, camera, preview, started, ready, release, late} \subseteq BOOLEAN
  /\ {capture, fallback, oneShot, session, owed} \subseteq Generation
  /\ timers \subseteq [generation : Generation, pending : BOOLEAN]
  /\ jpegs \subseteq Generation
  /\ waiting \in Seq(Task) /\ Len(waiting) <= 1
  /\ running \subseteq Task
  /\ \A t, u \in running : t.session = u.session => t = u
  /\ thumbnail \in Task \cup {None}

\* The native runtime knows of a running preview, however resume and surface
\* follow each other, and it never takes a camera for ready that is closed,
\* belongs to no session or has no surface, so far as the controller knows: a
\* surface lost in a pause is missed until it is created again.
ReadinessAgrees ==
  /\ started /\ preview => ready
  /\ ready => started /\ active /\ camera /\ surface

\* The live view is the last resort: it never takes the place of the picture
\* of the same shot, nor of a later one of its session.
LiveViewIsLastResort ==
  [][thumbnail' # thumbnail /\ thumbnail'.source = "live view" =>
       thumbnail.session # thumbnail'.session \/ thumbnail.shot < thumbnail'.shot]_vars

\* A shot is answered by a thumbnail or an error, of itself or of a later
\* shot: also if no JPEG ever comes.  The exceptions are a shot whose release
\* never comes or does not bring the preview back, a surface that is lost or
\* created meanwhile and the end of the session, which settle "owed" without an
\* answer, and a JPEG of an earlier shot that comes after this one.
ShotAnswered == owed # 0 ~> owed = 0 \/ late
=============================================================================
