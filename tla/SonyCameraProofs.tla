--------------------------- MODULE SonyCameraProofs --------------------------
(***************************************************************************)
(* Proofs about SonyCamera, for any number of shots and sessions.          *)
(***************************************************************************)
EXTENDS SonyCamera, SequenceTheorems, TLAPS

Types ==
  /\ exists \in BOOLEAN /\ surface \in BOOLEAN /\ active \in BOOLEAN /\ camera \in BOOLEAN
  /\ preview \in BOOLEAN /\ started \in BOOLEAN /\ ready \in BOOLEAN
  /\ capture \in Generation /\ fallback \in Generation /\ oneShot \in Generation
  /\ session \in Generation
  /\ jpegs \subseteq Generation
  /\ waiting \in Seq(Task) /\ Len(waiting) <= 1
  /\ running \subseteq Task
  /\ thumbnail \in Task \cup {None}

\* A running preview has all it needs, and belongs to an active controller.
Device ==
  /\ preview => active /\ camera /\ surface
  /\ started => active
  /\ ReadinessAgrees

Waits == {waiting[i] : i \in DOMAIN waiting}

\* The pool of this session, and those of earlier ones, which have one photo
\* left and have not published it yet.
Pools ==
  /\ session <= capture /\ (active => session > 0)
  /\ ~active => Waits = {}
  /\ Waits # {} => \E t \in running : t.session = session
  /\ \A t \in Waits : t.session = session /\ t.session > 0 /\ t.shot <= capture
  /\ \A t \in running : t.session > 0 /\ t.session <= session /\ t.shot <= capture
  /\ \A t, u \in running : t.session = u.session => t = u
  /\ thumbnail.session <= session /\ thumbnail.shot <= capture
  /\ ~active => thumbnail = None
  /\ \A t \in running : t.session = session \/ thumbnail.session # t.session

\* The fallback of a shot is wanted as long as nothing is known of the shot,
\* and of no later one.
Fallback ==
  /\ fallback # 0 => active /\ fallback = capture
  /\ fallback # 0 =>
       /\ \A t \in running \cup Waits : t.session = session => t.shot < fallback
       /\ thumbnail.session = session => thumbnail.shot < fallback

\* A frame of the live view is newer than what was published or will be before.
Ordered ==
  /\ \A t \in running \cup Waits :
       t.source = "live view" /\ thumbnail.session = t.session => thumbnail.shot < t.shot
  /\ \A t \in running, u \in Waits :
       u.source = "live view" /\ t.session = session => t.shot < u.shot

\* Only shots that were taken have a JPEG.
Taken == \A shot \in jpegs : shot <= capture

IInv == Types /\ Device /\ Pools /\ Fallback /\ Ordered

-----------------------------------------------------------------------------
(* The queue. *)

\* The queue of a pool is empty or holds one task.
LEMMA Queue ==
  ASSUME NEW S, NEW q \in Seq(S), Len(q) <= 1
  PROVE  q = <<>> \/ \E w \in S : q = <<w>>
<1>1. Len(q) \in Nat  OBVIOUS
<1>2. CASE Len(q) = 0
  BY <1>2
<1>3. CASE Len(q) = 1
  <2>1. q[1] \in S
    BY <1>3
  <2>2. PICK w \in S : w = q[1]
    BY <2>1
  <2>3. q = <<w>>
    BY <1>3, <2>2
  <2> QED  BY <2>3
<1>4. PICK n \in Nat : n = Len(q)
  BY <1>1
<1>5. n <= 1
  BY <1>4
<1>6. n = 0 \/ n = 1
  BY <1>5
<1> QED  BY <1>2, <1>3, <1>4, <1>6

\* What waits, in either case.
LEMMA WaitsOf ==
  /\ waiting = <<>> => Waits = {}
  /\ \A w : waiting = <<w>> => Waits = {w}
<1>1. waiting = <<>> => Waits = {}
  BY DEF Waits
<1>2. ASSUME NEW w, waiting = <<w>>
      PROVE  Waits = {w}
  <2>1. DOMAIN waiting = {1} /\ waiting[1] = w
    BY <1>2
  <2> QED  BY <2>1 DEF Waits
<1> QED  BY <1>1, <1>2

LEMMA WaitsNext ==
  /\ waiting' = <<>> => Waits' = {}
  /\ \A w : waiting' = <<w>> => Waits' = {w}
  /\ waiting' = waiting => Waits' = Waits
<1>1. waiting' = <<>> => Waits' = {}
  BY DEF Waits
<1>2. ASSUME NEW w, waiting' = <<w>>
      PROVE  Waits' = {w}
  <2>1. DOMAIN waiting' = {1} /\ waiting'[1] = w
    BY <1>2
  <2> QED  BY <2>1 DEF Waits
<1>3. waiting' = waiting => Waits' = Waits
  BY DEF Waits
<1> QED  BY <1>1, <1>2, <1>3

LEMMA NoWaits ==
  ASSUME waiting \in Seq(Task), Len(waiting) <= 1, Waits = {}
  PROVE  waiting = <<>>
<1>1. ASSUME NEW w, waiting = <<w>>
      PROVE  FALSE
  BY <1>1, WaitsOf
<1> QED  BY <1>1, Queue

LEMMA Short ==
  /\ <<>> \in Seq(Task) /\ Len(<<>>) <= 1
  /\ \A t \in Task : <<t>> \in Seq(Task) /\ Len(<<t>>) <= 1
OBVIOUS

LEMMA WaitsTyped == Types => Waits \subseteq Task
BY DEF Types, Waits

LEMMA NoneTyped == None \in Task /\ None.session = 0 /\ None.shot = 0 /\ None.source = "captured"
BY CameraAssumption DEF None, Task, Generation

LEMMA Reflexive == \A n \in Nat : n <= n
OBVIOUS

LEMMA TaskFields ==
  ASSUME NEW t \in Task
  PROVE  t.shot \in Nat /\ t.session \in Nat
<1>1. t.shot \in Generation /\ t.session \in Generation
  BY DEF Task
<1> QED  BY <1>1, CameraAssumption DEF Generation
\* What is settled stays as it is.
LEMMA Untouched ==
  ASSUME UNCHANGED <<active, capture, session, waiting, running, thumbnail>>
  PROVE  /\ (Pools => Pools') /\ (Ordered => Ordered')
         /\ Waits' = Waits
         /\ (Fallback /\ fallback' \in {fallback, 0} => Fallback')
<1>1. Waits' = Waits
  BY WaitsNext
<1>2. Pools => Pools'
  BY <1>1 DEF Pools
<1>3. Ordered => Ordered'
  BY <1>1 DEF Ordered
<1>4. Fallback /\ fallback' \in {fallback, 0} => Fallback'
  BY <1>1 DEF Fallback
<1> QED  BY <1>1, <1>2, <1>3, <1>4

\* A task that is submitted and, if it is a frame, newer than all others.
LEMMA SubmitInv ==
  ASSUME Types, Pools, Ordered, active, NEW task \in Task,
         task.session = session, task.shot <= capture,
         UNCHANGED <<active, capture, session>>, Submit(task),
         task.source = "live view" =>
           /\ \A t \in running \cup Waits : t.session = session => t.shot < task.shot
           /\ thumbnail.session = session => thumbnail.shot < task.shot
  PROVE  /\ waiting' \in Seq(Task) /\ Len(waiting') <= 1 /\ running' \subseteq Task
         /\ thumbnail' = thumbnail /\ Pools' /\ Ordered'
<1>1. active' /\ capture' = capture /\ session' = session
  BY Zenon
<1>2. session > 0 /\ session <= capture
  BY DEF Pools
<1>3. task.session \in Nat /\ task.shot \in Nat
  BY TaskFields
<1>4. task.session = session /\ task.shot <= capture
  BY Zenon
<1>5. CASE /\ ~\E t \in running : t.session = session
           /\ running' = running \cup {task} /\ UNCHANGED <<waiting, thumbnail, owed>>
  <2>2. Waits = {} /\ Waits' = {}
    BY <1>5, WaitsNext DEF Pools
  <2>3. Pools'
    <3>1. session' <= capture' /\ session' > 0 /\ active'
      BY <1>1, <1>2
    <3>2. \A t \in running' : t.session > 0 /\ t.session <= session' /\ t.shot <= capture'
      <4>1. task.session > 0 /\ task.session <= session /\ task.shot <= capture
        BY <1>2, <1>3, <1>4, Reflexive, Zenon
      <4>2. \A t \in running : t.session > 0 /\ t.session <= session /\ t.shot <= capture
        BY DEF Pools
      <4> QED  BY <1>1, <1>5, <4>1, <4>2
    <3>3. \A t, u \in running' : t.session = u.session => t = u
      BY <1>5 DEF Pools
    <3>4. thumbnail'.session <= session' /\ thumbnail'.shot <= capture'
      BY <1>1, <1>5 DEF Pools
    <3>5. \A t \in running' : t.session = session' \/ thumbnail'.session # t.session
      BY <1>1, <1>5 DEF Pools
    <3> QED  BY <2>2, <3>1, <3>2, <3>3, <3>4, <3>5 DEF Pools
  <2>4. Ordered'
    BY <1>1, <1>5, <2>2 DEF Ordered
  <2> QED  BY <1>5, <2>3, <2>4 DEF Types
<1>6. CASE /\ \E t \in running : t.session = session
           /\ waiting = <<>>
           /\ waiting' = <<task>> /\ UNCHANGED <<running, thumbnail, owed>>
  <2>1. Waits = {} /\ Waits' = {task}
    BY <1>6, WaitsOf, WaitsNext
  <2>2. Pools'
    <3>1. session' <= capture' /\ session' > 0 /\ active'
      BY <1>1, <1>2
    <3>2. \A t \in running' : t.session > 0 /\ t.session <= session' /\ t.shot <= capture'
      BY <1>1, <1>6 DEF Pools
    <3>3. \A t, u \in running' : t.session = u.session => t = u
      BY <1>6 DEF Pools
    <3>4. thumbnail'.session <= session' /\ thumbnail'.shot <= capture'
      BY <1>1, <1>6 DEF Pools
    <3>5. \A t \in running' : t.session = session' \/ thumbnail'.session # t.session
      BY <1>1, <1>6 DEF Pools
    <3>6. \A t \in Waits' : t.session = session' /\ t.session > 0 /\ t.shot <= capture'
      BY <1>1, <1>2, <2>1
    <3>7. \E t \in running' : t.session = session'
      BY <1>1, <1>6
    <3> QED  BY <3>1, <3>2, <3>3, <3>4, <3>5, <3>6, <3>7 DEF Pools
  <2>3. Ordered'
    BY <1>1, <1>6, <2>1 DEF Ordered
  <2>4. waiting' \in Seq(Task) /\ Len(waiting') <= 1
    BY <1>6, Short
  <2>5. running' \subseteq Task /\ thumbnail' = thumbnail
    BY <1>6 DEF Types
  <2> QED  BY <2>2, <2>3, <2>4, <2>5
<1>7. CASE UNCHANGED <<waiting, running, thumbnail>>
  <2>1. UNCHANGED <<active, capture, session, waiting, running, thumbnail>>
    BY <1>7, Zenon
  <2>2. Pools' /\ Ordered'
    BY <2>1, Untouched
  <2> QED  BY <1>7, <2>2 DEF Types
<1> QED  BY <1>5, <1>6, <1>7 DEF Submit, PublishError

-----------------------------------------------------------------------------
(* The steps. *)

LEMMA InitInvariant == Init => IInv
<1> SUFFICES ASSUME Init
             PROVE  IInv
  OBVIOUS
<1>1. Waits = {}
  BY WaitsOf DEF Init
<1>2. Types
  <2>1. 0 \in Generation
    BY CameraAssumption DEF Generation
  <2>2. waiting = <<>> /\ thumbnail = None
    BY DEF Init
  <2>3. waiting \in Seq(Task) /\ Len(waiting) <= 1
    BY <2>2, Short
  <2> QED  BY <2>1, <2>2, <2>3 DEF Types, Init
<1>3. Device
  BY DEF Device, ReadinessAgrees, Init
<1>4. Pools
  BY <1>1, NoneTyped DEF Pools, Init
<1>5. Fallback /\ Ordered
  BY <1>1 DEF Fallback, Ordered, Init
<1> QED  BY <1>2, <1>3, <1>4, <1>5 DEF IInv

LEMMA ResumeInv ==
  ASSUME IInv, Resume
  PROVE  IInv'
<1> USE DEF IInv
<1>1. capture \in Nat /\ session \in Nat /\ capture + 1 \in Generation
  BY CameraAssumption DEF Types, Resume, Generation
<1>2. Waits = {} /\ thumbnail = None /\ ~started
  BY DEF Resume, Pools, Device
<1>3. /\ capture' = capture + 1 /\ session' = capture + 1 /\ thumbnail' = None
      /\ active' /\ UNCHANGED <<fallback, waiting, running>>
  BY <1>2 DEF Resume
<1>4. Waits' = {}
  BY <1>2, <1>3, WaitsNext
<1>5. Types'
  BY <1>1, <1>3, NoneTyped DEF Types, Resume, Told
<1>6. Device'
  BY DEF Device, ReadinessAgrees, Resume, Told, Previews
<1>7. \A t \in running : t.session \in Nat /\ t.shot \in Nat
  BY TaskFields DEF Types
<1>8. Pools'
  <2>1. session' <= capture' /\ session' > 0
    BY <1>1, <1>2, <1>3
  <2>2. \A t \in running' : t.session > 0 /\ t.session <= session' /\ t.shot <= capture'
    BY <1>1, <1>3, <1>7 DEF Pools
  <2>3. thumbnail'.session <= session' /\ thumbnail'.shot <= capture'
    BY <1>1, <1>3, NoneTyped
  <2>4. \A t \in running' : thumbnail'.session # t.session
    BY <1>3, <2>2, NoneTyped
  <2>5. \A t, u \in running' : t.session = u.session => t = u
    BY <1>3 DEF Pools
  <2> QED  BY <1>3, <1>4, <2>1, <2>2, <2>3, <2>4, <2>5 DEF Pools
<1>9. Fallback'
  BY <1>3 DEF Fallback, Resume
<1>10. Ordered'
  <2>1. \A t \in running' : t.session > 0
    BY <1>3 DEF Pools
  <2>2. \A t \in running' : thumbnail'.session # t.session
    BY <1>3, <2>1, NoneTyped
  <2> QED  BY <1>4, <2>2 DEF Ordered
<1> QED  BY <1>5, <1>6, <1>8, <1>9, <1>10

LEMMA PauseInv ==
  ASSUME IInv, Pause
  PROVE  IInv'
<1> USE DEF IInv
<1>1. capture \in Nat /\ session \in Nat /\ capture + 1 \in Generation /\ 0 \in Generation
  BY CameraAssumption DEF Types, Pause, Generation
<1>2. Waits' = {} /\ waiting' = <<>>
  BY WaitsNext DEF Pause
<1>3. Types'
  <2>1. waiting' \in Seq(Task) /\ Len(waiting') <= 1
    BY <1>2, Short
  <2> QED  BY <1>1, <2>1 DEF Types, Pause
<1>4. Device'
  BY DEF Device, ReadinessAgrees, Pause
<1>5. \A t \in running : t.session \in Nat /\ t.shot \in Nat
  BY TaskFields DEF Types
<1>6. Pools'
  <2>1. \A t \in running' : t.session > 0 /\ t.session <= session' /\ t.shot <= capture'
    BY <1>1, <1>5 DEF Pools, Pause
  <2>2. thumbnail' = None /\ thumbnail'.session <= session' /\ thumbnail'.shot <= capture'
    BY <1>1, NoneTyped DEF Pause
  <2>3. session' <= capture' /\ ~active' /\ running' = running
    BY <1>1 DEF Pause, Pools
  <2>4. \A t, u \in running' : t.session = u.session => t = u
    BY <2>3 DEF Pools
  <2>5. \A t \in running' : thumbnail'.session # t.session
    BY <2>1, <2>2, NoneTyped
  <2> QED  BY <1>2, <2>1, <2>2, <2>3, <2>4, <2>5 DEF Pools
<1>7. Fallback'
  BY DEF Fallback, Pause
<1>8. Ordered'
  <2>1. thumbnail' = None /\ running' = running
    BY DEF Pause
  <2>2. \A t \in running' : t.session > 0
    BY <2>1 DEF Pools
  <2>3. \A t \in running' : thumbnail'.session # t.session
    BY <2>1, <2>2, NoneTyped
  <2> QED  BY <1>2, <2>3 DEF Ordered
<1> QED  BY <1>3, <1>4, <1>6, <1>7, <1>8

LEMMA SurfaceCreatedInv ==
  ASSUME IInv, SurfaceCreated
  PROVE  IInv'
<1> USE DEF IInv
<1>1. UNCHANGED <<active, started, fallback, capture, oneShot, session, jpegs, waiting, running, thumbnail>>
  BY DEF SurfaceCreated, shots
<1>2. Pools' /\ Ordered' /\ Fallback'
  BY <1>1, Untouched
<1>3. Types'
  BY <1>1 DEF Types, SurfaceCreated
<1>4. Device'
  BY DEF Device, ReadinessAgrees, SurfaceCreated, Previews, Types
<1> QED  BY <1>2, <1>3, <1>4

LEMMA SurfaceDestroyedInv ==
  ASSUME IInv, SurfaceDestroyed
  PROVE  IInv'
<1> USE DEF IInv
<1>1. UNCHANGED <<active, started, fallback, capture, oneShot, session, jpegs, waiting, running, thumbnail>>
  BY DEF SurfaceDestroyed, shots
<1>2. Pools' /\ Ordered' /\ Fallback'
  BY <1>1, Untouched
<1>3. Types'
  BY <1>1 DEF Types, SurfaceDestroyed, LosesSurface
<1>4. Device'
  BY DEF Device, ReadinessAgrees, SurfaceDestroyed, LosesSurface
<1> QED  BY <1>2, <1>3, <1>4

LEMMA CaptureInv ==
  ASSUME IInv, Capture
  PROVE  IInv'
<1> USE DEF IInv
<1>1. capture \in Nat /\ session \in Nat /\ capture + 1 \in Generation /\ 0 \in Generation
  BY CameraAssumption DEF Types, Capture, Generation
<1>2. /\ UNCHANGED <<active, session, waiting, running, thumbnail>>
      /\ capture' = capture + 1 /\ fallback' = capture + 1 /\ active
  BY DEF Capture
<1>3. Waits' = Waits
  BY <1>2, WaitsNext
<1>4. Types'
  BY <1>1, <1>2 DEF Types, Capture
<1>5. Device'
  BY DEF Device, ReadinessAgrees, Capture
<1>6. \A t \in running \cup Waits : t.session \in Nat /\ t.shot \in Nat
  BY TaskFields, WaitsTyped DEF Types
<1>7. thumbnail.session \in Nat /\ thumbnail.shot \in Nat
  BY TaskFields, NoneTyped DEF Types
<1>8. /\ \A t \in running \cup Waits : t.shot <= capture
      /\ thumbnail.shot <= capture
  BY DEF Pools
<1>9. Pools'
  <2>1. \A t \in running \cup Waits : t.shot <= capture'
    BY <1>1, <1>2, <1>6, <1>8
  <2>2. thumbnail.shot <= capture' /\ session' <= capture'
    BY <1>1, <1>2, <1>7, <1>8 DEF Pools
  <2> QED  BY <1>2, <1>3, <2>1, <2>2 DEF Pools
<1>10. Fallback'
  <2>1. \A t \in running \cup Waits : t.shot < fallback'
    BY <1>1, <1>2, <1>6, <1>8
  <2>2. thumbnail.shot < fallback'
    BY <1>1, <1>2, <1>7, <1>8
  <2> QED  BY <1>2, <1>3, <2>1, <2>2 DEF Fallback
<1>11. Ordered'
  BY <1>2, <1>3 DEF Ordered
<1> QED  BY <1>4, <1>5, <1>9, <1>10, <1>11

LEMMA ReleaseShutterInv ==
  ASSUME IInv, ReleaseShutter
  PROVE  IInv'
<1> USE DEF IInv
<1>1. UNCHANGED <<active, started, fallback, capture, oneShot, session, jpegs, waiting, running, thumbnail>>
  BY DEF ReleaseShutter
<1>2. Pools' /\ Ordered' /\ Fallback'
  BY <1>1, Untouched
<1>3. Types'
  BY <1>1 DEF Types, ReleaseShutter
<1>4. Device'
  BY DEF Device, ReadinessAgrees, ReleaseShutter, Previews
<1> QED  BY <1>2, <1>3, <1>4

LEMMA ReleaseForgottenInv ==
  ASSUME IInv, ReleaseForgotten
  PROVE  IInv'
<1> USE DEF IInv
<1>1. /\ UNCHANGED <<exists, surface, active, camera, preview, started, ready>>
      /\ UNCHANGED <<fallback, capture, oneShot, session, jpegs>>
      /\ UNCHANGED <<waiting, running, thumbnail>>
  BY DEF ReleaseForgotten, shots
<1>2. Pools' /\ Ordered' /\ Fallback'
  BY <1>1, Untouched
<1>3. Types'
  BY <1>1 DEF Types
<1>4. Device'
  BY <1>1 DEF Device, ReadinessAgrees
<1> QED  BY <1>2, <1>3, <1>4

LEMMA TimerInv ==
  ASSUME IInv, NEW t \in timers, Timer(t)
  PROVE  IInv'
<1> USE DEF IInv
<1>1. /\ UNCHANGED <<device, capture, jpegs, session>>
      /\ UNCHANGED <<waiting, running, thumbnail>>
      /\ fallback' \in {fallback, 0} /\ oneShot' \in {oneShot, fallback}
  BY DEF Timer, PublishError, work
<1>2. Pools' /\ Ordered' /\ Fallback'
  BY <1>1, Untouched DEF device
<1>3. Types'
  BY <1>1, CameraAssumption DEF Types, device, Generation
<1>4. Device'
  BY <1>1 DEF Device, ReadinessAgrees, device
<1> QED  BY <1>2, <1>3, <1>4

LEMMA FrameInv ==
  ASSUME IInv, Frame
  PROVE  IInv'
<1> USE DEF IInv
<1>1. /\ UNCHANGED <<device, capture, timers, jpegs, session, late>>
      /\ oneShot' = 0 /\ active
  BY DEF Frame
<1>2. 0 \in Generation
  BY CameraAssumption DEF Generation
<1>3. Device'
  BY <1>1 DEF Device, ReadinessAgrees, device
<1>4. CASE ~Wanted(oneShot) /\ UNCHANGED <<fallback, work>>
  <2>1. Pools' /\ Ordered' /\ Fallback'
    BY <1>1, <1>4, Untouched DEF device, work
  <2>2. Types'
    BY <1>1, <1>2, <1>4 DEF Types, device, work
  <2> QED  BY <1>3, <2>1, <2>2
<1>5. ASSUME Wanted(oneShot), fallback' = 0,
             Submit([shot |-> oneShot, source |-> "live view", session |-> session])
      PROVE  IInv'
  <2>1. PICK task : task = [shot |-> oneShot, source |-> "live view", session |-> session]
    OBVIOUS
  <2>2. /\ task \in Task /\ task.shot = fallback /\ task.session = session
        /\ fallback = capture /\ Submit(task)
    BY <1>5, <2>1 DEF Types, Task, Fallback, Wanted, Frame
  <2>3. /\ \A u \in running \cup Waits : u.session = session => u.shot < task.shot
        /\ thumbnail.session = session => thumbnail.shot < task.shot
    <3>1. fallback # 0
      BY <1>5 DEF Wanted, Frame
    <3> QED  BY <2>2, <3>1 DEF Fallback
  <2>4. task.shot <= capture
    BY <2>2, TaskFields
  <2>5. UNCHANGED <<active, capture, session>>
    BY <1>1 DEF device
  <2>6. /\ waiting' \in Seq(Task) /\ Len(waiting') <= 1 /\ running' \subseteq Task
        /\ thumbnail' = thumbnail /\ Pools' /\ Ordered'
    BY <1>1, <2>2, <2>3, <2>4, <2>5, SubmitInv
  <2>7. Types'
    BY <1>1, <1>2, <1>5, <2>6 DEF Types, device
  <2>8. Fallback'
    BY <1>5 DEF Fallback
  <2> QED  BY <1>3, <2>6, <2>7, <2>8
<1> QED  BY <1>4, <1>5 DEF Frame

LEMMA JpegInv ==
  ASSUME IInv, NEW shot \in jpegs, Jpeg(shot), shot <= capture
  PROVE  IInv'
<1> USE DEF IInv
<1>1. /\ UNCHANGED <<device, capture, timers, oneShot, session>>
      /\ fallback' = 0 /\ active /\ jpegs' \subseteq jpegs
  BY DEF Jpeg
<1>2. 0 \in Generation
  BY CameraAssumption DEF Generation
<1>3. Device'
  BY <1>1 DEF Device, ReadinessAgrees, device
<1>4. Fallback'
  BY <1>1 DEF Fallback
<1>5. CASE PublishError(shot)
  <2>1. Pools' /\ Ordered'
    BY <1>1, <1>5, Untouched DEF device, PublishError
  <2>2. Types'
    BY <1>1, <1>2, <1>5 DEF Types, device, PublishError
  <2> QED  BY <1>3, <1>4, <2>1, <2>2
<1>6. CASE Submit([shot |-> shot, source |-> "captured", session |-> session])
  <2>1. PICK task : task = [shot |-> shot, source |-> "captured", session |-> session]
    OBVIOUS
  <2>2. /\ task \in Task /\ task.shot <= capture /\ task.session = session
        /\ task.source = "captured" /\ Submit(task)
    BY <1>6, <2>1 DEF Types, Task
  <2>3. UNCHANGED <<active, capture, session>>
    BY <1>1 DEF device
  <2>4. /\ waiting' \in Seq(Task) /\ Len(waiting') <= 1 /\ running' \subseteq Task
        /\ thumbnail' = thumbnail /\ Pools' /\ Ordered'
    BY <1>1, <2>2, <2>3, SubmitInv
  <2>5. Types'
    BY <1>1, <1>2, <2>4 DEF Types, device
  <2> QED  BY <1>3, <1>4, <2>4, <2>5
<1> QED  BY <1>5, <1>6 DEF Jpeg

\* A thumbnail that is published, and the task that follows it in the pool.
LEMMA WorkInv ==
  ASSUME IInv, NEW task \in running, Work(task)
  PROVE  IInv'
<1> USE DEF IInv
<1>1. UNCHANGED device /\ UNCHANGED shots /\ thumbnail' \in {task, thumbnail}
  BY DEF Work
<1>2. UNCHANGED <<active, started, capture, fallback, session, jpegs, oneShot>>
  BY <1>1 DEF device, shots
<1>3. thumbnail' = task => (started /\ active) \/ thumbnail = task
  BY DEF Work, Device
<1>4. task \in Task /\ task.session > 0 /\ task.session <= session /\ task.shot <= capture
  BY DEF Types, Pools
<1>5. Device'
  BY <1>1 DEF Device, ReadinessAgrees, device
<1>6. /\ running' \subseteq (running \ {task}) \cup Waits
      /\ Waits' \subseteq Waits
      /\ waiting' \in Seq(Task) /\ Len(waiting') <= 1
      /\ \/ Waits' = Waits /\ running' = running \ {task} /\ (task.session # session \/ Waits = {})
         \/ /\ task.session = session /\ Waits' = {}
            /\ \E w \in Waits : Waits = {w} /\ running' = (running \ {task}) \cup {w}
  <2>1. CASE task.session = session /\ waiting # <<>>
    <3>1. PICK w \in Task : waiting = <<w>>
      BY <2>1, Queue DEF Types
    <3>2. Waits = {w}
      BY <3>1, WaitsOf
    <3>3. Head(waiting) = w /\ Tail(waiting) = <<>>
      BY <3>1
    <3>4. running' = (running \ {task}) \cup {w} /\ waiting' = <<>>
      BY <2>1, <3>3 DEF Work
    <3>5. Waits' = {}
      BY <3>4, WaitsNext
    <3>6. waiting' \in Seq(Task) /\ Len(waiting') <= 1
      BY <3>4, Short
    <3> QED  BY <2>1, <3>2, <3>4, <3>5, <3>6
  <2>2. CASE ~(task.session = session /\ waiting # <<>>)
    <3>1. running' = running \ {task} /\ waiting' = waiting
      BY <2>2 DEF Work
    <3>2. Waits' = Waits
      BY <3>1, WaitsNext
    <3>3. task.session # session \/ Waits = {}
      BY <2>2, WaitsOf
    <3>4. waiting' \in Seq(Task) /\ Len(waiting') <= 1
      BY <3>1 DEF Types
    <3> QED  BY <3>1, <3>2, <3>3, <3>4
  <2> QED  BY <2>1, <2>2
<1>7. Types'
  <2>1. running' \subseteq Task
    BY <1>6, WaitsTyped DEF Types
  <2>2. thumbnail' \in Task \cup {None}
    BY <1>1, <1>4 DEF Types
  <2>3. UNCHANGED <<exists, surface, camera, preview, ready>>
    BY <1>1 DEF device
  <2> QED  BY <1>2, <1>6, <2>1, <2>2, <2>3 DEF Types
<1>8. Pools'
  <2>1. session' <= capture' /\ (active' => session' > 0)
    BY <1>2 DEF Pools
  <2>2. ~active' => Waits' = {}
    BY <1>2, <1>6 DEF Pools
  <2>3. Waits' # {} => \E t \in running' : t.session = session'
    BY <1>2, <1>6 DEF Pools
  <2>4. \A t \in Waits' : t.session = session' /\ t.session > 0 /\ t.shot <= capture'
    BY <1>2, <1>6 DEF Pools
  <2>5. \A t \in running' : t.session > 0 /\ t.session <= session' /\ t.shot <= capture'
    <3>1. \A t \in Waits : t.session > 0 /\ t.session <= session /\ t.shot <= capture
      BY TaskFields, WaitsTyped DEF Pools
    <3> QED  BY <1>2, <1>6, <3>1 DEF Pools
  <2>6. \A t, u \in running' : t.session = u.session => t = u
    <3>1. CASE running' = running \ {task}
      BY <3>1 DEF Pools
    <3>2. ASSUME task.session = session, NEW w \in Waits,
                 running' = (running \ {task}) \cup {w}
          PROVE  \A t, u \in running' : t.session = u.session => t = u
      <4>1. w.session = session
        BY DEF Pools
      <4>2. \A t \in running \ {task} : t.session # session
        BY <3>2 DEF Pools
      <4>3. \A t, u \in running \ {task} : t.session = u.session => t = u
        BY DEF Pools
      <4> QED  BY <3>2, <4>1, <4>2, <4>3
    <3> QED  BY <1>6, <3>1, <3>2
  <2>7. thumbnail'.session <= session' /\ thumbnail'.shot <= capture'
    BY <1>1, <1>2, <1>4 DEF Pools
  <2>8. ~active' => thumbnail' = None
    BY <1>1, <1>2, <1>3 DEF Pools
  <2>9. \A t \in running' : t.session = session' \/ thumbnail'.session # t.session
    <3>1. \A t \in running \ {task} : t.session # task.session
      BY DEF Pools
    <3>2. \A t \in Waits : t.session = session
      BY DEF Pools
    <3>3. \A t \in running : t.session = session \/ thumbnail.session # t.session
      BY DEF Pools
    <3> QED  BY <1>1, <1>2, <1>6, <3>1, <3>2, <3>3
  <2> QED  BY <2>1, <2>2, <2>3, <2>4, <2>5, <2>6, <2>7, <2>8, <2>9 DEF Pools
<1>9. Fallback'
  <2>1. fallback # 0 => active /\ fallback = capture
    BY DEF Fallback
  <2>2. fallback # 0 =>
          \A t \in running \cup Waits : t.session = session => t.shot < fallback
    BY DEF Fallback
  <2>3. fallback # 0 => (thumbnail'.session = session => thumbnail'.shot < fallback)
    BY <1>1, <2>2 DEF Fallback
  <2>4. fallback # 0 =>
          \A t \in running' \cup Waits' : t.session = session => t.shot < fallback
    BY <1>6, <2>2
  <2> QED  BY <1>2, <2>1, <2>3, <2>4 DEF Fallback
<1>10. Ordered'
  <2>1. \A t \in running \ {task} : t.session # task.session
    BY DEF Pools
  <2>2. \A u \in Waits : u.session = session
    BY DEF Pools
  <2>3. \A u \in Waits :
          u.source = "live view" /\ task.session = u.session => task.shot < u.shot
    BY <2>2 DEF Ordered
  <2>4. \A t \in running' \cup Waits' :
          t.source = "live view" /\ thumbnail'.session = t.session => thumbnail'.shot < t.shot
    <3>1. CASE thumbnail' = thumbnail
      BY <1>6, <3>1 DEF Ordered
    <3>2. CASE thumbnail' = task
      BY <1>6, <2>1, <2>3, <3>2
    <3> QED  BY <1>1, <3>1, <3>2
  <2>5. \A t \in running', u \in Waits' :
          u.source = "live view" /\ t.session = session' => t.shot < u.shot
    BY <1>2, <1>6 DEF Ordered
  <2> QED  BY <2>4, <2>5 DEF Ordered
<1> QED  BY <1>5, <1>7, <1>8, <1>9, <1>10

LEMMA StutterInv ==
  ASSUME IInv, UNCHANGED vars
  PROVE  IInv'
<1> USE DEF IInv, vars, device, shots, work
<1>1. Pools' /\ Ordered' /\ Fallback'
  BY Untouched
<1>2. Types'
  BY DEF Types
<1>3. Device'
  BY DEF Device, ReadinessAgrees
<1> QED  BY <1>1, <1>2, <1>3

LEMMA TakenInv ==
  ASSUME IInv, Taken, [Next]_vars
  PROVE  Taken'
<1>1. capture \in Nat /\ jpegs \subseteq Nat
  BY CameraAssumption DEF IInv, Types, Generation
<1>2. capture' \in {capture, capture + 1}
  <2>1. CASE Resume \/ Pause \/ Capture
    BY <2>1 DEF Resume, Pause, Capture
  <2>2. CASE SurfaceCreated \/ SurfaceDestroyed \/ ReleaseShutter \/ ReleaseForgotten
    BY <2>2 DEF SurfaceCreated, SurfaceDestroyed, ReleaseShutter, ReleaseForgotten, shots
  <2>3. CASE SomeTimer \/ Frame \/ SomeWork
    BY <2>3 DEF SomeTimer, Timer, Frame, SomeWork, Work, shots
  <2>4. CASE \E shot \in jpegs : Jpeg(shot)
    BY <2>4 DEF Jpeg
  <2>5. CASE UNCHANGED vars
    BY <2>5 DEF vars, shots
  <2> QED  BY <2>1, <2>2, <2>3, <2>4, <2>5 DEF Next
<1>3. jpegs' \subseteq jpegs \cup {capture'}
  BY DEF Next, Resume, Pause, SurfaceCreated, SurfaceDestroyed, Capture, ReleaseShutter,
         ReleaseForgotten, SomeTimer, Timer, Frame, SomeWork, Work, Jpeg, vars, shots
<1> QED  BY <1>1, <1>2, <1>3 DEF Taken

LEMMA StepInvariant ==
  ASSUME IInv, Taken, [Next]_vars
  PROVE  IInv' /\ Taken'
<1>1. IInv'
  <2>1. CASE Resume          BY <2>1, ResumeInv
  <2>2. CASE Pause           BY <2>2, PauseInv
  <2>3. CASE SurfaceCreated  BY <2>3, SurfaceCreatedInv
  <2>4. CASE SurfaceDestroyed  BY <2>4, SurfaceDestroyedInv
  <2>5. CASE Capture         BY <2>5, CaptureInv
  <2>6. CASE ReleaseShutter  BY <2>6, ReleaseShutterInv
  <2>7. CASE ReleaseForgotten  BY <2>7, ReleaseForgottenInv
  <2>8. CASE SomeTimer       BY <2>8, TimerInv DEF SomeTimer
  <2>9. CASE Frame           BY <2>9, FrameInv
  <2>10. CASE SomeWork       BY <2>10, WorkInv DEF SomeWork
  <2>11. CASE \E shot \in jpegs : Jpeg(shot)
    BY <2>11, JpegInv DEF Taken
  <2>12. CASE UNCHANGED vars
    BY <2>12, StutterInv
  <2> QED  BY <2>1, <2>2, <2>3, <2>4, <2>5, <2>6, <2>7, <2>8, <2>9, <2>10, <2>11, <2>12 DEF Next
<1> QED  BY <1>1, TakenInv
-----------------------------------------------------------------------------
(* The theorems. *)

\* The invariant of the controller, its pools and the retained thumbnail.
THEOREM Invariant == Spec => [](IInv /\ Taken)
<1>1. Init => IInv /\ Taken
  BY InitInvariant DEF Init, Taken
<1>2. IInv /\ Taken /\ [Next]_vars => IInv' /\ Taken'
  BY StepInvariant
<1> QED  BY <1>1, <1>2, PTL DEF Spec

\* ReadinessAgrees, of what the native runtime knows of the camera, in all
\* orders of the activity, the surface and the commands.  It speaks of the
\* surface as the controller knows it.
THEOREM Readiness == Spec => []ReadinessAgrees
<1>1. IInv => ReadinessAgrees
  BY DEF IInv, Device
<1> QED  BY <1>1, Invariant, PTL

\* LiveViewIsLastResort, of any number of shots, sessions and pools.
THEOREM LastResort == Spec => LiveViewIsLastResort
<1>1. ASSUME IInv, [Next]_vars, thumbnail' # thumbnail, thumbnail'.source = "live view"
      PROVE  thumbnail.session # thumbnail'.session \/ thumbnail.shot < thumbnail'.shot
  <2>1. thumbnail' # None
    BY <1>1, NoneTyped
  <2>2. ~(Resume \/ Pause)
    BY <1>1, <2>1 DEF Resume, Pause
  <2>3. ~(\/ SurfaceCreated \/ SurfaceDestroyed \/ Capture \/ ReleaseShutter
          \/ ReleaseForgotten \/ SomeTimer \/ Frame)
    BY <1>1 DEF SurfaceCreated, SurfaceDestroyed, Capture, ReleaseShutter, ReleaseForgotten,
                SomeTimer, Timer, Frame, Submit, PublishError, work
  <2>4. ~\E shot \in jpegs : Jpeg(shot)
    BY <1>1 DEF Jpeg, Submit, PublishError
  <2>5. PICK task \in running : Work(task)
    BY <1>1, <2>2, <2>3, <2>4 DEF Next, SomeWork, vars, work
  <2>6. thumbnail' = task
    BY <1>1, <2>5 DEF Work
  <2> QED  BY <1>1, <2>6 DEF IInv, Ordered
<1>2. IInv /\ [Next]_vars =>
        [thumbnail' # thumbnail /\ thumbnail'.source = "live view" =>
           thumbnail.session # thumbnail'.session \/ thumbnail.shot < thumbnail'.shot]_vars
  BY <1>1
<1> QED  BY <1>2, Invariant, PTL DEF Spec, LiveViewIsLastResort
=============================================================================
