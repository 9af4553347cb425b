------------------------------- MODULE Session ------------------------------
(***************************************************************************)
(* The threads of the app across its sessions, one for each time that the  *)
(* activity is resumed.                                                    *)
(*                                                                         *)
(* The main thread works off its queue: onResume() and onPause(), which    *)
(* Android posts, and the commands that the native runtime posts; between  *)
(* them it handles keys, broadcasts and pictures.  Each session has a      *)
(* native runtime with a server thread, and a pool of one thread that      *)
(* makes thumbnails.  The global pointer g_runtime and the flag            *)
(* nativeStarted, which the pool reads, are not guarded by a lock.         *)
(*                                                                         *)
(* A step is what a thread does between two accesses to shared state.  A   *)
(* critical section of the main thread or of the server thread is one      *)
(* step; that of the pool is not, since what it uses may vanish meanwhile. *)
(* Commands have no ids: each runtime counts them from 1, so nothing but   *)
(* their order keeps them apart.                                           *)
(*                                                                         *)
(* Bounds for TLC: MaxSessions, and MaxQueue for the commands posted.      *)
(***************************************************************************)
EXTENDS Integers, Sequences

CONSTANTS MaxSessions, MaxQueue

ASSUME SessionAssumption == MaxSessions \in Nat \ {0} /\ MaxQueue \in Nat

Sessions == 1 .. MaxSessions

None == 0  \* NULL, and the session before the first one

VARIABLES
  main,      \* where the main thread is
  activity,  \* LegacyAlphaRemoteActivity, with the number of its session
  global,    \* g_runtime, and whether g_activity is set
  runtime,   \* the NativeRuntime of each session, with its server thread
  pool,      \* previewWorker of each session
  queue,     \* what is posted to the main thread
  alive,     \* the process
  ran,       \* history: the commands that were run, and to what end
  late,      \* history: photos that each pool has published after its session
  faults     \* history: the sessions in which threads have entered the bridge
             \* that then used something that was gone

vars == <<main, activity, global, runtime, pool, queue, alive, ran, late, faults>>

Lifecycle == {"create", "start", "undo", "undone", "started",
              "stop", "join", "delete", "clear", "stopped", "release"}

Message == [kind : {"resume", "pause", "command"}, session : Sessions \cup {None}]

\* mutex_ is held by the pool with this number, or by Nobody or the MainThread.
Nobody == 0
MainThread == -1

NoRuntime == [life |-> "none", started |-> FALSE, lock |-> Nobody,
              thread |-> "none", stopping |-> FALSE, pipe |-> FALSE]

\* at: idle, or the next thing that the thread does for a photo; waiting: a
\* photo waits; seen: the session in which it entered the bridge.
NoPool == [at |-> "idle", waiting |-> FALSE, shut |-> FALSE, seen |-> None,
           target |-> None]

Init ==
  /\ main = "idle"
  /\ activity = [resumed |-> FALSE, nativeStarted |-> FALSE, session |-> None]
  /\ global = [runtime |-> None, activity |-> FALSE]
  /\ runtime = [s \in Sessions |-> NoRuntime]
  /\ pool = [s \in Sessions |-> NoPool]
  /\ queue = <<>>
  /\ alive = TRUE
  /\ ran = {}
  /\ late = [s \in Sessions |-> 0]
  /\ faults = {}

histories == <<alive, ran, late, faults>>

Current == activity.session

Free(s) == runtime[s].lock = Nobody

\* A command is posted, or none.
Posted(s) ==
  {queue} \cup IF Len(queue) < MaxQueue /\ runtime[s].started /\ global.activity
               THEN {Append(queue, [kind |-> "command", session |-> s])} ELSE {}

\* The message is taken from the queue.
Take(kind) ==
  /\ main = "idle"
  /\ queue # <<>> /\ queue[1].kind = kind
  /\ queue' = Tail(queue)

-----------------------------------------------------------------------------
(* Android: onPause() is posted to a resumed activity, onResume() to one   *)
(* whose onPause() is over.                                                *)

Android ==
  /\ \A i \in DOMAIN queue : queue[i].kind = "command"
  /\ \/ /\ activity.resumed
        /\ queue' = Append(queue, [kind |-> "pause", session |-> Current])
     \/ /\ ~activity.resumed /\ main = "idle" /\ Current < MaxSessions
        /\ queue' = Append(queue, [kind |-> "resume", session |-> Current + 1])
  /\ UNCHANGED <<main, activity, global, runtime, pool, histories>>

-----------------------------------------------------------------------------
(* onResume(). *)

\* The camera starts, with a pool of its own.
OnResume ==
  /\ Take("resume")
  /\ activity' = [activity EXCEPT !.resumed = TRUE, !.session = Current + 1]
  /\ main' = "create"
  /\ UNCHANGED <<global, runtime, pool, histories>>

\* nativeStart(), which keeps a runtime that is there.
Create ==
  /\ main = "create"
  /\ IF global.runtime = None
     THEN /\ runtime' = [runtime EXCEPT ![Current].life = "live"]
          /\ global' = [runtime |-> Current, activity |-> TRUE]
          /\ main' = "start"
     ELSE main' = "started" /\ UNCHANGED <<runtime, global>>
  /\ UNCHANGED <<activity, pool, queue, histories>>

\* NativeRuntime::start(): the server may fail to start.
Start ==
  /\ main = "start" /\ Free(Current)
  /\ \/ /\ runtime' = [runtime EXCEPT ![Current].started = TRUE, ![Current].pipe = TRUE,
                                      ![Current].thread = "top"]
        /\ main' = "started"
     \/ main' = "undo" /\ UNCHANGED runtime
  /\ UNCHANGED <<activity, global, pool, queue, histories>>

\* The runtime of a start that failed is deleted, then forgotten.
Undo ==
  /\ main = "undo" /\ Free(Current)
  /\ runtime' = [runtime EXCEPT ![Current].life = "deleted"]
  /\ main' = "undone"
  /\ UNCHANGED <<activity, global, pool, queue, histories>>

Undone ==
  /\ main = "undone"
  /\ global' = [runtime |-> None, activity |-> FALSE]
  /\ main' = "idle"
  /\ UNCHANGED <<activity, runtime, pool, queue, histories>>

\* The runtime is told of the camera and of the network.
Started ==
  /\ main = "started"
  /\ activity' = [activity EXCEPT !.nativeStarted = TRUE]
  /\ main' = "call"
  /\ UNCHANGED <<global, runtime, pool, queue, histories>>

-----------------------------------------------------------------------------
(* onPause(). *)

\* Mutant: nativeStop() is forgotten.
OnPauseMutant ==
  /\ Take("pause")
  /\ activity' = [activity EXCEPT !.resumed = FALSE, !.nativeStarted = FALSE]
  /\ main' = "release"
  /\ UNCHANGED <<global, runtime, pool, histories>>

OnPause ==
  /\ Take("pause")
  /\ activity' = [activity EXCEPT !.resumed = FALSE]
  /\ main' = IF activity.nativeStarted THEN "stop" ELSE "release"
  /\ UNCHANGED <<global, runtime, pool, histories>>

\* Mutant: the lock is kept until the thread has ended.
StopMutant ==
  /\ main = "stop" /\ Free(global.runtime)
  /\ runtime' = [runtime EXCEPT ![global.runtime].started = FALSE,
                                ![global.runtime].stopping = TRUE,
                                ![global.runtime].lock = MainThread]
  /\ main' = "join"
  /\ UNCHANGED <<activity, global, pool, queue, histories>>

\* NativeRuntime::stop(), with the lock, and then without it HttpServer::stop()
\* up to the join.
Stop ==
  /\ main = "stop" /\ Free(global.runtime)
  /\ runtime' = [runtime EXCEPT ![global.runtime].started = FALSE,
                                ![global.runtime].stopping = TRUE]
  /\ main' = "join"
  /\ UNCHANGED <<activity, global, pool, queue, histories>>

\* The end of stop(); mutant: it does not wait for the thread.
JoinMutant ==
  /\ main = "join"
  /\ runtime' = [runtime EXCEPT ![global.runtime].pipe = FALSE]
  /\ main' = "delete"
  /\ UNCHANGED <<activity, global, pool, queue, histories>>

Join ==
  /\ main = "join" /\ runtime[global.runtime].thread = "ended"
  /\ runtime' = [runtime EXCEPT ![global.runtime].pipe = FALSE]
  /\ main' = "delete"
  /\ UNCHANGED <<activity, global, pool, queue, histories>>

\* The destructor takes the lock once more.
Delete ==
  /\ main = "delete" /\ Free(global.runtime)
  /\ runtime' = [runtime EXCEPT ![global.runtime].life = "deleted"]
  /\ main' = "clear"
  /\ UNCHANGED <<activity, global, pool, queue, histories>>

Clear ==
  /\ main = "clear"
  /\ global' = [runtime |-> None, activity |-> FALSE]
  /\ main' = "stopped"
  /\ UNCHANGED <<activity, runtime, pool, queue, histories>>

Stopped ==
  /\ main = "stopped"
  /\ activity' = [activity EXCEPT !.nativeStarted = FALSE]
  /\ main' = "release"
  /\ UNCHANGED <<global, runtime, pool, queue, histories>>

\* The pool of a camera that has stopped; mutant: shutdown().
ShutMutant(p) == [p EXCEPT !.shut = TRUE]

\* shutdownNow(): what waits is dropped, what is being done is finished.
Shut(p) == [p EXCEPT !.shut = TRUE, !.waiting = FALSE]

Release ==
  /\ main = "release"
  /\ pool' = [pool EXCEPT ![Current] = Shut(@)]
  /\ main' = "idle"
  /\ UNCHANGED <<activity, global, runtime, queue, histories>>

-----------------------------------------------------------------------------
(* The main thread between the two. *)

\* A key, a broadcast or the camera calls the runtime.
Event ==
  /\ main = "idle" /\ activity.nativeStarted
  /\ main' = "call"
  /\ UNCHANGED <<activity, global, runtime, pool, queue, histories>>

Call ==
  /\ main = "call" /\ Free(global.runtime)
  /\ queue' \in Posted(global.runtime)
  /\ main' = "idle"
  /\ UNCHANGED <<activity, global, runtime, pool, histories>>

\* dispatchNativeCommand(): the camera gets the command of a resumed activity
\* and reports its result to a runtime that is started; otherwise the result
\* is "activity paused", for whatever runtime there is.
RunCommand ==
  /\ Take("command")
  /\ LET receiver == IF ~activity.resumed \/ activity.nativeStarted
                     THEN global.runtime ELSE None
     IN  /\ ran' = ran \cup {[session |-> queue[1].session, receiver |-> receiver,
                              camera |-> IF activity.resumed THEN Current ELSE None]}
         /\ main' = IF receiver # None THEN "call" ELSE "idle"
  /\ UNCHANGED <<activity, global, runtime, pool, alive, late, faults>>

\* submitPreviewTask(): a picture goes to the pool, waits, or is turned down,
\* which the runtime is told.
Picture ==
  /\ main = "idle" /\ activity.resumed
  /\ \/ /\ pool[Current].at = "idle"
        /\ pool' = [pool EXCEPT ![Current].at = "make"]
        /\ UNCHANGED main
     \/ /\ pool[Current].at # "idle" /\ ~pool[Current].waiting
        /\ pool' = [pool EXCEPT ![Current].waiting = TRUE]
        /\ UNCHANGED main
     \/ /\ pool[Current].waiting
        /\ main' = IF activity.nativeStarted THEN "call" ELSE "idle"
        /\ UNCHANGED pool
  /\ UNCHANGED <<activity, global, runtime, queue, histories>>

-----------------------------------------------------------------------------
(* The server thread.  One call of the runtime stands for those of a round. *)

BeginRound(s) ==
  /\ runtime[s].thread = "top"
  /\ runtime' = [runtime EXCEPT ![s].thread = IF runtime[s].stopping THEN "ended" ELSE "call"]
  /\ UNCHANGED <<main, activity, global, pool, queue, histories>>

ServerCall(s) ==
  /\ runtime[s].thread = "call" /\ Free(s)
  /\ queue' \in Posted(s)
  /\ runtime' = [runtime EXCEPT ![s].thread = "top"]
  /\ UNCHANGED <<main, activity, global, pool, histories>>

-----------------------------------------------------------------------------
(* The thread of a pool. *)

\* The next photo, if one waits.
Done(p) == [p EXCEPT !.at = IF p.waiting THEN "make" ELSE "idle",
                     !.waiting = FALSE, !.seen = None, !.target = None]

\* onCameraPreview() asks whether the runtime is started.
Enter(p) ==
  /\ pool[p].at = "make"
  /\ pool' = IF activity.nativeStarted
             THEN [pool EXCEPT ![p].at = "test", ![p].seen = Current]
             ELSE [pool EXCEPT ![p] = Done(@)]
  /\ UNCHANGED <<main, activity, global, runtime, queue, histories>>

\* nativeSetPreview() reads g_runtime twice.
Test(p) ==
  /\ pool[p].at = "test"
  /\ pool' = IF global.runtime # None
             THEN [pool EXCEPT ![p].at = "load"]
             ELSE [pool EXCEPT ![p] = Done(@)]
  /\ UNCHANGED <<main, activity, global, runtime, queue, histories>>

Load(p) ==
  /\ pool[p].at = "load"
  /\ pool' = [pool EXCEPT ![p].at = "lock", ![p].target = global.runtime]
  /\ UNCHANGED <<main, activity, global, runtime, queue, histories>>

\* What is used is gone: the process ends, or nothing comes of it.
Fault(p) ==
  /\ faults' = faults \cup {pool[p].seen}
  /\ alive' \in BOOLEAN
  /\ UNCHANGED <<main, activity, global, queue, ran, late>>

\* setPreview(), of a thumbnail or of an error, which wakes nobody.
Lock(p) ==
  LET s == pool[p].target
  IN  /\ pool[p].at = "lock"
      /\ s # None => runtime[s].life # "live" \/ Free(s)
      /\ IF s # None /\ runtime[s].life = "live"
         THEN /\ runtime' = [runtime EXCEPT ![s].lock = p]
              /\ \E at \in {"wake", "unlock"} : pool' = [pool EXCEPT ![p].at = at]
              /\ late' = [late EXCEPT ![p] = IF pool[p].shut THEN @ + 1 ELSE @]
              /\ UNCHANGED <<main, activity, global, queue, alive, ran, faults>>
         ELSE /\ pool' = [pool EXCEPT ![p] = Done(@)]
              /\ Fault(p)
              /\ UNCHANGED runtime

\* HttpServer::wake(): it looks at the pipe, and then writes to it.
Wake(p) ==
  /\ pool[p].at = "wake"
  /\ pool' = [pool EXCEPT ![p].at = IF runtime[pool[p].target].pipe THEN "write" ELSE "unlock"]
  /\ UNCHANGED <<main, activity, global, runtime, queue, histories>>

\* A descriptor that is closed is nobody's, or somebody else's.
Write(p) ==
  /\ pool[p].at = "write"
  /\ pool' = [pool EXCEPT ![p].at = "unlock"]
  /\ IF runtime[pool[p].target].pipe
     THEN UNCHANGED <<main, activity, global, queue, histories>>
     ELSE Fault(p)
  /\ UNCHANGED runtime

Unlock(p) ==
  /\ pool[p].at = "unlock"
  /\ runtime' = [runtime EXCEPT ![pool[p].target].lock = Nobody]
  /\ pool' = [pool EXCEPT ![p] = Done(@)]
  /\ UNCHANGED <<main, activity, global, queue, histories>>

-----------------------------------------------------------------------------

Pausing == OnPause \/ Stop \/ Join \/ Delete \/ Clear \/ Stopped \/ Release

Resuming == OnResume \/ Create \/ Start \/ Undo \/ Undone \/ Started

Main == Pausing \/ Resuming \/ Call \/ RunCommand

Server(s) == BeginRound(s) \/ ServerCall(s)

Worker(p) ==
  Enter(p) \/ Test(p) \/ Load(p) \/ Lock(p) \/ Wake(p) \/ Write(p) \/ Unlock(p)

Next ==
  /\ alive
  /\ \/ Main \/ Event \/ Picture \/ Android
     \/ \E s \in Sessions : Server(s) \/ Worker(s)

\* The threads are scheduled.
Fairness ==
  /\ WF_vars(alive /\ Main)
  /\ \A s \in Sessions : WF_vars(alive /\ Server(s)) /\ WF_vars(alive /\ Worker(s))

Spec == Init /\ [][Next]_vars /\ Fairness
-----------------------------------------------------------------------------
(* Properties. *)

\* A command is run by the camera in the session that posted it or not at all,
\* and its result never reaches the runtime of another session, which would
\* take it for one of its own: ids start again from 1.
CommandsKeepTheirSession ==
  \A c \in ran : c.camera \in {None, c.session} /\ c.receiver \in {None, c.session}

\* The main thread and the server threads only use what is there: the runtime,
\* the pipe, and the activity.
LiveWhileUsed ==
  /\ \A s \in Sessions :
       runtime[s].thread \in {"top", "call"} =>
         runtime[s].life = "live" /\ runtime[s].pipe /\ global.activity
  /\ main \in {"call", "start", "stop", "join"} =>
       global.runtime # None /\ runtime[global.runtime].life = "live"

\* The thread of a pool may use what is gone, but only if it has entered the
\* bridge in a session whose end has begun since: a session that failed to start
\* hurts no pool of its own, though the pool of one that has ended may have found
\* the runtime that is deleted with it.
FaultsAreLate == \A s \in faults : s # None /\ runtime[s].stopping

OnlyLatePoolsFault == LiveWhileUsed /\ FaultsAreLate

\* No more than one photo of a session turns up in a later one.
OneLatePhoto == \A p \in Sessions : late[p] <= 1

\* Whoever waits for a lock or for the end of a thread, waits for somebody who
\* goes on: a lock that is taken is held by the thread of a pool, at a place from
\* where it only has to give it back; nobody gives back what another one holds;
\* and the thread that the main thread joins is there, and needs the lock at most.
Holding == {"wake", "write", "unlock"}

NobodyWaitsForGood ==
  /\ \A s \in Sessions : ~Free(s) =>
       \E p \in Sessions :
         runtime[s].lock = p /\ pool[p].target = s /\ pool[p].at \in Holding
  /\ \A p \in Sessions : pool[p].at \in Holding =>
       pool[p].target # None /\ runtime[pool[p].target].lock = p
  /\ main = "join" => runtime[global.runtime].thread # "none"

\* onResume() and onPause() return, however the server thread and the pools use
\* the lock meanwhile.
LifecycleReturns == main \in Lifecycle ~> main \notin Lifecycle \/ ~alive
=============================================================================
