---------------------------- MODULE SessionProofs ----------------------------
(***************************************************************************)
(* Proofs about Session, for any number of sessions and any length of the  *)
(* queue.                                                                  *)
(***************************************************************************)
EXTENDS Session, SequenceTheorems, TLAPS

Places == 1 .. Len(queue)

RuntimeState ==
  [life : {"none", "live", "deleted"}, started : BOOLEAN, lock : Int,
   thread : {"none", "top", "call", "ended"}, stopping : BOOLEAN, pipe : BOOLEAN]

PoolState ==
  [at : {"idle", "make", "test", "load", "lock", "wake", "write", "unlock"},
   waiting : BOOLEAN, shut : BOOLEAN, seen : 0 .. MaxSessions, target : 0 .. MaxSessions]

\* The values of the variables.
Types ==
  /\ main \in Lifecycle \cup {"idle", "call"}
  /\ activity \in [resumed : BOOLEAN, nativeStarted : BOOLEAN, session : 0 .. MaxSessions]
  /\ global \in [runtime : 0 .. MaxSessions, activity : BOOLEAN]
  /\ runtime \in [Sessions -> RuntimeState]
  /\ pool \in [Sessions -> PoolState]
  /\ queue \in Seq(Message)
  /\ late \in [Sessions -> Nat]
  /\ faults \subseteq 0 .. MaxSessions

\* A runtime that is served by its thread, and one that is not there yet or any
\* more.
Serving(s) ==
  /\ runtime[s].life = "live" /\ runtime[s].started /\ runtime[s].pipe /\ ~runtime[s].stopping
Passive(s) == ~runtime[s].started /\ runtime[s].thread \in {"none", "ended"}

Present == global.runtime = Current /\ global.activity /\ Current > 0

Absent == global.runtime = None /\ ~activity.nativeStarted

\* What each place of the main thread knows of the session and its runtime.
Position ==
  /\ activity.resumed => Current > 0
  /\ main = "idle" =>
       IF activity.nativeStarted
       THEN activity.resumed /\ Present /\ Serving(Current)
       ELSE Absent /\ (Current > 0 => Passive(Current))
  /\ main \in {"call", "started"} =>
       /\ main = "call" => activity.nativeStarted
       /\ main = "started" => ~activity.nativeStarted
       /\ activity.resumed /\ Present /\ Serving(Current)
  /\ main \in {"create", "start", "undo", "undone"} =>
       activity.resumed /\ ~activity.nativeStarted /\ Current > 0 /\ Passive(Current)
  /\ main = "create" => Absent /\ runtime[Current].thread = "none" /\ ~runtime[Current].stopping
  /\ main \in {"start", "undo"} =>
       /\ Present /\ runtime[Current].life = "live"
       /\ runtime[Current].thread = "none" /\ ~runtime[Current].stopping
  /\ main \in {"stop", "join", "delete", "clear", "stopped", "release"} =>
       ~activity.resumed /\ Current > 0
  /\ main \in {"stop", "join", "delete", "clear"} => Present
  /\ main = "stop" => activity.nativeStarted /\ Serving(Current)
  /\ main = "join" =>
       /\ runtime[Current].life = "live" /\ runtime[Current].pipe
       /\ runtime[Current].stopping /\ ~runtime[Current].started
  /\ main = "delete" => runtime[Current].life = "live"
  /\ main \in {"delete", "clear", "stopped", "release"} => Passive(Current)
  /\ main \in {"delete", "clear", "stopped"} => runtime[Current].stopping
  /\ main = "stopped" => global.runtime = None
  /\ main = "release" => Absent

\* The sessions before this one are over, and those after it are still to come.
Others ==
  /\ \A s \in Sessions : s < Current => Passive(s)
  /\ \A s \in Sessions : s > Current =>
       /\ Passive(s) /\ runtime[s].thread = "none" /\ ~runtime[s].stopping
       /\ ~pool[s].shut

\* The messages: at most one of Android, when it may be; the commands of this
\* session, and those of earlier ones in front of its end.
Posts ==
  /\ \A i \in Places : queue[i].kind = "resume" =>
       ~activity.resumed /\ main = "idle" /\ i = Len(queue) /\ Current < MaxSessions
  /\ \A i \in Places : queue[i].kind = "command" /\ activity.resumed =>
       queue[i].session = Current
  /\ \A i \in Places : queue[i].kind = "pause" => activity.resumed
  /\ \A i, j \in Places : queue[i].kind = "pause" /\ queue[j].kind = "pause" => i = j

\* What the thread of a pool has seen when it entered the bridge: the session
\* has begun to end since, or it is the present one and all of it is there.
Bridges ==
  \A p \in Sessions :
    /\ pool[p].at \in {"test", "load", "lock", "wake", "write", "unlock"} =>
         /\ pool[p].seen \in Sessions
         /\ \/ runtime[pool[p].seen].stopping
            \/ /\ pool[p].seen = Current /\ main \in {"idle", "call", "stop"}
               /\ activity.nativeStarted
    /\ pool[p].at = "lock" =>
         runtime[pool[p].seen].stopping \/ pool[p].target = pool[p].seen
    /\ pool[p].at \in {"wake", "write", "unlock"} =>
         /\ pool[p].target \in Sessions
         /\ runtime[pool[p].seen].stopping \/ pool[p].target = pool[p].seen

\* A pool that is shut finishes one photo.
Pools ==
  \A p \in Sessions :
    /\ pool[p].shut => ~pool[p].waiting /\ ~(activity.resumed /\ p = Current)
    /\ late[p] = 0 \/ (late[p] = 1 /\ pool[p].shut
                       /\ pool[p].at \in {"wake", "write", "unlock", "idle"})

IInv ==
  /\ Types /\ Position /\ Others /\ Posts /\ Bridges /\ Pools
  /\ CommandsKeepTheirSession /\ FaultsAreLate

-----------------------------------------------------------------------------
LEMMA InitInvariant == Init => IInv
<1> SUFFICES ASSUME Init PROVE IInv
  OBVIOUS
<1> USE DEF Init
<1>1. Len(queue) = 0 /\ queue \in Seq(Message)
  BY EmptySeq
<1>2. MaxSessions \in Nat
  BY SessionAssumption
<1>3. Types
  <2>1. NoRuntime \in RuntimeState
    BY DEF NoRuntime, Nobody, RuntimeState
  <2>2. NoPool \in PoolState
    BY <1>2 DEF NoPool, None, PoolState
  <2>3. activity \in [resumed : BOOLEAN, nativeStarted : BOOLEAN, session : 0 .. MaxSessions]
    BY <1>2 DEF None
  <2>4. global \in [runtime : 0 .. MaxSessions, activity : BOOLEAN]
    BY <1>2 DEF None
  <2>5. QED
    BY <1>1, <2>1, <2>2, <2>3, <2>4 DEF Types
<1>4. Position
  BY DEF Position, Absent, Current, None
<1>5. Others
  BY <1>2 DEF Others, Passive, Current, None, NoRuntime, NoPool, Sessions
<1>6. Posts
  BY <1>1 DEF Posts, Places
<1>7. Bridges /\ Pools
  BY DEF Bridges, Pools, NoPool
<1>8. CommandsKeepTheirSession /\ FaultsAreLate
  BY DEF CommandsKeepTheirSession, FaultsAreLate
<1>9. QED
  BY <1>3, <1>4, <1>5, <1>6, <1>7, <1>8 DEF IInv

\* What the types say of one session.
LEMMA Fields ==
  ASSUME Types, NEW s \in Sessions
  PROVE  /\ s \in Int /\ s > 0 /\ s <= MaxSessions /\ MaxSessions \in Nat
         /\ Current \in 0 .. MaxSessions /\ (Current > 0 => Current \in Sessions)
         /\ runtime[s].life \in {"none", "live", "deleted"} /\ runtime[s].started \in BOOLEAN
         /\ runtime[s].thread \in {"none", "top", "call", "ended"}
         /\ runtime[s].stopping \in BOOLEAN /\ runtime[s].pipe \in BOOLEAN
         /\ pool[s].at \in {"idle", "make", "test", "load", "lock", "wake", "write", "unlock"}
         /\ pool[s].waiting \in BOOLEAN /\ pool[s].shut \in BOOLEAN
         /\ pool[s].seen \in 0 .. MaxSessions /\ pool[s].target \in 0 .. MaxSessions
<1>1. runtime[s] \in RuntimeState /\ pool[s] \in PoolState /\ Current \in 0 .. MaxSessions
  BY DEF Types, Current
<1>2. s \in Int /\ s > 0 /\ s <= MaxSessions /\ MaxSessions \in Nat
      /\ (Current > 0 => Current \in Sessions)
  BY <1>1, SessionAssumption DEF Sessions
<1>3. /\ runtime[s].life \in {"none", "live", "deleted"} /\ runtime[s].started \in BOOLEAN
      /\ runtime[s].thread \in {"none", "top", "call", "ended"}
      /\ runtime[s].stopping \in BOOLEAN /\ runtime[s].pipe \in BOOLEAN
  BY <1>1 DEF RuntimeState
<1>4. /\ pool[s].at \in {"idle", "make", "test", "load", "lock", "wake", "write", "unlock"}
      /\ pool[s].waiting \in BOOLEAN /\ pool[s].shut \in BOOLEAN
      /\ pool[s].seen \in 0 .. MaxSessions /\ pool[s].target \in 0 .. MaxSessions
  BY <1>1 DEF PoolState
<1>5. QED
  BY <1>1, <1>2, <1>3, <1>4

-----------------------------------------------------------------------------
(* The threads of the pools. *)

\* A pool changes nothing that the other threads go by, but who holds the lock.
PoolStep(p) ==
  /\ UNCHANGED <<main, activity, global, queue, ran>>
  /\ runtime' \in [Sessions -> RuntimeState]
  /\ \A s \in Sessions :
       /\ runtime'[s].life = runtime[s].life /\ runtime'[s].started = runtime[s].started
       /\ runtime'[s].thread = runtime[s].thread /\ runtime'[s].pipe = runtime[s].pipe
       /\ runtime'[s].stopping = runtime[s].stopping
  /\ pool' \in [Sessions -> PoolState]
  /\ \A q \in Sessions : q # p => pool'[q] = pool[q] /\ late'[q] = late[q]
  /\ pool'[p].shut = pool[p].shut
  /\ late' \in [Sessions -> Nat]
  /\ \/ faults' = faults
     \/ faults' = faults \cup {pool[p].seen} /\ pool[p].seen \in Sessions
        /\ runtime[pool[p].seen].stopping

\* What Bridges and Pools ask of one pool.
Bridge(p) ==
  /\ pool[p].at \in {"test", "load", "lock", "wake", "write", "unlock"} =>
       /\ pool[p].seen \in Sessions
       /\ \/ runtime[pool[p].seen].stopping
          \/ /\ pool[p].seen = Current /\ main \in {"idle", "call", "stop"}
             /\ activity.nativeStarted
  /\ pool[p].at = "lock" =>
       runtime[pool[p].seen].stopping \/ pool[p].target = pool[p].seen
  /\ pool[p].at \in {"wake", "write", "unlock"} =>
       /\ pool[p].target \in Sessions
       /\ runtime[pool[p].seen].stopping \/ pool[p].target = pool[p].seen

OwnPool(p) ==
  /\ pool[p].shut => ~pool[p].waiting /\ ~(activity.resumed /\ p = Current)
  /\ late[p] = 0 \/ (late[p] = 1 /\ pool[p].shut
                     /\ pool[p].at \in {"wake", "write", "unlock", "idle"})

LEMMA PoolStepInvariant ==
  ASSUME IInv, NEW p \in Sessions, PoolStep(p), Bridge(p)', OwnPool(p)'
  PROVE  IInv'
<1> USE DEF IInv
<1>1. /\ UNCHANGED <<main, activity, global, queue, ran>>
      /\ \A s \in Sessions :
           /\ runtime'[s].life = runtime[s].life /\ runtime'[s].started = runtime[s].started
           /\ runtime'[s].thread = runtime[s].thread /\ runtime'[s].pipe = runtime[s].pipe
           /\ runtime'[s].stopping = runtime[s].stopping
      /\ \A q \in Sessions : q # p => pool'[q] = pool[q] /\ late'[q] = late[q]
      /\ \A q \in Sessions : pool'[q].shut = pool[q].shut
  BY DEF PoolStep
<1>2. Types'
  <2>1. faults' \subseteq 0 .. MaxSessions
    <3>1. faults \subseteq 0 .. MaxSessions /\ pool[p].seen \in 0 .. MaxSessions
      BY Fields DEF Types
    <3>2. QED
      BY <3>1 DEF PoolStep
  <2>2. QED
    BY <1>1, <2>1 DEF Types, PoolStep
<1>3. Position'
  <2>1. Current > 0 => Current \in Sessions
    BY Fields DEF Types, Sessions, Current
  <2>2. /\ Current > 0 => (Serving(Current)' <=> Serving(Current))
        /\ Current > 0 => (Passive(Current)' <=> Passive(Current))
        /\ Present' = Present /\ Absent' = Absent
        /\ Current > 0 => runtime'[Current].life = runtime[Current].life
        /\ Current > 0 => runtime'[Current].thread = runtime[Current].thread
        /\ Current > 0 => runtime'[Current].stopping = runtime[Current].stopping
        /\ Current > 0 => runtime'[Current].started = runtime[Current].started
        /\ Current > 0 => runtime'[Current].pipe = runtime[Current].pipe
    BY <1>1, <2>1 DEF Serving, Passive, Present, Absent, Current
  <2>3. QED
    BY <1>1, <2>2 DEF Position, Present, Current
<1>4. Others'
  BY <1>1 DEF Others, Passive, Current
<1>5. Posts'
  BY <1>1 DEF Posts, Places, Current
<1>6. Bridges'
  <2>1. ASSUME NEW q \in Sessions, q # p PROVE Bridge(q)'
    <3>1. Bridge(q)
      BY DEF Bridges, Bridge
    <3>2. QED
      BY <1>1, <2>1, <3>1 DEF Bridge, Current
  <2>2. \A q \in Sessions : Bridge(q)'
    BY <2>1
  <2>3. QED
    BY <2>2 DEF Bridges, Bridge
<1>7. Pools'
  <2>1. \A q \in Sessions : OwnPool(q)'
    BY <1>1 DEF Pools, OwnPool, Current
  <2>2. QED
    BY <2>1 DEF Pools, OwnPool
<1>8. CommandsKeepTheirSession'
  BY <1>1 DEF CommandsKeepTheirSession
<1>9. FaultsAreLate'
  <2>1. ASSUME NEW s \in faults' PROVE s # None /\ runtime[s].stopping /\ s \in Sessions
    <3>1. CASE s \in faults
      BY <3>1 DEF FaultsAreLate, Types, Sessions, None
    <3>2. CASE s = pool[p].seen /\ pool[p].seen \in Sessions /\ runtime[pool[p].seen].stopping
      BY <3>2 DEF Sessions, None
    <3>3. QED
      BY <2>1, <3>1, <3>2 DEF PoolStep
  <2>2. QED
    BY <1>1, <2>1 DEF FaultsAreLate
<1>10. QED
  BY <1>2, <1>3, <1>4, <1>5, <1>6, <1>7, <1>8, <1>9

\* A step of a pool that touches nothing but the pool.
LEMMA PoolOnly ==
  ASSUME IInv, NEW p \in Sessions, NEW next \in PoolState, pool' = [pool EXCEPT ![p] = next],
         UNCHANGED <<main, activity, global, runtime, queue, histories>>,
         next.shut = pool[p].shut, Bridge(p)', OwnPool(p)'
  PROVE  IInv'
<1>1. pool \in [Sessions -> PoolState] /\ runtime \in [Sessions -> RuntimeState] /\ late \in [Sessions -> Nat]
  BY DEF IInv, Types
<1>2. /\ pool' \in [Sessions -> PoolState] /\ pool'[p] = next
      /\ \A q \in Sessions : q # p => pool'[q] = pool[q]
  BY <1>1
<1>3. PoolStep(p)
  BY <1>1, <1>2 DEF PoolStep, histories
<1>4. QED
  BY <1>3, PoolStepInvariant

LEMMA DoneFields ==
  ASSUME NEW q \in PoolState
  PROVE  /\ Done(q) \in PoolState /\ Done(q).shut = q.shut /\ Done(q).waiting = FALSE
         /\ Done(q).at \in {"make", "idle"} /\ (~q.waiting => Done(q).at = "idle")
<1> DEFINE at == IF q.waiting THEN "make" ELSE "idle"
           next == [q EXCEPT !.at = at, !.waiting = FALSE, !.seen = None, !.target = None]
<1>1. None \in 0 .. MaxSessions
  BY SessionAssumption DEF None
<1>2. at \in {"make", "idle"} /\ (~q.waiting => at = "idle")
  BY Zenon
<1>3. Done(q) = next
  BY Zenon DEF Done
<1> HIDE DEF at
<1>4. next \in PoolState
  BY <1>1, <1>2 DEF PoolState
<1>5. next.shut = q.shut /\ next.waiting = FALSE /\ next.at = at
  BY DEF PoolState
<1> HIDE DEF next
<1>6. QED
  BY <1>2, <1>3, <1>4, <1>5

\* The thread has no business in the bridge any more.
LEMMA DoneInvariant ==
  ASSUME IInv, NEW p \in Sessions, pool'[p] = Done(pool[p]),
         UNCHANGED <<main, activity, late>>, pool[p].at # "make" \/ late[p] = 0
  PROVE  Bridge(p)' /\ OwnPool(p)'
<1>1. pool[p] \in PoolState
  BY DEF IInv, Types
<1>2. OwnPool(p)
  BY DEF IInv, Pools, OwnPool
<1>3. Bridge(p)'
  BY <1>1, DoneFields DEF Bridge
<1>4. OwnPool(p)'
  BY <1>1, <1>2, DoneFields DEF OwnPool, Current
<1>5. QED
  BY <1>3, <1>4

LEMMA EnterInvariant == ASSUME IInv, NEW p \in Sessions, Enter(p) PROVE IInv'
<1> DEFINE next == [pool[p] EXCEPT !.at = "test", !.seen = Current]
<1>1. /\ pool[p] \in PoolState /\ pool[p].at = "make" /\ Current \in 0 .. MaxSessions
      /\ pool \in [Sessions -> PoolState]
      /\ UNCHANGED <<main, activity, global, runtime, queue, histories>>
  BY Fields DEF Enter, IInv, Types
<1>2. OwnPool(p) /\ late[p] = 0
  BY <1>1 DEF IInv, Pools, OwnPool
<1>3. CASE activity.nativeStarted
  <2>1. next \in PoolState /\ next.shut = pool[p].shut /\ next.waiting = pool[p].waiting
        /\ next.at = "test" /\ next.seen = Current
    BY <1>1 DEF PoolState
  <2> HIDE DEF next
  <2>2. pool' = [pool EXCEPT ![p] = next]
    BY <1>3, Zenon DEF Enter, next
  <2>3. pool'[p] = next
    BY <1>1, <2>2
  <2>4. Bridge(p)'
    <3>1. /\ Current \in Sessions
          /\ main \in {"idle", "call", "stop"} \/ runtime[Current].stopping
      BY <1>3, Fields DEF IInv, Position, Present, Absent, Types, Lifecycle
    <3>2. QED
      BY <1>1, <1>3, <2>1, <2>3, <3>1 DEF Bridge, Current
  <2>5. OwnPool(p)'
    BY <1>1, <1>2, <2>1, <2>3 DEF OwnPool, Current, histories
  <2>6. QED
    BY <1>1, <2>1, <2>2, <2>4, <2>5, PoolOnly
<1>4. CASE ~activity.nativeStarted
  <2>1. pool' = [pool EXCEPT ![p] = Done(pool[p])]
    BY <1>4 DEF Enter
  <2>2. pool'[p] = Done(pool[p])
    BY <1>1, <2>1
  <2>3. Bridge(p)' /\ OwnPool(p)'
    BY <1>1, <1>2, <2>2, DoneInvariant DEF histories
  <2>4. QED
    BY <1>1, <2>1, <2>3, DoneFields, PoolOnly
<1>5. QED
  BY <1>3, <1>4

LEMMA TestInvariant == ASSUME IInv, NEW p \in Sessions, Test(p) PROVE IInv'
<1> DEFINE next == [pool[p] EXCEPT !.at = "load"]
<1>1. /\ pool[p] \in PoolState /\ pool[p].at = "test"
      /\ pool \in [Sessions -> PoolState]
      /\ UNCHANGED <<main, activity, global, runtime, queue, histories>>
  BY DEF Test, IInv, Types
<1>2. Bridge(p) /\ OwnPool(p) /\ late[p] = 0
  BY <1>1 DEF IInv, Pools, OwnPool, Bridges, Bridge
<1>3. CASE global.runtime # None
  <2>1. next \in PoolState /\ next.shut = pool[p].shut /\ next.waiting = pool[p].waiting
        /\ next.at = "load" /\ next.seen = pool[p].seen
    BY <1>1 DEF PoolState
  <2> HIDE DEF next
  <2>2. pool' = [pool EXCEPT ![p] = next]
    BY <1>3, Zenon DEF Test, next
  <2>3. pool'[p] = next
    BY <1>1, <2>2
  <2>4. Bridge(p)'
    BY <1>1, <1>2, <2>1, <2>3 DEF Bridge, Current
  <2>5. OwnPool(p)'
    BY <1>1, <1>2, <2>1, <2>3 DEF OwnPool, Current, histories
  <2>6. QED
    BY <1>1, <2>1, <2>2, <2>4, <2>5, PoolOnly
<1>4. CASE ~(global.runtime # None)
  <2>1. pool' = [pool EXCEPT ![p] = Done(pool[p])]
    BY <1>4 DEF Test
  <2>2. pool'[p] = Done(pool[p])
    BY <1>1, <2>1
  <2>3. Bridge(p)' /\ OwnPool(p)'
    BY <1>1, <1>2, <2>2, DoneInvariant DEF histories
  <2>4. QED
    BY <1>1, <2>1, <2>3, DoneFields, PoolOnly
<1>5. QED
  BY <1>3, <1>4

LEMMA LoadInvariant == ASSUME IInv, NEW p \in Sessions, Load(p) PROVE IInv'
<1> DEFINE next == [pool[p] EXCEPT !.at = "lock", !.target = global.runtime]
<1>1. /\ pool[p] \in PoolState /\ pool[p].at = "load" /\ global.runtime \in 0 .. MaxSessions
      /\ pool \in [Sessions -> PoolState]
      /\ UNCHANGED <<main, activity, global, runtime, queue, histories>>
  BY DEF Load, IInv, Types
<1>2. Bridge(p) /\ OwnPool(p) /\ late[p] = 0
  BY <1>1 DEF IInv, Pools, OwnPool, Bridges, Bridge
<1>3. /\ next \in PoolState /\ next.shut = pool[p].shut /\ next.waiting = pool[p].waiting
      /\ next.at = "lock" /\ next.seen = pool[p].seen /\ next.target = global.runtime
  BY <1>1 DEF PoolState
<1> HIDE DEF next
<1>4. pool' = [pool EXCEPT ![p] = next]
  BY Zenon DEF Load, next
<1>5. pool'[p] = next
  BY <1>1, <1>4
<1>6. runtime[pool[p].seen].stopping \/ global.runtime = pool[p].seen
  BY <1>1, <1>2 DEF Bridge, IInv, Position, Present
<1>7. Bridge(p)'
  BY <1>1, <1>2, <1>3, <1>5, <1>6 DEF Bridge, Current
<1>8. OwnPool(p)'
  BY <1>1, <1>2, <1>3, <1>5 DEF OwnPool, Current, histories
<1>9. QED
  BY <1>1, <1>3, <1>4, <1>7, <1>8, PoolOnly

LEMMA LockOnly ==
  ASSUME runtime \in [Sessions -> RuntimeState], NEW r \in Sessions, NEW holder \in Int,
         runtime' = [runtime EXCEPT ![r].lock = holder]
  PROVE  /\ runtime' \in [Sessions -> RuntimeState]
         /\ \A s \in Sessions :
              /\ runtime'[s].life = runtime[s].life /\ runtime'[s].started = runtime[s].started
              /\ runtime'[s].thread = runtime[s].thread /\ runtime'[s].pipe = runtime[s].pipe
              /\ runtime'[s].stopping = runtime[s].stopping
<1> DEFINE next == [runtime[r] EXCEPT !.lock = holder]
<1>1. /\ next \in RuntimeState
      /\ next.life = runtime[r].life /\ next.started = runtime[r].started
      /\ next.thread = runtime[r].thread /\ next.pipe = runtime[r].pipe
      /\ next.stopping = runtime[r].stopping
  BY DEF RuntimeState
<1>2. runtime' = [runtime EXCEPT ![r] = next]
  OBVIOUS
<1> HIDE DEF next
<1>3. runtime'[r] = next /\ \A s \in Sessions : s # r => runtime'[s] = runtime[s]
  BY <1>2
<1>4. runtime' \in [Sessions -> RuntimeState]
  BY <1>1, <1>2
<1>5. QED
  BY <1>1, <1>3, <1>4

LEMMA LockInvariant == ASSUME IInv, NEW p \in Sessions, Lock(p) PROVE IInv'
<1> DEFINE s == pool[p].target
           there == s # None /\ runtime[s].life = "live"
<1>1. /\ pool[p] \in PoolState /\ pool[p].at = "lock" /\ s \in 0 .. MaxSessions
      /\ pool \in [Sessions -> PoolState] /\ runtime \in [Sessions -> RuntimeState]
      /\ late \in [Sessions -> Nat] /\ late[p] = 0
      /\ s # None => s \in Sessions
  <2>1. Types /\ pool[p].at = "lock"
    BY DEF Lock, IInv
  <2>2. /\ pool[p] \in PoolState /\ s \in 0 .. MaxSessions /\ (s # None => s \in Sessions)
        /\ pool \in [Sessions -> PoolState] /\ runtime \in [Sessions -> RuntimeState]
        /\ late \in [Sessions -> Nat]
    <3>1. s \in 0 .. MaxSessions /\ MaxSessions \in Nat
      BY <2>1, Fields
    <3>2. s # None => s \in Sessions
      BY <3>1 DEF Sessions, None
    <3>3. QED
      BY <2>1, <3>1, <3>2 DEF Types
  <2>3. late[p] = 0
    BY <2>1 DEF IInv, Pools
  <2>4. QED
    BY <2>1, <2>2, <2>3
<1>2. Bridge(p) /\ OwnPool(p)
  BY DEF IInv, Bridges, Bridge, Pools, OwnPool
<1>3. CASE there
  <2>1. PICK at \in {"wake", "unlock"} : pool' = [pool EXCEPT ![p].at = at]
    BY <1>3 DEF Lock
  <2> DEFINE next == [pool[p] EXCEPT !.at = at]
  <2>2. /\ next \in PoolState /\ next.shut = pool[p].shut /\ next.waiting = pool[p].waiting
        /\ next.at = at /\ next.seen = pool[p].seen /\ next.target = s
    BY <1>1 DEF PoolState
  <2>3. pool' = [pool EXCEPT ![p] = next]
    BY <2>1
  <2> HIDE DEF next
  <2>4. /\ pool' \in [Sessions -> PoolState] /\ pool'[p] = next
        /\ \A q \in Sessions : q # p => pool'[q] = pool[q]
    BY <1>1, <2>2, <2>3
  <2>5. /\ UNCHANGED <<main, activity, global, queue, ran, faults>>
        /\ runtime' = [runtime EXCEPT ![s].lock = p]
        /\ late' = [late EXCEPT ![p] = IF pool[p].shut THEN @ + 1 ELSE @]
    BY <1>3 DEF Lock
  <2>6. /\ runtime' \in [Sessions -> RuntimeState]
        /\ \A r \in Sessions :
             /\ runtime'[r].life = runtime[r].life /\ runtime'[r].started = runtime[r].started
             /\ runtime'[r].thread = runtime[r].thread /\ runtime'[r].pipe = runtime[r].pipe
             /\ runtime'[r].stopping = runtime[r].stopping
    BY <1>1, <1>3, <2>5, Fields, LockOnly DEF IInv
  <2>7. /\ late' \in [Sessions -> Nat] /\ late'[p] \in {0, 1}
        /\ late'[p] = 1 => pool[p].shut
        /\ \A q \in Sessions : q # p => late'[q] = late[q]
    <3>1. CASE pool[p].shut
      <4>1. late' = [late EXCEPT ![p] = 1]
        BY <1>1, <2>5, <3>1
      <4>2. QED
        BY <1>1, <3>1, <4>1
    <3>2. CASE ~pool[p].shut
      <4>1. late' = [late EXCEPT ![p] = 0]
        BY <1>1, <2>5, <3>2
      <4>2. QED
        BY <1>1, <4>1
    <3>3. QED
      BY <3>1, <3>2
  <2>8. PoolStep(p)
    BY <2>2, <2>4, <2>5, <2>6, <2>7 DEF PoolStep
  <2>9. Bridge(p)'
    BY <1>1, <1>2, <1>3, <2>2, <2>4, <2>5, <2>6 DEF Bridge, Current
  <2>10. OwnPool(p)'
    BY <1>2, <2>1, <2>2, <2>4, <2>5, <2>7 DEF OwnPool, Current
  <2>11. QED
    BY <2>8, <2>9, <2>10, PoolStepInvariant
<1>4. CASE ~there
  <2>1. pool' = [pool EXCEPT ![p] = Done(pool[p])]
    BY <1>4 DEF Lock
  <2>2. /\ UNCHANGED <<main, activity, global, queue, ran, late, runtime>>
        /\ faults' = faults \cup {pool[p].seen}
    BY <1>4 DEF Lock, Fault
  <2>3. pool[p].seen \in Sessions /\ runtime[pool[p].seen].stopping
    BY <1>1, <1>2, <1>4 DEF Bridge, IInv, Position, Present, Serving, None, Sessions
  <2>4. /\ pool' \in [Sessions -> PoolState] /\ pool'[p] = Done(pool[p])
        /\ \A q \in Sessions : q # p => pool'[q] = pool[q]
        /\ pool'[p].shut = pool[p].shut
    BY <1>1, <2>1, DoneFields
  <2>5. PoolStep(p)
    BY <1>1, <2>2, <2>3, <2>4 DEF PoolStep
  <2>6. Bridge(p)' /\ OwnPool(p)'
    BY <1>1, <2>2, <2>4, DoneInvariant
  <2>7. QED
    BY <2>5, <2>6, PoolStepInvariant
<1>5. QED
  BY <1>3, <1>4

LEMMA WakeInvariant == ASSUME IInv, NEW p \in Sessions, Wake(p) PROVE IInv'
<1>1. /\ pool[p] \in PoolState /\ pool[p].at = "wake"
      /\ pool \in [Sessions -> PoolState]
      /\ UNCHANGED <<main, activity, global, runtime, queue, histories>>
  BY DEF Wake, IInv, Types
<1>2. Bridge(p) /\ OwnPool(p)
  BY DEF IInv, Pools, OwnPool, Bridges, Bridge
<1>3. PICK at \in {"write", "unlock"} : pool' = [pool EXCEPT ![p].at = at]
  BY DEF Wake
<1> DEFINE next == [pool[p] EXCEPT !.at = at]
<1>4. /\ next \in PoolState /\ next.shut = pool[p].shut /\ next.waiting = pool[p].waiting
      /\ next.at = at /\ next.seen = pool[p].seen /\ next.target = pool[p].target
  BY <1>1 DEF PoolState
<1>5. pool' = [pool EXCEPT ![p] = next]
  BY <1>3
<1> HIDE DEF next
<1>6. pool'[p] = next
  BY <1>1, <1>5
<1>7. Bridge(p)' /\ OwnPool(p)'
  BY <1>1, <1>2, <1>3, <1>4, <1>6 DEF Bridge, OwnPool, Current, histories
<1>8. QED
  BY <1>1, <1>4, <1>5, <1>7, PoolOnly

LEMMA WriteInvariant == ASSUME IInv, NEW p \in Sessions, Write(p) PROVE IInv'
<1> DEFINE next == [pool[p] EXCEPT !.at = "unlock"]
<1>1. /\ pool[p] \in PoolState /\ pool[p].at = "write"
      /\ pool \in [Sessions -> PoolState] /\ runtime \in [Sessions -> RuntimeState]
      /\ late \in [Sessions -> Nat]
      /\ UNCHANGED <<main, activity, global, runtime, queue, ran, late>>
  BY DEF Write, Fault, histories, IInv, Types
<1>2. Bridge(p) /\ OwnPool(p)
  BY DEF IInv, Pools, OwnPool, Bridges, Bridge
<1>3. /\ next \in PoolState /\ next.shut = pool[p].shut /\ next.waiting = pool[p].waiting
      /\ next.at = "unlock" /\ next.seen = pool[p].seen /\ next.target = pool[p].target
  BY <1>1 DEF PoolState
<1>4. pool' = [pool EXCEPT ![p] = next]
  BY DEF Write
<1> HIDE DEF next
<1>5. /\ pool' \in [Sessions -> PoolState] /\ pool'[p] = next
      /\ \A q \in Sessions : q # p => pool'[q] = pool[q]
  BY <1>1, <1>3, <1>4
<1>6. pool[p].seen \in Sessions
  BY <1>1, <1>2 DEF Bridge
<1>7. runtime[pool[p].seen].stopping \/ runtime[pool[p].target].pipe
  BY <1>1, <1>2 DEF Bridge, IInv, Position, Present, Serving
<1>8. faults' = faults \/ (faults' = faults \cup {pool[p].seen} /\ runtime[pool[p].seen].stopping)
  BY <1>7 DEF Write, Fault, histories
<1>9. PoolStep(p)
  BY <1>1, <1>3, <1>5, <1>6, <1>8 DEF PoolStep
<1>10. Bridge(p)' /\ OwnPool(p)'
  BY <1>1, <1>2, <1>3, <1>5 DEF Bridge, OwnPool, Current
<1>11. QED
  BY <1>9, <1>10, PoolStepInvariant

LEMMA UnlockInvariant == ASSUME IInv, NEW p \in Sessions, Unlock(p) PROVE IInv'
<1>1. /\ pool[p] \in PoolState /\ pool[p].at = "unlock" /\ pool[p].target \in Sessions
      /\ pool \in [Sessions -> PoolState] /\ runtime \in [Sessions -> RuntimeState]
      /\ late \in [Sessions -> Nat]
      /\ UNCHANGED <<main, activity, global, queue, histories>>
  BY DEF Unlock, IInv, Types, Bridges
<1>2. /\ pool' = [pool EXCEPT ![p] = Done(pool[p])]
      /\ runtime' = [runtime EXCEPT ![pool[p].target].lock = Nobody]
  BY DEF Unlock
<1>3. /\ pool' \in [Sessions -> PoolState] /\ pool'[p] = Done(pool[p])
      /\ \A q \in Sessions : q # p => pool'[q] = pool[q]
      /\ pool'[p].shut = pool[p].shut
  BY <1>1, <1>2, DoneFields
<1>4. /\ runtime' \in [Sessions -> RuntimeState]
      /\ \A r \in Sessions :
           /\ runtime'[r].life = runtime[r].life /\ runtime'[r].started = runtime[r].started
           /\ runtime'[r].thread = runtime[r].thread /\ runtime'[r].pipe = runtime[r].pipe
           /\ runtime'[r].stopping = runtime[r].stopping
  <2>1. Nobody \in Int
    BY DEF Nobody
  <2>2. QED
    BY <1>1, <1>2, <2>1, LockOnly
<1>5. PoolStep(p)
  BY <1>1, <1>3, <1>4 DEF PoolStep, histories
<1>6. Bridge(p)' /\ OwnPool(p)'
  BY <1>1, <1>3, DoneInvariant DEF histories
<1>7. QED
  BY <1>5, <1>6, PoolStepInvariant

LEMMA WorkerInvariant == ASSUME IInv, NEW p \in Sessions, Worker(p) PROVE IInv'
BY EnterInvariant, TestInvariant, LoadInvariant, LockInvariant, WakeInvariant, WriteInvariant,
   UnlockInvariant DEF Worker

-----------------------------------------------------------------------------
(* The queue. *)

\* A command is posted in the session that runs, behind whatever there is.
LEMMA PostedPosts ==
  ASSUME IInv, NEW s \in Sessions, queue' \in Posted(s), UNCHANGED activity,
         main' = "idle" \/ main' = main
  PROVE  queue' \in Seq(Message) /\ Posts'
<1>1. queue \in Seq(Message) /\ Len(queue) \in Nat
  BY DEF IInv, Types
<1>2. CASE queue' = queue
  BY <1>1, <1>2 DEF IInv, Posts, Places, Current
<1>3. CASE runtime[s].started /\ queue' = Append(queue, [kind |-> "command", session |-> s])
  <2>1. s = Current
    BY <1>3, Fields DEF IInv, Others, Passive
  <2>2. Current > 0 /\ ~Passive(Current)
    BY <1>3, <2>1, Fields DEF IInv, Passive
  <2>3. ~(main = "idle" /\ ~activity.resumed)
    BY <2>2 DEF IInv, Position, Absent
  <2>4. [kind |-> "command", session |-> s] \in Message
    BY DEF Message
  <2>5. /\ queue' \in Seq(Message) /\ Len(queue') = Len(queue) + 1
        /\ \A i \in 1 .. Len(queue) : queue'[i] = queue[i]
        /\ queue'[Len(queue) + 1] = [kind |-> "command", session |-> s]
    BY <1>1, <1>3, <2>4, AppendProperties
  <2>6. ASSUME NEW i \in Places'
        PROVE  \/ i \in Places /\ queue'[i] = queue[i]
               \/ i = Len(queue) + 1 /\ queue'[i].kind = "command" /\ queue'[i].session = s
    BY <1>1, <2>5 DEF Places
  <2>7. \A i \in Places : queue[i].kind # "resume"
    BY <2>3 DEF IInv, Posts
  <2>8. Posts'
    BY <2>1, <2>6, <2>7 DEF IInv, Posts, Current
  <2>9. QED
    BY <2>5, <2>8
<1>4. QED
  BY <1>2, <1>3 DEF Posted

\* The first message is taken.
LEMMA Taken ==
  ASSUME queue \in Seq(Message), queue # <<>>, queue' = Tail(queue)
  PROVE  /\ queue' \in Seq(Message) /\ Len(queue') = Len(queue) - 1 /\ Len(queue) \in Nat \ {0}
         /\ 1 \in Places
         /\ \A i \in Places' : i + 1 \in Places /\ queue'[i] = queue[i + 1]
<1>1. Len(queue) \in Nat \ {0}
  BY EmptySeq
<1>2. /\ queue' \in Seq(Message) /\ Len(queue') = Len(queue) - 1
      /\ \A i \in 1 .. Len(queue) - 1 : queue'[i] = queue[i + 1]
  BY <1>1
<1>3. QED
  BY <1>1, <1>2 DEF Places

LEMMA AndroidInvariant == ASSUME IInv, Android PROVE IInv'
<1> USE DEF IInv
<1>1. /\ UNCHANGED <<main, activity, global, runtime, pool, histories>>
      /\ queue \in Seq(Message) /\ Len(queue) \in Nat
      /\ \A i \in Places : queue[i].kind = "command"
  BY DEF Android, Types, Places
<1>2. PICK message \in Message :
        /\ queue' = Append(queue, message)
        /\ \/ activity.resumed /\ message.kind = "pause"
           \/ /\ ~activity.resumed /\ main = "idle" /\ Current < MaxSessions
              /\ message.kind = "resume"
  <2>1. Current \in 0 .. MaxSessions /\ MaxSessions \in Nat
    BY SessionAssumption DEF Types, Current
  <2>2. CASE activity.resumed /\ queue' = Append(queue, [kind |-> "pause", session |-> Current])
    <3>1. [kind |-> "pause", session |-> Current] \in Message
      BY <2>1 DEF Message, Sessions, None
    <3>2. QED
      BY <2>2, <3>1
  <2>3. CASE /\ ~activity.resumed /\ main = "idle" /\ Current < MaxSessions
             /\ queue' = Append(queue, [kind |-> "resume", session |-> Current + 1])
    <3>1. [kind |-> "resume", session |-> Current + 1] \in Message
      BY <2>1, <2>3 DEF Message, Sessions, None
    <3>2. QED
      BY <2>3, <3>1
  <2>4. QED
    BY <2>2, <2>3 DEF Android
<1>3. /\ queue' \in Seq(Message) /\ Len(queue') = Len(queue) + 1
      /\ \A i \in 1 .. Len(queue) : queue'[i] = queue[i]
      /\ queue'[Len(queue) + 1] = message
  BY <1>1, <1>2, AppendProperties
<1>4. ASSUME NEW i \in Places'
      PROVE  \/ i \in Places /\ queue'[i] = queue[i] /\ queue'[i].kind = "command"
             \/ i = Len(queue') /\ queue'[i] = message
  BY <1>1, <1>3 DEF Places
<1>5. Types'
  BY <1>1, <1>3 DEF Types, histories
<1>6. Position' /\ Others' /\ Bridges' /\ Pools' /\ CommandsKeepTheirSession' /\ FaultsAreLate'
  BY <1>1 DEF Position, Others, Bridges, Pools, CommandsKeepTheirSession, FaultsAreLate,
              Serving, Passive, Present, Absent, Current, histories
<1>7. Posts'
  BY <1>1, <1>2, <1>4 DEF Posts, Current
<1>8. QED
  BY <1>5, <1>6, <1>7

-----------------------------------------------------------------------------
(* The main thread and the server threads. *)

\* Steps that change neither the pools nor the histories.
LEMMA Quiet ==
  ASSUME IInv, UNCHANGED <<pool, late, faults, ran>>, Current' = Current,
         activity'.resumed => activity.resumed,
         \A s \in Sessions : runtime[s].stopping => runtime'[s].stopping,
         Current > 0 /\ main \in {"idle", "call", "stop"} /\ activity.nativeStarted =>
           \/ main' \in {"idle", "call", "stop"} /\ activity'.nativeStarted
           \/ runtime'[Current].stopping
  PROVE  Bridges' /\ Pools' /\ FaultsAreLate' /\ CommandsKeepTheirSession'
<1> USE DEF IInv
<1>1. Bridges'
  <2>1. ASSUME NEW p \in Sessions PROVE Bridge(p)'
    <3>1. Bridge(p)
      BY DEF Bridges, Bridge
    <3>2. pool[p].seen \in Sessions => pool[p].seen > 0
      BY Fields
    <3>3. QED
      BY <3>1, <3>2 DEF Bridge
  <2>2. QED
    BY <2>1 DEF Bridges, Bridge
<1>2. Pools'
  BY DEF Pools
<1>3. FaultsAreLate'
  <2>1. ASSUME NEW s \in faults PROVE s # None /\ runtime'[s].stopping
    <3>1. s \in 0 .. MaxSessions /\ s # None /\ runtime[s].stopping
      BY DEF FaultsAreLate, Types
    <3>2. s \in Sessions
      BY <3>1, SessionAssumption DEF Sessions, None
    <3>3. QED
      BY <3>1, <3>2
  <2>2. QED
    BY <2>1 DEF FaultsAreLate
<1>4. CommandsKeepTheirSession'
  BY DEF CommandsKeepTheirSession
<1>5. QED
  BY <1>1, <1>2, <1>3, <1>4

LEMMA SamePosts ==
  ASSUME IInv, UNCHANGED queue, Current' = Current, activity'.resumed = activity.resumed,
         main # "idle" \/ activity.resumed
  PROVE  Posts'
BY DEF IInv, Posts, Places

LEMMA OthersKeep ==
  ASSUME IInv, UNCHANGED pool, Current' = Current,
         \A s \in Sessions : s # Current => runtime'[s] = runtime[s]
  PROVE  Others'
<1>1. \A s \in Sessions : s \in Int /\ Current \in Int
  BY Fields DEF IInv
<1>2. QED
  BY <1>1 DEF IInv, Others, Passive

\* One runtime changes.
LEMMA RuntimeChanges ==
  ASSUME IInv, Current > 0, NEW next \in RuntimeState, runtime' = [runtime EXCEPT ![Current] = next],
         runtime[Current].stopping => next.stopping
  PROVE  /\ runtime' \in [Sessions -> RuntimeState] /\ runtime'[Current] = next
         /\ \A s \in Sessions : s # Current => runtime'[s] = runtime[s]
         /\ \A s \in Sessions : runtime[s].stopping => runtime'[s].stopping
<1>1. Current \in Sessions /\ runtime \in [Sessions -> RuntimeState]
  BY SessionAssumption DEF IInv, Types, Current, Sessions
<1>2. QED
  BY <1>1

LEMMA CreateInvariant == ASSUME IInv, Create PROVE IInv'
<1> USE DEF IInv
<1> DEFINE next == [runtime[Current] EXCEPT !.life = "live"]
<1>1. /\ main = "create" /\ Absent /\ activity.resumed /\ ~activity.nativeStarted
      /\ Current > 0 /\ Passive(Current) /\ runtime[Current].thread = "none"
      /\ ~runtime[Current].stopping
  BY DEF Create, Position
<1>2. /\ runtime' = [runtime EXCEPT ![Current] = next]
      /\ global' = [runtime |-> Current, activity |-> TRUE] /\ main' = "start"
      /\ UNCHANGED <<activity, pool, queue, histories>>
  BY <1>1 DEF Create, Absent
<1>3. /\ Current \in 0 .. MaxSessions /\ Current' = Current
      /\ runtime[Current] \in RuntimeState
  BY <1>1, <1>2, SessionAssumption DEF Types, Current, Sessions
<1>4. /\ next \in RuntimeState /\ next.life = "live" /\ next.started = runtime[Current].started
      /\ next.thread = runtime[Current].thread /\ next.stopping = runtime[Current].stopping
  BY <1>3 DEF RuntimeState
<1> HIDE DEF next
<1>5. /\ runtime' \in [Sessions -> RuntimeState] /\ runtime'[Current] = next
      /\ \A s \in Sessions : s # Current => runtime'[s] = runtime[s]
      /\ \A s \in Sessions : runtime[s].stopping => runtime'[s].stopping
  BY <1>1, <1>2, <1>4, RuntimeChanges
<1>6. Types'
  BY <1>2, <1>3, <1>5 DEF Types, histories, Lifecycle
<1>7. Position'
  <2>1. Present' /\ Passive(Current)'
    BY <1>1, <1>2, <1>3, <1>4, <1>5 DEF Present, Passive
  <2>2. QED
    BY <1>1, <1>2, <1>3, <1>4, <1>5, <2>1 DEF Position
<1>8. Others'
  BY <1>2, <1>3, <1>5, OthersKeep
<1>9. Posts'
  BY <1>1, <1>2, <1>3, SamePosts
<1>10. Bridges' /\ Pools' /\ FaultsAreLate' /\ CommandsKeepTheirSession'
  BY <1>1, <1>2, <1>3, <1>5, Quiet DEF histories
<1>11. QED
  BY <1>6, <1>7, <1>8, <1>9, <1>10

LEMMA UndoInvariant == ASSUME IInv, Undo PROVE IInv'
<1> USE DEF IInv
<1> DEFINE next == [runtime[Current] EXCEPT !.life = "deleted"]
<1>1. /\ main = "undo" /\ Current > 0
      /\ activity.resumed /\ ~activity.nativeStarted /\ Present /\ Passive(Current)
      /\ ~runtime[Current].stopping
  BY DEF Undo, Position, Present, Serving
<1>2. /\ runtime' = [runtime EXCEPT ![Current] = next]
      /\ main' = "undone"
      /\ UNCHANGED <<activity, global, pool, queue, histories>>
  BY <1>1, Zenon DEF Undo, Present
<1>3. /\ Current \in 0 .. MaxSessions /\ Current' = Current
      /\ runtime[Current] \in RuntimeState
  BY <1>1, <1>2, SessionAssumption DEF Types, Current, Sessions
<1>4. /\ next \in RuntimeState
      /\ next.started = runtime[Current].started /\ next.thread = runtime[Current].thread
      /\ next.stopping = runtime[Current].stopping
      /\ runtime[Current].stopping => next.stopping
  BY <1>3 DEF RuntimeState
<1> HIDE DEF next
<1>5. /\ runtime' \in [Sessions -> RuntimeState] /\ runtime'[Current] = next
      /\ \A s \in Sessions : s # Current => runtime'[s] = runtime[s]
      /\ \A s \in Sessions : runtime[s].stopping => runtime'[s].stopping
  BY <1>1, <1>2, <1>4, RuntimeChanges
<1>6. Types'
  BY <1>2, <1>3, <1>5 DEF Types, histories, Lifecycle
<1>7. Position'
  <2>1. Present' = Present /\ Absent' = Absent
    BY <1>2, <1>3 DEF Present, Absent
  <2>2. QED
    BY <1>1, <1>2, <1>3, <1>4, <1>5, <2>1 DEF Position, Passive, Serving
<1>8. Others'
  BY <1>2, <1>3, <1>5, OthersKeep
<1>9. Posts'
  BY <1>1, <1>2, <1>3, SamePosts
<1>10. Bridges' /\ Pools' /\ FaultsAreLate' /\ CommandsKeepTheirSession'
  BY <1>1, <1>2, <1>3, <1>4, <1>5, Quiet DEF histories
<1>11. QED
  BY <1>6, <1>7, <1>8, <1>9, <1>10

LEMMA StopInvariant == ASSUME IInv, Stop PROVE IInv'
<1> USE DEF IInv
<1> DEFINE next == [runtime[Current] EXCEPT !.started = FALSE, !.stopping = TRUE]
<1>1. /\ main = "stop" /\ Current > 0
      /\ ~activity.resumed /\ activity.nativeStarted /\ Present /\ Serving(Current)
  BY DEF Stop, Position, Present, Serving
<1>2. /\ runtime' = [runtime EXCEPT ![Current] = next]
      /\ main' = "join"
      /\ UNCHANGED <<activity, global, pool, queue, histories>>
  BY <1>1, Zenon DEF Stop, Present
<1>3. /\ Current \in 0 .. MaxSessions /\ Current' = Current
      /\ runtime[Current] \in RuntimeState
  BY <1>1, <1>2, SessionAssumption DEF Types, Current, Sessions
<1>4. /\ next \in RuntimeState
      /\ next.started = FALSE /\ next.stopping = TRUE
      /\ next.life = runtime[Current].life /\ next.pipe = runtime[Current].pipe
      /\ runtime[Current].stopping => next.stopping
  BY <1>3 DEF RuntimeState
<1> HIDE DEF next
<1>5. /\ runtime' \in [Sessions -> RuntimeState] /\ runtime'[Current] = next
      /\ \A s \in Sessions : s # Current => runtime'[s] = runtime[s]
      /\ \A s \in Sessions : runtime[s].stopping => runtime'[s].stopping
  BY <1>1, <1>2, <1>4, RuntimeChanges
<1>6. Types'
  BY <1>2, <1>3, <1>5 DEF Types, histories, Lifecycle
<1>7. Position'
  <2>1. Present' = Present /\ Absent' = Absent
    BY <1>2, <1>3 DEF Present, Absent
  <2>2. QED
    BY <1>1, <1>2, <1>3, <1>4, <1>5, <2>1 DEF Position, Passive, Serving
<1>8. Others'
  BY <1>2, <1>3, <1>5, OthersKeep
<1>9. Posts'
  BY <1>1, <1>2, <1>3, SamePosts
<1>10. Bridges' /\ Pools' /\ FaultsAreLate' /\ CommandsKeepTheirSession'
  BY <1>1, <1>2, <1>3, <1>4, <1>5, Quiet DEF histories
<1>11. QED
  BY <1>6, <1>7, <1>8, <1>9, <1>10

LEMMA JoinInvariant == ASSUME IInv, Join PROVE IInv'
<1> USE DEF IInv
<1> DEFINE next == [runtime[Current] EXCEPT !.pipe = FALSE]
<1>1. /\ main = "join" /\ Current > 0
      /\ ~activity.resumed /\ Present
      /\ runtime[Current].life = "live" /\ runtime[Current].stopping /\ ~runtime[Current].started
      /\ runtime[Current].thread = "ended"
  BY DEF Join, Position, Present, Serving
<1>2. /\ runtime' = [runtime EXCEPT ![Current] = next]
      /\ main' = "delete"
      /\ UNCHANGED <<activity, global, pool, queue, histories>>
  BY <1>1, Zenon DEF Join, Present
<1>3. /\ Current \in 0 .. MaxSessions /\ Current' = Current
      /\ runtime[Current] \in RuntimeState
  BY <1>1, <1>2, SessionAssumption DEF Types, Current, Sessions
<1>4. /\ next \in RuntimeState
      /\ next.started = runtime[Current].started /\ next.thread = runtime[Current].thread
      /\ next.stopping = runtime[Current].stopping /\ next.life = runtime[Current].life
      /\ runtime[Current].stopping => next.stopping
  BY <1>3 DEF RuntimeState
<1> HIDE DEF next
<1>5. /\ runtime' \in [Sessions -> RuntimeState] /\ runtime'[Current] = next
      /\ \A s \in Sessions : s # Current => runtime'[s] = runtime[s]
      /\ \A s \in Sessions : runtime[s].stopping => runtime'[s].stopping
  BY <1>1, <1>2, <1>4, RuntimeChanges
<1>6. Types'
  BY <1>2, <1>3, <1>5 DEF Types, histories, Lifecycle
<1>7. Position'
  <2>1. Present' = Present /\ Absent' = Absent
    BY <1>2, <1>3 DEF Present, Absent
  <2>2. QED
    BY <1>1, <1>2, <1>3, <1>4, <1>5, <2>1 DEF Position, Passive, Serving
<1>8. Others'
  BY <1>2, <1>3, <1>5, OthersKeep
<1>9. Posts'
  BY <1>1, <1>2, <1>3, SamePosts
<1>10. Bridges' /\ Pools' /\ FaultsAreLate' /\ CommandsKeepTheirSession'
  BY <1>1, <1>2, <1>3, <1>4, <1>5, Quiet DEF histories
<1>11. QED
  BY <1>6, <1>7, <1>8, <1>9, <1>10

LEMMA DeleteInvariant == ASSUME IInv, Delete PROVE IInv'
<1> USE DEF IInv
<1> DEFINE next == [runtime[Current] EXCEPT !.life = "deleted"]
<1>1. /\ main = "delete" /\ Current > 0
      /\ ~activity.resumed /\ Present /\ Passive(Current) /\ runtime[Current].stopping
  BY DEF Delete, Position, Present, Serving
<1>2. /\ runtime' = [runtime EXCEPT ![Current] = next]
      /\ main' = "clear"
      /\ UNCHANGED <<activity, global, pool, queue, histories>>
  BY <1>1, Zenon DEF Delete, Present
<1>3. /\ Current \in 0 .. MaxSessions /\ Current' = Current
      /\ runtime[Current] \in RuntimeState
  BY <1>1, <1>2, SessionAssumption DEF Types, Current, Sessions
<1>4. /\ next \in RuntimeState
      /\ next.started = runtime[Current].started /\ next.thread = runtime[Current].thread
      /\ next.stopping = runtime[Current].stopping
      /\ runtime[Current].stopping => next.stopping
  BY <1>3 DEF RuntimeState
<1> HIDE DEF next
<1>5. /\ runtime' \in [Sessions -> RuntimeState] /\ runtime'[Current] = next
      /\ \A s \in Sessions : s # Current => runtime'[s] = runtime[s]
      /\ \A s \in Sessions : runtime[s].stopping => runtime'[s].stopping
  BY <1>1, <1>2, <1>4, RuntimeChanges
<1>6. Types'
  BY <1>2, <1>3, <1>5 DEF Types, histories, Lifecycle
<1>7. Position'
  <2>1. Present' = Present /\ Absent' = Absent
    BY <1>2, <1>3 DEF Present, Absent
  <2>2. QED
    BY <1>1, <1>2, <1>3, <1>4, <1>5, <2>1 DEF Position, Passive, Serving
<1>8. Others'
  BY <1>2, <1>3, <1>5, OthersKeep
<1>9. Posts'
  BY <1>1, <1>2, <1>3, SamePosts
<1>10. Bridges' /\ Pools' /\ FaultsAreLate' /\ CommandsKeepTheirSession'
  BY <1>1, <1>2, <1>3, <1>4, <1>5, Quiet DEF histories
<1>11. QED
  BY <1>6, <1>7, <1>8, <1>9, <1>10

LEMMA UndoneInvariant == ASSUME IInv, Undone PROVE IInv'
<1> USE DEF IInv
<1>1. /\ main = "undone" /\ Current > 0
      /\ activity.resumed /\ ~activity.nativeStarted /\ Passive(Current)
  BY DEF Undone, Position
<1>2. /\ global' = [runtime |-> None, activity |-> FALSE]
      /\ main' = "idle"
      /\ UNCHANGED <<activity, runtime, pool, queue, alive, ran, late, faults>>
  BY <1>1 DEF Undone, histories
<1>3. /\ Current' = Current /\ activity'.resumed = activity.resumed
      /\ Current \in 0 .. MaxSessions /\ MaxSessions \in Nat
      /\ global' \in [runtime : 0 .. MaxSessions, activity : BOOLEAN] /\ global'.runtime = None
  <2>1. Current' = Current /\ activity'.resumed = activity.resumed
    BY <1>1, <1>2 DEF Types, Current
  <2>2. Current \in 0 .. MaxSessions /\ MaxSessions \in Nat /\ None \in 0 .. MaxSessions
    BY SessionAssumption DEF Types, Current, None
  <2>3. QED
    BY <1>1, <1>2, <2>1, <2>2 DEF Types
<1>4. Types'
  BY <1>2, <1>3 DEF Types, Lifecycle
<1>5. Position'
  BY <1>1, <1>2, <1>3 DEF Position, Present, Absent, Passive, Serving
<1>6. Others'
  BY <1>2, <1>3, OthersKeep
<1>7. Posts'
  BY <1>1, <1>2, <1>3, SamePosts
<1>8. Bridges' /\ Pools' /\ FaultsAreLate' /\ CommandsKeepTheirSession'
  BY <1>1, <1>2, <1>3, Quiet
<1>9. QED
  BY <1>4, <1>5, <1>6, <1>7, <1>8

LEMMA ClearInvariant == ASSUME IInv, Clear PROVE IInv'
<1> USE DEF IInv
<1>1. /\ main = "clear" /\ Current > 0
      /\ ~activity.resumed /\ Passive(Current) /\ runtime[Current].stopping
  BY DEF Clear, Position
<1>2. /\ global' = [runtime |-> None, activity |-> FALSE]
      /\ main' = "stopped"
      /\ UNCHANGED <<activity, runtime, pool, queue, alive, ran, late, faults>>
  BY <1>1 DEF Clear, histories
<1>3. /\ Current' = Current /\ activity'.resumed = activity.resumed
      /\ Current \in 0 .. MaxSessions /\ MaxSessions \in Nat
      /\ global' \in [runtime : 0 .. MaxSessions, activity : BOOLEAN] /\ global'.runtime = None
  <2>1. Current' = Current /\ activity'.resumed = activity.resumed
    BY <1>1, <1>2 DEF Types, Current
  <2>2. Current \in 0 .. MaxSessions /\ MaxSessions \in Nat /\ None \in 0 .. MaxSessions
    BY SessionAssumption DEF Types, Current, None
  <2>3. QED
    BY <1>1, <1>2, <2>1, <2>2 DEF Types
<1>4. Types'
  BY <1>2, <1>3 DEF Types, Lifecycle
<1>5. Position'
  BY <1>1, <1>2, <1>3 DEF Position, Present, Absent, Passive, Serving
<1>6. Others'
  BY <1>2, <1>3, OthersKeep
<1>7. Posts'
  BY <1>1, <1>2, <1>3, SamePosts
<1>8. Bridges' /\ Pools' /\ FaultsAreLate' /\ CommandsKeepTheirSession'
  BY <1>1, <1>2, <1>3, Quiet
<1>9. QED
  BY <1>4, <1>5, <1>6, <1>7, <1>8

LEMMA StartedInvariant == ASSUME IInv, Started PROVE IInv'
<1> USE DEF IInv
<1>1. /\ main = "started" /\ Current > 0
      /\ activity.resumed /\ ~activity.nativeStarted /\ Present /\ Serving(Current)
  <2>1. main = "started"
    BY DEF Started
  <2>2. activity.resumed /\ Present /\ Serving(Current)
    BY <2>1 DEF Position
  <2>3. ~activity.nativeStarted
    BY <2>1, Zenon DEF Position
  <2>4. Current > 0
    BY <2>2 DEF Present
  <2>5. QED
    BY <2>1, <2>2, <2>3, <2>4
<1>2. /\ activity' = [activity EXCEPT !.nativeStarted = TRUE]
      /\ main' = "call"
      /\ UNCHANGED <<global, runtime, pool, queue, alive, ran, late, faults>>
  BY <1>1 DEF Started, histories
<1>3. /\ Current' = Current /\ activity'.resumed = activity.resumed
      /\ Current \in 0 .. MaxSessions /\ MaxSessions \in Nat
      /\ activity' \in [resumed : BOOLEAN, nativeStarted : BOOLEAN, session : 0 .. MaxSessions]
      /\ activity'.nativeStarted = TRUE
  <2>1. Current' = Current /\ activity'.resumed = activity.resumed
    BY <1>1, <1>2 DEF Types, Current
  <2>2. Current \in 0 .. MaxSessions /\ MaxSessions \in Nat /\ None \in 0 .. MaxSessions
    BY SessionAssumption DEF Types, Current, None
  <2>3. QED
    BY <1>1, <1>2, <2>1, <2>2 DEF Types
<1>4. Types'
  BY <1>2, <1>3 DEF Types, Lifecycle
<1>5. Position'
  BY <1>1, <1>2, <1>3 DEF Position, Present, Absent, Passive, Serving
<1>6. Others'
  BY <1>2, <1>3, OthersKeep
<1>7. Posts'
  BY <1>1, <1>2, <1>3, SamePosts
<1>8. Bridges' /\ Pools' /\ FaultsAreLate' /\ CommandsKeepTheirSession'
  BY <1>1, <1>2, <1>3, Quiet
<1>9. QED
  BY <1>4, <1>5, <1>6, <1>7, <1>8

LEMMA StoppedInvariant == ASSUME IInv, Stopped PROVE IInv'
<1> USE DEF IInv
<1>1. /\ main = "stopped" /\ Current > 0
      /\ ~activity.resumed /\ Passive(Current) /\ runtime[Current].stopping
      /\ global.runtime = None
  BY DEF Stopped, Position
<1>2. /\ activity' = [activity EXCEPT !.nativeStarted = FALSE]
      /\ main' = "release"
      /\ UNCHANGED <<global, runtime, pool, queue, alive, ran, late, faults>>
  BY <1>1 DEF Stopped, histories
<1>3. /\ Current' = Current /\ activity'.resumed = activity.resumed
      /\ Current \in 0 .. MaxSessions /\ MaxSessions \in Nat
      /\ activity' \in [resumed : BOOLEAN, nativeStarted : BOOLEAN, session : 0 .. MaxSessions]
      /\ activity'.nativeStarted = FALSE
  <2>1. Current' = Current /\ activity'.resumed = activity.resumed
    BY <1>1, <1>2 DEF Types, Current
  <2>2. Current \in 0 .. MaxSessions /\ MaxSessions \in Nat /\ None \in 0 .. MaxSessions
    BY SessionAssumption DEF Types, Current, None
  <2>3. QED
    BY <1>1, <1>2, <2>1, <2>2 DEF Types
<1>4. Types'
  BY <1>2, <1>3 DEF Types, Lifecycle
<1>5. Position'
  BY <1>1, <1>2, <1>3 DEF Position, Present, Absent, Passive, Serving
<1>6. Others'
  BY <1>2, <1>3, OthersKeep
<1>7. Posts'
  BY <1>1, <1>2, <1>3, SamePosts
<1>8. Bridges' /\ Pools' /\ FaultsAreLate' /\ CommandsKeepTheirSession'
  BY <1>1, <1>2, <1>3, Quiet
<1>9. QED
  BY <1>4, <1>5, <1>6, <1>7, <1>8

LEMMA StartInvariant == ASSUME IInv, Start PROVE IInv'
<1> USE DEF IInv
<1> DEFINE next == [runtime[Current] EXCEPT !.started = TRUE, !.pipe = TRUE, !.thread = "top"]
<1>1. /\ main = "start" /\ Current > 0 /\ activity.resumed /\ ~activity.nativeStarted
      /\ Present /\ Passive(Current) /\ runtime[Current].life = "live"
      /\ runtime[Current].thread = "none" /\ ~runtime[Current].stopping
  BY DEF Start, Position
<1>2. /\ UNCHANGED <<activity, global, pool, queue, histories>>
      /\ \/ main' = "started" /\ runtime' = [runtime EXCEPT ![Current] = next]
         \/ main' = "undo" /\ UNCHANGED runtime
  BY DEF Start
<1>3. /\ Current \in 0 .. MaxSessions /\ Current' = Current
      /\ runtime[Current] \in RuntimeState
  BY <1>1, <1>2, SessionAssumption DEF Types, Current, Sessions
<1>4. /\ next \in RuntimeState /\ next.started = TRUE /\ next.pipe = TRUE /\ next.thread = "top"
      /\ next.life = runtime[Current].life /\ next.stopping = runtime[Current].stopping
  BY <1>3 DEF RuntimeState
<1> HIDE DEF next
<1>5. CASE main' = "started" /\ runtime' = [runtime EXCEPT ![Current] = next]
  <2>1. /\ runtime' \in [Sessions -> RuntimeState] /\ runtime'[Current] = next
        /\ \A s \in Sessions : s # Current => runtime'[s] = runtime[s]
        /\ \A s \in Sessions : runtime[s].stopping => runtime'[s].stopping
    BY <1>1, <1>4, <1>5, RuntimeChanges
  <2>2. Types'
    BY <1>2, <1>3, <1>5, <2>1 DEF Types, histories, Lifecycle
  <2>3. Position'
    <3>1. Present' = Present
      BY <1>2, <1>3 DEF Present
    <3>2. QED
      BY <1>1, <1>2, <1>3, <1>4, <1>5, <2>1, <3>1 DEF Position, Serving
  <2>4. Others'
    BY <1>2, <1>3, <2>1, OthersKeep
  <2>5. Bridges' /\ Pools' /\ FaultsAreLate' /\ CommandsKeepTheirSession'
    BY <1>1, <1>2, <1>3, <2>1, Quiet DEF histories
  <2>6. Posts'
    BY <1>1, <1>2, <1>3, SamePosts
  <2>7. QED
    BY <2>2, <2>3, <2>4, <2>5, <2>6
<1>6. CASE main' = "undo" /\ UNCHANGED runtime
  <2>1. Types'
    BY <1>2, <1>6 DEF Types, histories, Lifecycle
  <2>2. Position'
    BY <1>1, <1>2, <1>3, <1>6 DEF Position, Present, Passive
  <2>3. Others'
    BY <1>2, <1>3, <1>6, OthersKeep
  <2>4. Bridges' /\ Pools' /\ FaultsAreLate' /\ CommandsKeepTheirSession'
    BY <1>1, <1>2, <1>3, <1>6, Quiet DEF histories
  <2>5. Posts'
    BY <1>1, <1>2, <1>3, SamePosts
  <2>6. QED
    BY <2>1, <2>2, <2>3, <2>4, <2>5
<1>7. QED
  BY <1>2, <1>5, <1>6

LEMMA EventInvariant == ASSUME IInv, Event PROVE IInv'
<1> USE DEF IInv
<1>1. /\ main = "idle" /\ activity.nativeStarted /\ main' = "call"
      /\ UNCHANGED <<activity, global, runtime, pool, queue, histories>>
  BY DEF Event
<1>2. activity.resumed /\ Present /\ Serving(Current) /\ Current' = Current
  BY <1>1 DEF Position, Current
<1>3. Types'
  BY <1>1 DEF Types, histories
<1>4. Position'
  BY <1>1, <1>2 DEF Position, Present, Serving
<1>5. Others'
  BY <1>1, <1>2, OthersKeep
<1>6. Posts'
  BY <1>1, <1>2, SamePosts
<1>7. Bridges' /\ Pools' /\ FaultsAreLate' /\ CommandsKeepTheirSession'
  BY <1>1, <1>2, Quiet DEF histories
<1>8. QED
  BY <1>3, <1>4, <1>5, <1>6, <1>7

LEMMA CallInvariant == ASSUME IInv, Call PROVE IInv'
<1> USE DEF IInv
<1>1. /\ main = "call" /\ main' = "idle" /\ queue' \in Posted(global.runtime)
      /\ UNCHANGED <<activity, global, runtime, pool, histories>>
  BY DEF Call
<1>2. activity.resumed /\ activity.nativeStarted /\ Present /\ Serving(Current) /\ Current' = Current
  BY <1>1 DEF Position, Current
<1>3. global.runtime = Current /\ Current \in Sessions
  BY <1>2, SessionAssumption DEF Present, Types, Current, Sessions
<1>4. queue' \in Seq(Message) /\ Posts'
  BY <1>1, <1>3, PostedPosts
<1>5. Types'
  BY <1>1, <1>4 DEF Types, histories
<1>6. Position'
  BY <1>1, <1>2 DEF Position, Present, Serving
<1>7. Others'
  BY <1>1, <1>2, OthersKeep
<1>8. Bridges' /\ Pools' /\ FaultsAreLate' /\ CommandsKeepTheirSession'
  BY <1>1, <1>2, Quiet DEF histories
<1>9. QED
  BY <1>4, <1>5, <1>6, <1>7, <1>8

\* The thread that has a round to do belongs to the session that runs.
LEMMA ServerInvariant == ASSUME IInv, NEW s \in Sessions, Server(s) PROVE IInv'
<1> USE DEF IInv
<1>1. runtime[s].thread \in {"top", "call"}
  BY DEF Server, BeginRound, ServerCall
<1>2. s = Current /\ Current > 0 /\ ~Passive(Current)
  BY <1>1, Fields DEF Others, Passive
<1>3. \E thread \in {"top", "call", "ended"} :
        /\ runtime' = [runtime EXCEPT ![s].thread = thread]
        /\ thread = "ended" => runtime[s].stopping
  BY DEF Server, BeginRound, ServerCall
<1>4. PICK thread \in {"top", "call", "ended"} :
        /\ runtime' = [runtime EXCEPT ![s].thread = thread]
        /\ thread = "ended" => runtime[s].stopping
  BY <1>3
<1>5. /\ UNCHANGED <<main, activity, global, pool, histories>> /\ Current' = Current
      /\ queue' = queue \/ queue' \in Posted(s)
  BY DEF Server, BeginRound, ServerCall, Current
<1> DEFINE next == [runtime[Current] EXCEPT !.thread = thread]
<1>6. Current \in 0 .. MaxSessions /\ runtime[Current] \in RuntimeState
  BY <1>2 DEF Types, Current
<1>7. /\ next \in RuntimeState /\ next.thread = thread
      /\ next.life = runtime[Current].life /\ next.started = runtime[Current].started
      /\ next.pipe = runtime[Current].pipe /\ next.stopping = runtime[Current].stopping
  BY <1>6 DEF RuntimeState
<1>8. runtime' = [runtime EXCEPT ![Current] = next]
  BY <1>2, <1>4
<1> HIDE DEF next
<1>9. /\ runtime' \in [Sessions -> RuntimeState] /\ runtime'[Current] = next
      /\ \A r \in Sessions : r # Current => runtime'[r] = runtime[r]
      /\ \A r \in Sessions : runtime[r].stopping => runtime'[r].stopping
  BY <1>2, <1>7, <1>8, RuntimeChanges
<1>10. queue' \in Seq(Message) /\ Posts'
  <2>1. queue \in Posted(s)
    BY DEF Posted
  <2>2. queue' \in Posted(s)
    BY <1>5, <2>1
  <2>3. QED
    BY <1>5, <2>2, PostedPosts
<1>11. Types'
  BY <1>5, <1>9, <1>10 DEF Types, histories
<1>12. Position'
  <2>1. Present' = Present /\ Absent' = Absent
    BY <1>5 DEF Present, Absent
  <2>2. main \in {"idle", "call", "started", "stop", "join"}
    BY <1>2, <1>5, Fields DEF Position, Types, Lifecycle
  <2>3. Serving(Current)' <=> Serving(Current)
    BY <1>5, <1>7, <1>9 DEF Serving
  <2>4. QED
    BY <1>2, <1>5, <1>7, <1>9, <2>1, <2>2, <2>3 DEF Position
<1>13. Others'
  BY <1>5, <1>9, OthersKeep
<1>14. Bridges' /\ Pools' /\ FaultsAreLate' /\ CommandsKeepTheirSession'
  BY <1>5, <1>9, Quiet DEF histories
<1>15. QED
  BY <1>10, <1>11, <1>12, <1>13, <1>14

-----------------------------------------------------------------------------
(* Messages that are taken, and pictures. *)

\* What the queue keeps when its first message is taken.
LEMMA TakenPosts ==
  ASSUME IInv, NEW kind, Take(kind), Current' = Current, activity'.resumed = activity.resumed,
         main' = "idle" \/ activity.resumed
  PROVE  queue' \in Seq(Message) /\ Posts'
<1>1. queue \in Seq(Message) /\ queue # <<>> /\ queue' = Tail(queue)
  BY DEF IInv, Types, Take
<1>2. /\ queue' \in Seq(Message) /\ Len(queue') = Len(queue) - 1 /\ Len(queue) \in Nat \ {0}
      /\ \A i \in Places' : i + 1 \in Places /\ queue'[i] = queue[i + 1]
  BY <1>1, Taken
<1>3. \A i \in Places' : i \in Int
  BY <1>2 DEF Places
<1>4. Posts'
  <2>1. ASSUME NEW i \in Places', queue'[i].kind = "resume"
        PROVE  ~activity.resumed /\ main' = "idle" /\ i = Len(queue') /\ Current < MaxSessions
    BY <1>2, <1>3, <2>1 DEF IInv, Posts
  <2>2. \A i \in Places' : queue'[i].kind = "command" /\ activity.resumed => queue'[i].session = Current
    BY <1>2 DEF IInv, Posts
  <2>3. \A i \in Places' : queue'[i].kind = "pause" => activity.resumed
    BY <1>2 DEF IInv, Posts
  <2>4. ASSUME NEW i \in Places', NEW j \in Places',
               queue'[i].kind = "pause", queue'[j].kind = "pause"
        PROVE  i = j
    <3>1. i + 1 = j + 1
      BY <1>2, <2>4 DEF IInv, Posts
    <3>2. QED
      BY <1>3, <3>1
  <2>5. QED
    BY <2>1, <2>2, <2>3, <2>4 DEF Posts
<1>5. QED
  BY <1>2, <1>4

LEMMA OnResumeInvariant == ASSUME IInv, OnResume PROVE IInv'
<1> USE DEF IInv
<1>1. /\ main = "idle" /\ queue # <<>> /\ queue[1].kind = "resume" /\ queue' = Tail(queue)
      /\ activity' = [activity EXCEPT !.resumed = TRUE, !.session = Current + 1]
      /\ main' = "create"
      /\ UNCHANGED <<global, runtime, pool, histories>>
  BY DEF OnResume, Take
<1>2. /\ queue' \in Seq(Message) /\ Len(queue') = Len(queue) - 1 /\ Len(queue) \in Nat \ {0}
      /\ 1 \in Places
  BY <1>1, Taken DEF Types
<1>3. ~activity.resumed /\ 1 = Len(queue) /\ Current < MaxSessions
  BY <1>1, <1>2 DEF Posts
<1>4. Current \in 0 .. MaxSessions /\ MaxSessions \in Nat /\ Current + 1 \in Sessions
      /\ Current + 1 \in 0 .. MaxSessions
  BY <1>3, SessionAssumption DEF Types, Current, Sessions
<1>5. /\ activity' \in [resumed : BOOLEAN, nativeStarted : BOOLEAN, session : 0 .. MaxSessions]
      /\ Current' = Current + 1 /\ activity'.resumed = TRUE
      /\ activity'.nativeStarted = activity.nativeStarted
  BY <1>1, <1>4 DEF Types, Current
<1>6. Absent /\ ~activity.nativeStarted /\ (Current > 0 => Passive(Current))
  BY <1>1, <1>3 DEF Position, Absent
<1>7. Types'
  BY <1>1, <1>2, <1>5 DEF Types, histories, Lifecycle
<1>8. Position'
  <2>1. /\ Passive(Current + 1) /\ runtime[Current + 1].thread = "none"
        /\ ~runtime[Current + 1].stopping
    BY <1>4 DEF Others
  <2>2. Absent' /\ Passive(Current)'
    BY <1>1, <1>5, <1>6, <2>1 DEF Absent, Passive
  <2>3. QED
    BY <1>1, <1>4, <1>5, <1>6, <2>1, <2>2 DEF Position
<1>9. Others'
  <2>1. ASSUME NEW s \in Sessions, s < Current + 1 PROVE Passive(s)
    <3>1. s < Current \/ s = Current
      BY <1>4, <2>1 DEF Sessions
    <3>2. s > 0
      BY DEF Sessions
    <3>3. QED
      BY <1>6, <3>1, <3>2 DEF Others
  <2>2. \A s \in Sessions : s > Current + 1 => s > Current
    BY <1>4 DEF Sessions
  <2>3. QED
    BY <1>1, <1>5, <2>1, <2>2 DEF Others, Passive
<1>10. Posts'
  <2>1. Len(queue') = 0
    <3>1. Len(queue) = 1 /\ Len(queue') = Len(queue) - 1
      BY <1>2, <1>3
    <3>2. QED
      BY <3>1
  <2>2. Places' = {}
    BY <2>1 DEF Places
  <2>3. QED
    BY <2>2 DEF Posts
<1>11. Bridges'
  BY <1>1, <1>6 DEF Bridges
<1>12. Pools'
  <2>1. ~pool[Current + 1].shut
    BY <1>4 DEF Others
  <2>2. QED
    BY <1>1, <1>5, <2>1 DEF Pools, histories
<1>13. FaultsAreLate' /\ CommandsKeepTheirSession'
  BY <1>1 DEF FaultsAreLate, CommandsKeepTheirSession, histories
<1>14. QED
  BY <1>7, <1>8, <1>9, <1>10, <1>11, <1>12, <1>13

LEMMA OnPauseInvariant == ASSUME IInv, OnPause PROVE IInv'
<1> USE DEF IInv
<1>1. /\ main = "idle" /\ queue # <<>> /\ queue[1].kind = "pause" /\ queue' = Tail(queue)
      /\ activity' = [activity EXCEPT !.resumed = FALSE]
      /\ main' = IF activity.nativeStarted THEN "stop" ELSE "release"
      /\ UNCHANGED <<global, runtime, pool, histories>>
  BY DEF OnPause, Take
<1>2. /\ queue' \in Seq(Message) /\ Len(queue') = Len(queue) - 1 /\ Len(queue) \in Nat \ {0}
      /\ 1 \in Places
      /\ \A i \in Places' : i + 1 \in Places /\ queue'[i] = queue[i + 1]
  BY <1>1, Taken DEF Types
<1>3. activity.resumed /\ Current > 0
  BY <1>1, <1>2 DEF Posts, Position
<1>4. /\ activity' \in [resumed : BOOLEAN, nativeStarted : BOOLEAN, session : 0 .. MaxSessions]
      /\ Current' = Current /\ activity'.resumed = FALSE
      /\ activity'.nativeStarted = activity.nativeStarted
  BY <1>1 DEF Types, Current
<1>5. Types'
  BY <1>1, <1>2, <1>4 DEF Types, histories, Lifecycle
<1>6. ASSUME activity.nativeStarted PROVE Position'
  <2>1. Present /\ Serving(Current) /\ main' = "stop"
    BY <1>1, <1>6 DEF Position
  <2>2. Present' /\ Serving(Current)' /\ Current > 0
    BY <1>1, <1>4, <2>1 DEF Present, Serving
  <2>3. QED
    BY <1>4, <1>6, <2>1, <2>2 DEF Position
<1>7. ASSUME ~activity.nativeStarted PROVE Position'
  <2>1. Absent /\ (Current > 0 => Passive(Current)) /\ main' = "release"
    BY <1>1, <1>7 DEF Position
  <2>2. Absent' /\ (Current > 0 => Passive(Current)')
    BY <1>1, <1>4, <2>1 DEF Absent, Passive
  <2>3. QED
    BY <1>3, <1>4, <2>1, <2>2 DEF Position
<1>8. Others'
  BY <1>1, <1>4, OthersKeep
<1>9. Posts'
  <2>1. \A i \in Places' : i \in Int /\ i + 1 # 1
    BY <1>2 DEF Places
  <2>2. \A i \in Places' : queue'[i].kind # "resume"
    BY <1>2, <1>3 DEF Posts
  <2>3. \A i \in Places' : queue'[i].kind # "pause"
    BY <1>1, <1>2, <2>1 DEF Posts
  <2>4. QED
    BY <1>4, <2>2, <2>3 DEF Posts
<1>10. Bridges' /\ Pools' /\ FaultsAreLate' /\ CommandsKeepTheirSession'
  BY <1>1, <1>4, Quiet DEF histories
<1>11. QED
  BY <1>5, <1>6, <1>7, <1>8, <1>9, <1>10

LEMMA RunCommandInvariant == ASSUME IInv, RunCommand PROVE IInv'
<1> USE DEF IInv
<1> DEFINE receiver == IF ~activity.resumed \/ activity.nativeStarted THEN global.runtime ELSE None
           camera == IF activity.resumed THEN Current ELSE None
<1>1. /\ main = "idle" /\ queue # <<>> /\ queue[1].kind = "command" /\ queue' = Tail(queue)
      /\ ran' = ran \cup {[session |-> queue[1].session, receiver |-> receiver, camera |-> camera]}
      /\ main' = IF receiver # None THEN "call" ELSE "idle"
      /\ UNCHANGED <<activity, global, runtime, pool, alive, late, faults>>
  BY DEF RunCommand, Take
<1>2. /\ queue' \in Seq(Message) /\ Len(queue') = Len(queue) - 1 /\ Len(queue) \in Nat \ {0}
      /\ 1 \in Places
  BY <1>1, Taken DEF Types
<1>3. /\ ~activity.resumed => receiver = None /\ camera = None
      /\ activity.resumed => queue[1].session = Current /\ camera = Current
                             /\ receiver \in {None, Current}
      /\ receiver # None => activity.nativeStarted
  <2>1. activity.resumed => queue[1].session = Current
    BY <1>1, <1>2 DEF Posts
  <2>2. CASE activity.nativeStarted
    BY <1>1, <2>1, <2>2 DEF Position, Present
  <2>3. CASE ~activity.nativeStarted
    BY <1>1, <2>1, <2>3 DEF Position, Absent
  <2>4. QED
    BY <2>2, <2>3
<1> HIDE DEF receiver, camera
<1>4. Current' = Current /\ main' \in {"idle", "call"}
  BY <1>1 DEF Current
<1>5. CommandsKeepTheirSession'
  <2>1. ASSUME NEW c \in ran'
        PROVE  c.camera \in {None, c.session} /\ c.receiver \in {None, c.session}
    <3>1. CASE c \in ran
      BY <3>1 DEF CommandsKeepTheirSession
    <3>2. CASE c = [session |-> queue[1].session, receiver |-> receiver, camera |-> camera]
      BY <1>3, <3>2
    <3>3. QED
      BY <1>1, <2>1, <3>1, <3>2
  <2>2. QED
    BY <2>1 DEF CommandsKeepTheirSession
<1>6. Types'
  BY <1>1, <1>2, <1>4 DEF Types
<1>7. Position'
  <2>1. /\ Present' = Present /\ Absent' = Absent
        /\ Serving(Current)' = Serving(Current) /\ Passive(Current)' = Passive(Current)
    BY <1>1, <1>4 DEF Present, Absent, Serving, Passive
  <2>2. CASE receiver # None
    <3>1. activity.nativeStarted /\ activity.resumed /\ Present /\ Serving(Current) /\ main' = "call"
      BY <1>1, <1>3, <2>2 DEF Position
    <3>2. QED
      BY <1>1, <1>4, <2>1, <3>1 DEF Position
  <2>3. CASE receiver = None
    <3>1. UNCHANGED <<main, activity, global, runtime>>
      BY <1>1, <2>3
    <3>2. QED
      BY <2>1, <3>1 DEF Position, Current
  <2>4. QED
    BY <2>2, <2>3
<1>8. Others'
  BY <1>1, <1>4, OthersKeep
<1>9. Posts'
  <2>1. main' = "idle" \/ activity.resumed
    BY <1>1, <1>3
  <2>2. QED
    BY <1>1, <1>4, <2>1, TakenPosts DEF RunCommand
<1>10. Bridges'
  BY <1>1, <1>4 DEF Bridges
<1>11. Pools' /\ FaultsAreLate'
  BY <1>1, <1>4 DEF Pools, FaultsAreLate
<1>12. QED
  BY <1>5, <1>6, <1>7, <1>8, <1>9, <1>10, <1>11

\* A pool of the main thread's own session takes a picture, or is shut.
LEMMA PictureInvariant == ASSUME IInv, Picture PROVE IInv'
<1> USE DEF IInv
<1>1. /\ main = "idle" /\ activity.resumed /\ Current' = Current
      /\ UNCHANGED <<activity, global, runtime, queue, histories>>
  BY DEF Picture, Current
<1>2. main' = "idle" \/ (main' = "call" /\ activity.nativeStarted)
  BY <1>1 DEF Picture
<1>3. Position'
  <2>1. /\ Present' = Present /\ Absent' = Absent
        /\ Serving(Current)' = Serving(Current) /\ Passive(Current)' = Passive(Current)
    BY <1>1 DEF Present, Absent, Serving, Passive
  <2>2. CASE main' = "idle"
    BY <1>1, <2>1, <2>2 DEF Position
  <2>3. CASE main' = "call" /\ activity.nativeStarted
    <3>1. Present /\ Serving(Current)
      BY <1>1, <2>3 DEF Position
    <3>2. QED
      BY <1>1, <2>1, <2>3, <3>1 DEF Position
  <2>4. QED
    BY <1>2, <2>2, <2>3
<1>4. Posts'
  BY <1>1, SamePosts
<1>5. CASE UNCHANGED pool
  <2>1. Types'
    BY <1>1, <1>2, <1>5 DEF Types, histories
  <2>2. Others'
    BY <1>1, <1>5, OthersKeep
  <2>3. Bridges' /\ Pools' /\ FaultsAreLate' /\ CommandsKeepTheirSession'
    BY <1>1, <1>2, <1>5, Quiet DEF histories
  <2>4. QED
    BY <1>3, <1>4, <2>1, <2>2, <2>3
<1>6. ASSUME NEW c \in Sessions, c = Current,
             NEW next \in PoolState, pool' = [pool EXCEPT ![c] = next],
             UNCHANGED main, next.shut = pool[c].shut,
             \/ next.at = "make" /\ pool[c].at = "idle"
             \/ /\ next.at = pool[c].at /\ next.seen = pool[c].seen
                /\ next.target = pool[c].target
      PROVE  IInv'
  <2>1. pool'[c] = next
    BY <1>6 DEF Types
  <2>2. ~pool[c].shut /\ late[c] = 0 /\ Bridge(c)
    BY <1>1, <1>6 DEF Pools, Bridges, Bridge
  <2>3. Bridge(c)'
    BY <1>1, <1>6, <2>1, <2>2 DEF Bridge
  <2>4. OwnPool(c)'
    BY <1>1, <1>6, <2>1, <2>2 DEF OwnPool, histories
  <2>5. QED
    BY <1>1, <1>6, <2>3, <2>4, PoolOnly
<1>7. PICK c \in Sessions : c = Current
  BY <1>1, SessionAssumption DEF Position, Types, Current, Sessions
<1>8. CASE pool[Current].at = "idle" /\ pool' = [pool EXCEPT ![Current].at = "make"] /\ UNCHANGED main
  <2> DEFINE next == [pool[c] EXCEPT !.at = "make"]
  <2>1. next \in PoolState /\ next.shut = pool[c].shut /\ next.at = "make"
    BY DEF Types, PoolState
  <2>2. pool' = [pool EXCEPT ![c] = next]
    BY <1>7, <1>8
  <2> HIDE DEF next
  <2>3. QED
    BY <1>6, <1>7, <1>8, <2>1, <2>2
<1>9. CASE pool' = [pool EXCEPT ![Current].waiting = TRUE] /\ UNCHANGED main
  <2> DEFINE next == [pool[c] EXCEPT !.waiting = TRUE]
  <2>1. /\ next \in PoolState /\ next.shut = pool[c].shut /\ next.at = pool[c].at
        /\ next.seen = pool[c].seen /\ next.target = pool[c].target
    BY DEF Types, PoolState
  <2>2. pool' = [pool EXCEPT ![c] = next]
    BY <1>7, <1>9
  <2> HIDE DEF next
  <2>3. QED
    BY <1>6, <1>7, <1>9, <2>1, <2>2
<1>10. QED
  BY <1>5, <1>8, <1>9 DEF Picture

LEMMA ReleaseInvariant == ASSUME IInv, Release PROVE IInv'
<1> USE DEF IInv
<1>1. /\ main = "release" /\ main' = "idle" /\ Current' = Current
      /\ UNCHANGED <<activity, global, runtime, queue, histories>>
      /\ pool' = [pool EXCEPT ![Current] = Shut(@)]
  BY DEF Release, Current
<1>2. ~activity.resumed /\ Current > 0 /\ Absent /\ Passive(Current)
  BY <1>1 DEF Position
<1>3. PICK c \in Sessions : c = Current
  BY <1>2, SessionAssumption DEF Types, Current, Sessions
<1> DEFINE next == Shut(pool[c])
<1>4. /\ next \in PoolState /\ next.shut = TRUE /\ next.waiting = FALSE /\ next.at = pool[c].at
      /\ next.seen = pool[c].seen /\ next.target = pool[c].target
  <2>1. pool[c] \in PoolState
    BY DEF Types
  <2>2. QED
    BY <2>1 DEF Shut, PoolState
<1>5. pool' = [pool EXCEPT ![c] = next]
  BY <1>1, <1>3
<1> HIDE DEF next
<1>6. /\ pool' \in [Sessions -> PoolState] /\ pool'[c] = next
      /\ \A q \in Sessions : q # c => pool'[q] = pool[q]
  BY <1>4, <1>5 DEF Types
<1>7. Types'
  BY <1>1, <1>6 DEF Types, histories
<1>8. Position'
  <2>1. Absent' /\ Passive(Current)'
    BY <1>1, <1>2 DEF Absent, Passive
  <2>2. QED
    BY <1>1, <1>2, <2>1 DEF Position, Absent
<1>9. Others'
  <2>1. \A s \in Sessions : s > Current => pool'[s] = pool[s]
    BY <1>3, <1>6 DEF Sessions
  <2>2. QED
    BY <1>1, <2>1 DEF Others, Passive
<1>10. Posts'
  BY <1>1, <1>2, SamePosts
<1>11. Bridges'
  <2>1. ASSUME NEW q \in Sessions PROVE Bridge(q)'
    <3>1. Bridge(q)
      BY DEF Bridges, Bridge
    <3>2. pool[q].at = pool'[q].at /\ pool[q].seen = pool'[q].seen /\ pool[q].target = pool'[q].target
      BY <1>4, <1>6
    <3>3. QED
      BY <1>1, <1>2, <3>1, <3>2 DEF Bridge, Absent
  <2>2. QED
    BY <2>1 DEF Bridges, Bridge
<1>12. Pools'
  <2>1. ASSUME NEW q \in Sessions PROVE OwnPool(q)'
    <3>1. OwnPool(q)
      BY DEF Pools, OwnPool
    <3>2. late'[q] = late[q] /\ ~activity'.resumed
      BY <1>1, <1>2 DEF histories
    <3>3. CASE q = c
      BY <1>4, <1>6, <3>1, <3>2, <3>3 DEF OwnPool
    <3>4. CASE q # c
      BY <1>6, <3>1, <3>2, <3>4 DEF OwnPool
    <3>5. QED
      BY <3>3, <3>4
  <2>2. QED
    BY <2>1 DEF Pools, OwnPool
<1>13. FaultsAreLate' /\ CommandsKeepTheirSession'
  BY <1>1 DEF FaultsAreLate, CommandsKeepTheirSession, histories
<1>14. QED
  BY <1>7, <1>8, <1>9, <1>10, <1>11, <1>12, <1>13

-----------------------------------------------------------------------------
(* The theorems. *)

LEMMA StepInvariant == ASSUME IInv, [Next]_vars PROVE IInv'
<1>1. CASE UNCHANGED vars
  BY <1>1 DEF vars, IInv, Types, Position, Others, Posts, Bridges, Pools, Places,
              CommandsKeepTheirSession, FaultsAreLate, Serving, Passive, Present, Absent, Current
<1>2. CASE Pausing
  BY <1>2, OnPauseInvariant, StopInvariant, JoinInvariant, DeleteInvariant, ClearInvariant,
     StoppedInvariant, ReleaseInvariant DEF Pausing
<1>3. CASE Resuming
  BY <1>3, OnResumeInvariant, CreateInvariant, StartInvariant, UndoInvariant, UndoneInvariant,
     StartedInvariant DEF Resuming
<1>4. CASE Call \/ RunCommand \/ Event \/ Picture \/ Android
  BY <1>4, CallInvariant, RunCommandInvariant, EventInvariant, PictureInvariant, AndroidInvariant
<1>5. ASSUME NEW s \in Sessions, Server(s) \/ Worker(s) PROVE IInv'
  BY <1>5, ServerInvariant, WorkerInvariant
<1>6. QED
  BY <1>1, <1>2, <1>3, <1>4, <1>5 DEF Next, Main

\* What the threads know of each other's state at each place in the code of
\* onResume(), onPause() and nativeSetPreview(), in any number of sessions.
THEOREM Invariant == Spec => []IInv
<1>1. Init => IInv
  BY InitInvariant
<1>2. IInv /\ [Next]_vars => IInv'
  BY StepInvariant
<1>3. QED
  BY <1>1, <1>2, PTL DEF Spec

\* dispatchNativeCommand(): a command is run in the session that posted it, and
\* its result reaches that session's runtime or none.
THEOREM CommandsStay == Spec => []CommandsKeepTheirSession
<1>1. IInv => CommandsKeepTheirSession
  BY DEF IInv
<1>2. QED
  BY <1>1, Invariant, PTL

\* nativeStop() joins before it deletes: the main thread and the server threads
\* use a runtime, a pipe and an activity that are there.
THEOREM OnlyTheLiving == Spec => []LiveWhileUsed
<1>1. ASSUME IInv PROVE LiveWhileUsed
  <2> USE <1>1 DEF IInv
  <2>1. ASSUME NEW s \in Sessions, runtime[s].thread \in {"top", "call"}
        PROVE  runtime[s].life = "live" /\ runtime[s].pipe /\ global.activity
    <3>1. s = Current /\ Current > 0 /\ ~Passive(Current)
      BY <2>1, Fields DEF Others, Passive
    <3>2. main \in {"idle", "call", "started", "stop", "join"}
      BY <3>1 DEF Position, Types, Lifecycle
    <3>3. QED
      BY <3>1, <3>2 DEF Position, Serving, Present
  <2>2. ASSUME main \in {"call", "start", "stop", "join"}
        PROVE  global.runtime # None /\ runtime[global.runtime].life = "live"
    BY <2>2 DEF Position, Serving, Present, None
  <2>3. QED
    BY <2>1, <2>2 DEF LiveWhileUsed
<1>2. QED
  BY <1>1, Invariant, PTL

\* The unguarded g_runtime and wakePipe_: a thread of a pool finds something
\* gone only if the session that it has entered the bridge in is ending.
THEOREM FaultsComeLate == Spec => []FaultsAreLate
<1>1. IInv => FaultsAreLate
  BY DEF IInv
<1>2. QED
  BY <1>1, Invariant, PTL

\* Nothing uses what is gone but the thread of a pool whose session was ending.
THEOREM PoolsAlone == Spec => []OnlyLatePoolsFault
  BY OnlyTheLiving, FaultsComeLate, PTL DEF OnlyLatePoolsFault

\* shutdownNow(): one photo of a session at most turns up in a later one.
THEOREM AtMostOnePhoto == Spec => []OneLatePhoto
<1>1. IInv => OneLatePhoto
  BY DEF IInv, Pools, OneLatePhoto
<1>2. QED
  BY <1>1, Invariant, PTL
-----------------------------------------------------------------------------
(* Locks and joins. *)

\* A pool's thread holds the lock of its target, and no other thread holds any.
Holds(p) ==
  pool[p].at \in Holding => pool[p].target # None /\ runtime[pool[p].target].lock = p

Held(s) ==
  ~Free(s) => \E p \in Sessions :
                runtime[s].lock = p /\ pool[p].target = s /\ pool[p].at \in Holding

\* A runtime that was started has a thread.
HasThread(s) == runtime[s].started \/ runtime[s].stopping => runtime[s].thread # "none"

LockInv == \A s \in Sessions : Holds(s) /\ Held(s) /\ HasThread(s)

\* A step that takes no lock and gives none back, and sees to the threads.
LEMMA LocksKept ==
  ASSUME Types, LockInv,
         \A s \in Sessions : runtime'[s].lock = runtime[s].lock,
         \A p \in Sessions : pool'[p].at \in Holding <=> pool[p].at \in Holding,
         \A p \in Sessions : pool[p].at \in Holding => pool'[p].target = pool[p].target,
         \A s \in Sessions : HasThread(s)'
  PROVE  LockInv'
<1>1. ASSUME NEW p \in Sessions PROVE Holds(p)'
  <2>1. CASE pool'[p].at \in Holding
    <3>1. /\ pool[p].at \in Holding /\ pool'[p].target = pool[p].target
          /\ pool[p].target # None /\ runtime[pool[p].target].lock = p
      BY <2>1 DEF LockInv, Holds
    <3>2. pool[p].target \in Sessions
      BY <3>1, Fields DEF None, Sessions
    <3>3. QED
      BY <3>1, <3>2 DEF Holds
  <2>2. QED
    BY <2>1 DEF Holds
<1>2. ASSUME NEW s \in Sessions PROVE Held(s)'
  BY DEF LockInv, Held, Free
<1>3. QED
  BY <1>1, <1>2 DEF LockInv

\* So does one that leaves the runtimes alone.
LEMMA PoolsKeepLocks ==
  ASSUME Types, LockInv, UNCHANGED runtime,
         \A p \in Sessions : pool'[p].at \in Holding <=> pool[p].at \in Holding,
         \A p \in Sessions : pool[p].at \in Holding => pool'[p].target = pool[p].target
  PROVE  LockInv'
<1>1. \A s \in Sessions : HasThread(s)'
  BY DEF LockInv, HasThread
<1>2. \A s \in Sessions : runtime'[s].lock = runtime[s].lock
  OBVIOUS
<1>3. QED
  BY <1>1, <1>2, LocksKept

\* So does one of the main thread or a server thread on one runtime.
LEMMA RuntimeKeepsLocks ==
  ASSUME Types, LockInv, UNCHANGED pool, NEW s \in Sessions, NEW next \in RuntimeState,
         runtime' = [runtime EXCEPT ![s] = next], next.lock = runtime[s].lock,
         next.started \/ next.stopping => next.thread # "none"
  PROVE  LockInv'
<1>1. runtime'[s] = next /\ \A r \in Sessions : r # s => runtime'[r] = runtime[r]
  BY DEF Types
<1>2. \A r \in Sessions : HasThread(r)'
  BY <1>1 DEF LockInv, HasThread
<1>3. \A r \in Sessions : runtime'[r].lock = runtime[r].lock
  BY <1>1
<1>4. QED
  BY <1>2, <1>3, LocksKept

\* The steps of onResume() and onPause(), and of the server threads.
LEMMA ThreadsKeepLocks ==
  ASSUME IInv, LockInv,
         \/ Create \/ Start \/ Undo \/ Stop \/ Join \/ Delete
         \/ \E s \in Sessions : Server(s)
  PROVE  LockInv'
<1> USE DEF IInv
<1>0. \A s \in Sessions : runtime[s] \in RuntimeState
  BY DEF Types
<1>1. ASSUME NEW s \in Sessions, runtime' = [runtime EXCEPT ![s].life = "live"],
             UNCHANGED pool
      PROVE  LockInv'
  <2> DEFINE next == [runtime[s] EXCEPT !.life = "live"]
  <2>1. /\ next \in RuntimeState /\ next.lock = runtime[s].lock /\ next.thread = runtime[s].thread
        /\ next.started = runtime[s].started /\ next.stopping = runtime[s].stopping
    BY <1>0 DEF RuntimeState
  <2>2. runtime' = [runtime EXCEPT ![s] = next]
    BY <1>1
  <2> HIDE DEF next
  <2>3. QED
    BY <1>1, <2>1, <2>2, RuntimeKeepsLocks DEF LockInv, HasThread
<1>2. ASSUME NEW s \in Sessions, runtime' = [runtime EXCEPT ![s].life = "deleted"],
             UNCHANGED pool
      PROVE  LockInv'
  <2> DEFINE next == [runtime[s] EXCEPT !.life = "deleted"]
  <2>1. /\ next \in RuntimeState /\ next.lock = runtime[s].lock /\ next.thread = runtime[s].thread
        /\ next.started = runtime[s].started /\ next.stopping = runtime[s].stopping
    BY <1>0 DEF RuntimeState
  <2>2. runtime' = [runtime EXCEPT ![s] = next]
    BY <1>2
  <2> HIDE DEF next
  <2>3. QED
    BY <1>2, <2>1, <2>2, RuntimeKeepsLocks DEF LockInv, HasThread
<1>3. Current > 0 => Current \in Sessions
  BY Fields, SessionAssumption DEF Types, Sessions, Current
<1>4. CASE Create
  <2>1. Current \in Sessions
    BY <1>3, <1>4 DEF Create, Position
  <2>2. CASE UNCHANGED runtime
    BY <1>4, <2>2, PoolsKeepLocks DEF Create
  <2>3. QED
    BY <1>1, <1>4, <2>1, <2>2 DEF Create
<1>5. CASE Start
  <2>1. PICK s \in Sessions : s = Current
    BY <1>3, <1>5 DEF Start, Position
  <2>2. CASE UNCHANGED runtime
    BY <1>5, <2>2, PoolsKeepLocks DEF Start
  <2> DEFINE next == [runtime[s] EXCEPT !.started = TRUE, !.pipe = TRUE, !.thread = "top"]
  <2>3. next \in RuntimeState /\ next.lock = runtime[s].lock /\ next.thread = "top"
    BY <1>0 DEF RuntimeState
  <2>4. CASE runtime' = [runtime EXCEPT ![s] = next]
    <3> HIDE DEF next
    <3>1. QED
      BY <1>5, <2>3, <2>4, RuntimeKeepsLocks DEF Start
  <2>5. QED
    BY <1>5, <2>1, <2>2, <2>4 DEF Start
<1>6. CASE Undo
  <2>1. Current \in Sessions
    BY <1>3, <1>6 DEF Undo, Position
  <2>2. QED
    BY <1>2, <1>6, <2>1 DEF Undo
<1>7. CASE Stop
  <2>1. PICK s \in Sessions : s = global.runtime /\ runtime[s].started
    BY <1>3, <1>7 DEF Stop, Position, Present, Serving
  <2> DEFINE next == [runtime[s] EXCEPT !.started = FALSE, !.stopping = TRUE]
  <2>2. /\ next \in RuntimeState /\ next.lock = runtime[s].lock
        /\ next.thread = runtime[s].thread
    BY <1>0 DEF RuntimeState
  <2>3. runtime' = [runtime EXCEPT ![s] = next] /\ UNCHANGED pool
    BY <1>7, <2>1 DEF Stop
  <2>4. runtime[s].thread # "none"
    BY <2>1 DEF LockInv, HasThread
  <2> HIDE DEF next
  <2>5. QED
    BY <2>2, <2>3, <2>4, RuntimeKeepsLocks
<1>8. CASE Join
  <2>1. PICK s \in Sessions : s = global.runtime /\ runtime[s].thread = "ended"
    BY <1>3, <1>8 DEF Join, Position, Present
  <2> DEFINE next == [runtime[s] EXCEPT !.pipe = FALSE]
  <2>2. next \in RuntimeState /\ next.lock = runtime[s].lock /\ next.thread = runtime[s].thread
    BY <1>0 DEF RuntimeState
  <2>3. runtime' = [runtime EXCEPT ![s] = next] /\ UNCHANGED pool
    BY <1>8, <2>1 DEF Join
  <2> HIDE DEF next
  <2>4. QED
    BY <2>1, <2>2, <2>3, RuntimeKeepsLocks
<1>9. CASE Delete
  <2>1. global.runtime \in Sessions
    BY <1>3, <1>9 DEF Delete, Position, Present
  <2>2. QED
    BY <1>2, <1>9, <2>1 DEF Delete
<1>10. ASSUME NEW s \in Sessions, Server(s) PROVE LockInv'
  <2>1. ASSUME NEW at \in {"top", "call", "ended"},
               runtime' = [runtime EXCEPT ![s].thread = at], UNCHANGED pool
        PROVE  LockInv'
    <3> DEFINE next == [runtime[s] EXCEPT !.thread = at]
    <3>1. next \in RuntimeState /\ next.lock = runtime[s].lock /\ next.thread = at
      BY <1>0 DEF RuntimeState
    <3>2. runtime' = [runtime EXCEPT ![s] = next]
      BY <2>1
    <3> HIDE DEF next
    <3>3. QED
      BY <2>1, <3>1, <3>2, RuntimeKeepsLocks
  <2>2. CASE BeginRound(s)
    <3>1. (IF runtime[s].stopping THEN "ended" ELSE "call") \in {"top", "call", "ended"}
      OBVIOUS
    <3>2. QED
      BY <2>1, <2>2, <3>1, Zenon DEF BeginRound
  <2>3. CASE ServerCall(s)
    BY <2>1, <2>3 DEF ServerCall
  <2>4. QED
    BY <1>10, <2>2, <2>3 DEF Server
<1>11. QED
  BY <1>4, <1>5, <1>6, <1>7, <1>8, <1>9, <1>10

\* The steps of a pool's thread outside its critical section.
LEMMA WorkersKeepLocks ==
  ASSUME IInv, LockInv, NEW p \in Sessions, NEW next \in PoolState,
         pool' = [pool EXCEPT ![p] = next], UNCHANGED runtime,
         next.at \in Holding <=> pool[p].at \in Holding,
         next.at \in Holding => next.target = pool[p].target
  PROVE  LockInv'
<1>1. pool'[p] = next /\ \A q \in Sessions : q # p => pool'[q] = pool[q]
  BY DEF IInv, Types
<1>2. /\ \A q \in Sessions : pool'[q].at \in Holding <=> pool[q].at \in Holding
      /\ \A q \in Sessions : pool[q].at \in Holding => pool'[q].target = pool[q].target
  BY <1>1
<1>3. QED
  BY <1>2, PoolsKeepLocks DEF IInv

\* Lock() and Unlock(): no other thread holds what is taken or given back.
LEMMA CriticalSection ==
  ASSUME IInv, LockInv, NEW p \in Sessions, Lock(p) \/ Unlock(p)
  PROVE  LockInv'
<1> USE DEF IInv
<1>1. pool[p] \in PoolState /\ Done(pool[p]) \in PoolState /\ Done(pool[p]).at \notin Holding
  BY DoneFields DEF Types, Holding
<1>2. CASE Lock(p) /\ UNCHANGED runtime
  <2>1. pool' = [pool EXCEPT ![p] = Done(pool[p])] /\ pool[p].at \notin Holding
    <3>1. pool[p].at = "lock"
      BY <1>2 DEF Lock
    <3>2. ~(pool[p].target # None /\ runtime[pool[p].target].life = "live")
      <4> SUFFICES ASSUME pool[p].target # None, runtime[pool[p].target].life = "live"
                   PROVE  FALSE
        OBVIOUS
      <4>1. pool[p].target \in Sessions /\ Free(pool[p].target)
        BY <1>2, Fields DEF Lock, Sessions, None
      <4>2. runtime'[pool[p].target].lock = p
        BY <1>2, <4>1 DEF Lock, Types, RuntimeState
      <4>3. QED
        BY <1>2, <4>1, <4>2 DEF Free, Nobody, Sessions
    <3>3. QED
      BY <1>2, <3>1, <3>2 DEF Lock, Holding
  <2>2. QED
    BY <1>1, <1>2, <2>1, WorkersKeepLocks
<1>3. CASE Lock(p) /\ ~UNCHANGED runtime
  <2>1. PICK s \in Sessions : s = pool[p].target
    BY <1>3, Fields DEF Lock, Sessions, None
  <2>2. /\ pool[p].at = "lock" /\ Free(s)
        /\ runtime' = [runtime EXCEPT ![s].lock = p]
        /\ \E at \in {"wake", "unlock"} : pool' = [pool EXCEPT ![p].at = at]
    BY <1>3, <2>1 DEF Lock
  <2>3. /\ pool'[p].at \in Holding /\ pool'[p].target = s
        /\ \A q \in Sessions : q # p => pool'[q] = pool[q]
    BY <1>1, <2>1, <2>2 DEF Types, PoolState, Holding
  <2>4. /\ runtime'[s].lock = p /\ runtime'[s].started = runtime[s].started
        /\ runtime'[s].stopping = runtime[s].stopping /\ runtime'[s].thread = runtime[s].thread
        /\ \A r \in Sessions : r # s => runtime'[r] = runtime[r]
    BY <2>2 DEF Types, RuntimeState
  <2>5. \A q \in Sessions : ~(pool[q].at \in Holding /\ pool[q].target = s)
    BY <2>2 DEF LockInv, Holds, Free, Nobody, Sessions
  <2>6. ASSUME NEW q \in Sessions, q # p, pool[q].at \in Holding
        PROVE  pool[q].target \in Sessions /\ pool[q].target # s /\ runtime[pool[q].target].lock = q
    BY <2>5, <2>6, Fields DEF LockInv, Holds, Sessions, None
  <2>7. \A q \in Sessions : Holds(q)'
    BY <2>1, <2>3, <2>4, <2>6 DEF Holds, None, Sessions
  <2>8. ASSUME NEW r \in Sessions PROVE Held(r)'
    <3>1. CASE r = s
      BY <2>3, <2>4, <3>1 DEF Held
    <3>2. CASE r # s /\ ~Free(r)'
      <4>1. PICK q \in Sessions : runtime[r].lock = q /\ pool[q].target = r /\ pool[q].at \in Holding
        BY <2>4, <3>2 DEF LockInv, Held, Free
      <4>2. q # p
        BY <2>2, <4>1 DEF Holding
      <4>3. QED
        BY <2>3, <2>4, <3>2, <4>1, <4>2 DEF Held
    <3>3. QED
      BY <3>1, <3>2 DEF Held
  <2>9. \A r \in Sessions : HasThread(r)'
    BY <2>4 DEF LockInv, HasThread
  <2>10. QED
    BY <2>7, <2>8, <2>9 DEF LockInv
<1>4. CASE Unlock(p)
  <2>1. /\ pool[p].at \in Holding /\ pool[p].target \in Sessions
        /\ runtime[pool[p].target].lock = p
    BY <1>4, Fields DEF Unlock, Holding, LockInv, Holds, Sessions, None
  <2>2. PICK s \in Sessions : s = pool[p].target /\ runtime[s].lock = p
    BY <2>1
  <2>3. /\ pool'[p] = Done(pool[p]) /\ \A q \in Sessions : q # p => pool'[q] = pool[q]
    BY <1>4 DEF Unlock, Types
  <2>4. /\ runtime'[s].lock = Nobody /\ runtime'[s].started = runtime[s].started
        /\ runtime'[s].stopping = runtime[s].stopping /\ runtime'[s].thread = runtime[s].thread
        /\ \A r \in Sessions : r # s => runtime'[r] = runtime[r]
    BY <1>4, <2>2 DEF Unlock, Types, RuntimeState
  <2>5. ASSUME NEW q \in Sessions, q # p, pool[q].at \in Holding
        PROVE  /\ pool[q].target \in Sessions /\ pool[q].target # s /\ pool[q].target # None
               /\ runtime[pool[q].target].lock = q
    BY <2>2, <2>5, Fields DEF LockInv, Holds, Sessions, None
  <2>6. \A q \in Sessions : Holds(q)'
    BY <1>1, <2>3, <2>4, <2>5 DEF Holds
  <2>7. ASSUME NEW r \in Sessions PROVE Held(r)'
    <3>1. CASE r = s
      BY <2>4, <3>1 DEF Held, Free
    <3>2. CASE r # s /\ ~Free(r)'
      <4>1. PICK q \in Sessions : runtime[r].lock = q /\ pool[q].target = r /\ pool[q].at \in Holding
        BY <2>4, <3>2 DEF LockInv, Held, Free
      <4>2. q # p
        BY <2>2, <3>2, <4>1
      <4>3. QED
        BY <2>3, <2>4, <3>2, <4>1, <4>2 DEF Held
    <3>3. QED
      BY <3>1, <3>2 DEF Held
  <2>8. \A r \in Sessions : HasThread(r)'
    BY <2>4 DEF LockInv, HasThread
  <2>9. QED
    BY <2>6, <2>7, <2>8 DEF LockInv
<1>5. QED
  BY <1>2, <1>3, <1>4

\* Every step keeps the locks in order.
LEMMA LocksInvariant == ASSUME IInv, LockInv, [Next]_vars PROVE LockInv'
<1> USE DEF IInv
<1>1. ASSUME UNCHANGED <<runtime, pool>> PROVE LockInv'
  BY <1>1, PoolsKeepLocks
<1>2. CASE UNCHANGED vars
  BY <1>1, <1>2 DEF vars
<1>3. CASE Create \/ Start \/ Undo \/ Stop \/ Join \/ Delete
  BY <1>3, ThreadsKeepLocks
<1>4. CASE OnPause \/ Clear \/ Stopped \/ OnResume \/ Undone \/ Started
  BY <1>1, <1>4 DEF OnPause, Clear, Stopped, OnResume, Undone, Started
<1>5. CASE Call \/ RunCommand \/ Event \/ Android
  BY <1>1, <1>5 DEF Call, RunCommand, Event, Android
<1>6. CASE Release
  <2>1. PICK c \in Sessions : c = Current
    BY <1>6, Fields, SessionAssumption DEF Release, Position, Types, Current, Sessions
  <2> DEFINE next == Shut(pool[c])
  <2>2. /\ next \in PoolState /\ next.at = pool[c].at /\ next.target = pool[c].target
    BY DEF Types, PoolState, Shut
  <2>3. pool' = [pool EXCEPT ![c] = next] /\ UNCHANGED runtime
    BY <1>6, <2>1 DEF Release
  <2> HIDE DEF next
  <2>4. QED
    BY <2>2, <2>3, WorkersKeepLocks
<1>7. CASE Picture
  <2>1. PICK c \in Sessions : c = Current
    BY <1>7, SessionAssumption DEF Picture, Position, Types, Current, Sessions
  <2>2. UNCHANGED runtime
    BY <1>7 DEF Picture
  <2>3. CASE UNCHANGED pool
    BY <1>1, <2>2, <2>3
  <2>4. CASE pool[Current].at = "idle" /\ pool' = [pool EXCEPT ![Current].at = "make"]
    <3> DEFINE next == [pool[c] EXCEPT !.at = "make"]
    <3>1. next \in PoolState /\ next.at = "make" /\ pool[c].at = "idle"
      BY <2>1, <2>4 DEF Types, PoolState
    <3>2. pool' = [pool EXCEPT ![c] = next]
      BY <2>1, <2>4
    <3> HIDE DEF next
    <3>3. QED
      BY <2>2, <3>1, <3>2, WorkersKeepLocks DEF Holding
  <2>5. CASE pool' = [pool EXCEPT ![Current].waiting = TRUE]
    <3> DEFINE next == [pool[c] EXCEPT !.waiting = TRUE]
    <3>1. next \in PoolState /\ next.at = pool[c].at /\ next.target = pool[c].target
      BY DEF Types, PoolState
    <3>2. pool' = [pool EXCEPT ![c] = next]
      BY <2>1, <2>5
    <3> HIDE DEF next
    <3>3. QED
      BY <2>2, <3>1, <3>2, WorkersKeepLocks
  <2>6. QED
    BY <1>7, <2>3, <2>4, <2>5 DEF Picture
<1>8. ASSUME NEW p \in Sessions, Worker(p) PROVE LockInv'
  <2>1. pool[p] \in PoolState /\ Done(pool[p]) \in PoolState /\ Done(pool[p]).at \notin Holding
    BY DoneFields DEF Types, Holding
  <2>2. ASSUME pool[p].at \notin Holding, UNCHANGED runtime,
               pool' = [pool EXCEPT ![p] = Done(pool[p])]
        PROVE  LockInv'
    BY <2>1, <2>2, WorkersKeepLocks
  <2>3. ASSUME NEW at \in {"test", "load"}, NEW seen \in 0 .. MaxSessions,
               pool[p].at \notin Holding, UNCHANGED runtime,
               pool' = [pool EXCEPT ![p].at = at, ![p].seen = seen]
        PROVE  LockInv'
    <3> DEFINE next == [pool[p] EXCEPT !.at = at, !.seen = seen]
    <3>1. next \in PoolState /\ next.at = at
      BY DEF Types, PoolState
    <3>2. pool' = [pool EXCEPT ![p] = next]
      BY <2>3
    <3> HIDE DEF next
    <3>3. QED
      BY <2>3, <3>1, <3>2, WorkersKeepLocks DEF Holding
  <2>4. CASE Enter(p)
    <3>1. pool[p].at \notin Holding
      BY <2>4 DEF Enter, Holding
    <3>2. Current \in 0 .. MaxSessions
      BY DEF Types, Current
    <3>3. QED
      BY <2>2, <2>3, <2>4, <3>1, <3>2 DEF Enter
  <2>5. CASE Test(p)
    <3>1. pool[p].at \notin Holding
      BY <2>5 DEF Test, Holding
    <3> DEFINE next == [pool[p] EXCEPT !.at = "load"]
    <3>2. next \in PoolState /\ next.at = "load"
      BY <2>1 DEF PoolState
    <3>3. CASE pool' = [pool EXCEPT ![p].at = "load"]
      <4>1. pool' = [pool EXCEPT ![p] = next] /\ UNCHANGED runtime
        BY <2>5, <3>3 DEF Test
      <4> HIDE DEF next
      <4>2. QED
        BY <3>1, <3>2, <4>1, WorkersKeepLocks DEF Holding
    <3>4. QED
      BY <2>2, <2>5, <3>1, <3>3 DEF Test
  <2>6. CASE Load(p)
    <3> DEFINE next == [pool[p] EXCEPT !.at = "lock", !.target = global.runtime]
    <3>1. next \in PoolState /\ next.at = "lock" /\ pool[p].at = "load"
      BY <2>1, <2>6 DEF Load, PoolState, Types
    <3>2. pool' = [pool EXCEPT ![p] = next] /\ UNCHANGED runtime
      BY <2>6 DEF Load
    <3> HIDE DEF next
    <3>3. QED
      BY <3>1, <3>2, WorkersKeepLocks DEF Holding
  <2>7. ASSUME NEW at \in Holding, pool[p].at \in Holding, UNCHANGED runtime,
               pool' = [pool EXCEPT ![p].at = at]
        PROVE  LockInv'
    <3> DEFINE next == [pool[p] EXCEPT !.at = at]
    <3>1. next \in PoolState /\ next.at = at /\ next.target = pool[p].target
      BY <2>1, <2>7 DEF PoolState, Holding
    <3>2. pool' = [pool EXCEPT ![p] = next]
      BY <2>7
    <3> HIDE DEF next
    <3>3. QED
      BY <2>7, <3>1, <3>2, WorkersKeepLocks
  <2>8. CASE Wake(p)
    <3> DEFINE at == IF runtime[pool[p].target].pipe THEN "write" ELSE "unlock"
    <3>1. at \in Holding /\ pool[p].at \in Holding
      BY <2>8 DEF Wake, Holding
    <3>2. pool' = [pool EXCEPT ![p].at = at] /\ UNCHANGED runtime
      BY <2>8 DEF Wake
    <3> HIDE DEF at
    <3>3. QED
      BY <2>7, <3>1, <3>2
  <2>9. CASE Write(p)
    <3>1. "unlock" \in Holding /\ pool[p].at \in Holding
      BY <2>9 DEF Write, Holding
    <3>2. pool' = [pool EXCEPT ![p].at = "unlock"] /\ UNCHANGED runtime
      BY <2>9 DEF Write
    <3>3. QED
      BY <2>7, <3>1, <3>2
  <2>10. QED
    BY <1>8, <2>4, <2>5, <2>6, <2>8, <2>9, CriticalSection DEF Worker
<1>9. QED
  BY <1>2, <1>3, <1>4, <1>5, <1>6, <1>7, <1>8, ThreadsKeepLocks
     DEF Next, Main, Pausing, Resuming

\* stop() gives the lock back before it joins the server thread, and nothing is
\* waited for under the lock: no two threads ever wait for each other.
THEOREM NoDeadlock == Spec => []NobodyWaitsForGood
<1>1. Init => LockInv
  BY DEF Init, LockInv, Holds, Held, HasThread, Free, NoRuntime, NoPool, Holding
<1>2. IInv /\ LockInv /\ [Next]_vars => LockInv'
  BY LocksInvariant
<1>3. ASSUME IInv, LockInv PROVE NobodyWaitsForGood
  <2>1. main = "join" => runtime[global.runtime].thread # "none"
    <3> SUFFICES ASSUME main = "join" PROVE runtime[global.runtime].thread # "none"
      OBVIOUS
    <3>1. global.runtime = Current /\ Current > 0 /\ runtime[Current].stopping
      BY <1>3 DEF IInv, Position, Present
    <3>2. Current \in Sessions
      BY <1>3, <3>1, SessionAssumption DEF IInv, Types, Current, Sessions
    <3>3. QED
      BY <1>3, <3>1, <3>2 DEF LockInv, HasThread
  <2>2. QED
    BY <1>3, <2>1 DEF NobodyWaitsForGood, LockInv, Holds, Held
<1>4. QED
  BY <1>1, <1>2, <1>3, Invariant, PTL DEF Spec
=============================================================================
