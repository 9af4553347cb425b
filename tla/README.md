# A TLA+ model of Legacy Alpha Remote

Legacy Alpha Remote turns a Sony camera into a Wi-Fi remote.  An Android 10
application starts a Sony Wi-Fi Direct group; a native HTTP server answers the
browser of a phone; a native state machine decides when the shutter moves, and
the application's main thread carries out its commands on the camera.  This
directory holds TLA+ modules of that program, the TLC configurations that check
them, and proofs.

In the tables, `jni/` stands for `src/app/src/main/jni/` and `java/` for
`src/app/src/main/java/io/pihda/legacyalpharemote/`.

## The system

### Components

| Component | Source | State | Operations | Correct when |
| --- | --- | --- | --- | --- |
| Shutter logic | `jni/remote_state_machine.cpp` | state, readiness of camera and network, the schedule of the job (deadlines, command ids, flags) | `start`, `stop`, readiness, `requestCapture`, `cancelCountdown`, `setFocus`, `physicalFocus`, `physicalShutter`, `tick`, `reportCommandResult` | shots are asked for, spaced and released; a late result harms no other job; every job ends |
| Native runtime | `jni/native_runtime.cpp` | `started_`, PIN, limiters, deduplicator, the thumbnail and its version, texts | `start`, `stop`, `handleRequest`, `onServerTick`, `setPreview`, everything the activity calls | nothing moves the shutter without the PIN; a retry does nothing twice; answers are true |
| Rate limiter | `jni/rate_limiter.cpp` | a vector of token buckets | `allow`, `clear` | a client's rate is bounded; a patient client is served |
| Request deduplicator | `jni/request_deduplicator.cpp` | a vector of answers | `find`, `remember`, `clear` | an id has one answer while it is kept |
| HTTP server | `jni/http_server.cpp` | the thread, listener, clients with buffers and idle times | `start`, `stop`, `run`, `wake` | a request is handled once; clients do not hurt each other; no place is lost; it stops |
| HTTP parser | `jni/http_parser.cpp` | none | `parseHttpRequest` | its verdict does not depend on where chunks end |
| Phone page | `jni/embedded_web.cpp` | version shown, photo, PIN field | poll, load, commands | it ends up with the newest thumbnail |
| Camera controller | `java/SonyCameraController.java` | surface, preview, generations of shots, fallback timers, thumbnail pool | `start`, `stop`, surface callbacks, commands, frames, JPEGs | the runtime knows the readiness; each shot is answered |
| Wi-Fi Direct controller | `java/WifiDirectController.java` | which radios were on, whether a group started | `start`, `stop`, five receivers | ready means a network; radios are put back |
| Activity, JNI bridge | `java/LegacyAlphaRemoteActivity.java`, `java/NativeBridge.java`, `jni/legacyalpharemote_jni.cpp` | `resumed`, `nativeStarted`, the global runtime pointer | `onResume`, `onPause`, dispatch of commands | the parts start and stop in order; no call reaches a deleted runtime |
| The rest | responses, JSON, command queue (compiled, unused), clock, log, key table, receivers, build | | | |

### How they interact

Three kinds of threads run the program.

* The **main thread** takes one message at a time from its queue: life cycle,
  surface and camera callbacks, broadcasts, keys, timers, and the commands that
  the native side has posted.  It calls the native runtime for readiness, keys
  and command results.
* The **server thread** polls its sockets and, in each round, at least every 250
  ms, calls `onServerTick()`; it handles requests through `handleRequest()`.
* The **pool thread** of the camera controller decodes photos and hands over the
  thumbnail.  It outlives its session: `shutdownNow()` does not wait for it.

Every call of the native runtime holds `mutex_`, so a call is one atomic step,
and calls of different threads interleave freely.  A command that the shutter
logic sends is *posted* under the lock and executed later, without it: its
result comes back by another call, and in between the job it was for may be
over.  Wi-Fi broadcasts, JPEGs, answers to a phone are asynchronous in the same
way.

### What is hard

* A command and its result are apart, and the job may be replaced in between.
* One late tick may find several deadlines over; a refusal of the command queue
  may come in the middle of a call.
* Readiness comes and goes in any state; a session ends between any two steps.
* Callbacks of the camera carry no id of the shot; a JPEG comes late or never.
* The phone repeats requests and its answers overtake each other.
* The server keeps the events of its clients by position while the vector of
  clients changes.
* Broadcasts of one Wi-Fi session may be on their way when the next one starts.
* A session ends with several threads under way: commands are still queued, the
  server thread is in a call, the pool is about to use a runtime that is deleted.
* A request comes in arbitrary chunks and is parsed from its start each time.

The list of hazards, each with its line and the properties that would catch it,
is `hazards` of `PROJECT.json`.

## Modules

| Module | What it models |
| --- | --- |
| `RemoteStateMachine` | the class, as operators on a record: a method is an operator from the object before to the object after, and a method that calls others is their composition |
| `RemoteControl` | a session of the class: calls by both threads, posted commands, their results, time; histories of what was asked and shot |
| `Shutter` | what the shutter logic promises: the phases a user can tell apart and the moves between them |
| `RateLimiter`, `RateLimits` | the class as operators; any clients calling it, with an observer of one of them |
| `RequestDeduplicator` | the class as operators |
| `HttpParser` | `parseHttpRequest()`, `parseCaptureJson()` and the limit of `readClient()`, as operators |
| `HttpReader` | one client whose request arrives in chunks of any size; the reference definition of a legal request |
| `RequestApi` | the POST half of `handleRequest()`, over `Shutter`, `RateLimiter` and `RequestDeduplicator`, with start and stop |
| `PhonePreview` | from `setPreview()` through status and preview answers to the page |
| `HttpServer` | the thread's round step by step, with peers acting between the steps |
| `Session` | the threads of the app around the runtime pointer: main thread with its queue, server thread, pool |
| `SonyCamera` | the camera controller as the activity uses it, with its pool |
| `WifiDirect` | the Wi-Fi Direct controller and the radios it drives |
| `MC...` | the same modules with what TLC needs: definitions of constants, symmetry; `MCRequests` runs `HttpReader` and `RateLimits` one after the other |
| `...Proofs` | the theorems about a module, with their proofs |

`RemoteControl` EXTENDS `RemoteStateMachine` and implements `Shutter`
(`ImplementsShutter`, by the mapping `PhaseOf`).  `RequestApi` EXTENDS `Shutter`
and `RequestDeduplicator` and INSTANCEs `RateLimiter`: it talks to the promise,
not to the machine, and the refinement justifies that.  `HttpReader` and `HttpServer`
share the verdicts of the parser: the one is exact about a single client, the other
lets many clients get any verdict.  `Session` abstracts every call of the runtime to
what it means for the threads (the lock it takes, the command it posts), and is the
module that says when a call can be made at all.

### State and actions against the code

**RemoteControl.**  `m` is the `RemoteStateMachine` object, `inflight` the
commands posted to the main thread's queue whose result is not reported.
`Call(r, due)` is the frame of every method: the object becomes `r`, the accepted
commands become messages.  `CameraReadyChanges`, `WifiReadyChanges`,
`CaptureRequest`, `CancelRequest`, `FocusDown`, `FocusUp`, `ShutterDown`, `ShutterUp`,
`ServerTick` and `CommandResult` are the methods of the class with the guards of
their early returns (`CanRequestCapture` and so on), `StartSession` and
`StopSession` are `nativeStart` and `nativeStop`.  `sink` ranges over the sets of
command types that `dispatch()` accepts during a call, so any command of a call
may be refused.  `ask`, `shot` and the mark `stale` of a command are histories;
`shot.lifted` says that the latest call was the key of that shot going up, which is how a
property tells an early release by the key from an early release by a tick.

**RequestApi.**  One action per outcome of a request, with the checks in the
code's order: limiter (429), PIN (401), content type (415), body or path (400,
404), memory of answers, shutter.  `serving` outlives `started`: `stop()` releases the
lock before it joins the server thread.

**RateLimits.**  Tokens are counted in the time that refills them, which turns the
code's fractions into whole numbers.  Its rounding is left out.

**PhonePreview.**  `polls` and `loads` are the requests under way.  A load carries the
version it asked for and the PIN, as the page's closure does; the server answers
with whatever thumbnail it has when the request is handled.  `StopSession` is the block of
`stop()` under the lock and `ServerJoined` the rest.  In between, requests are answered,
the pool may store a photo, and a request without a PIN matches the PIN that was cleared;
a photo that was stored then is marked `tail`.  A photo belongs to the runtime that
retains it: one of an earlier session that its pool finishes late becomes a photo of this
one, as in the code.

**HttpServer.**  `pc` walks through a round: follow the readiness (`BeginRound`),
`Poll`, `Accept`, `Serve` from the last client to the first (`EndServe`), drop silent
clients one by one from the first to the last (`Sweep`, `EndRound`).  `index` is the
loop variable of either walk, `polled` the vector of events that is kept by position.
Data are counted in chunks.  What the parser makes of the chunks is any of its verdicts.

**HttpParser, HttpReader.**  A request is abstracted to the positions at which its
parts end (the first NUL, the end of the request line, the end of the header
section, the length of the body) and to what the parts contain; a position behind the
bytes received is a part that has not come.  `Receive(chunk)` is one `recv()` of
`readClient()`, which parses everything from the start.  The header loop and the
loop over the members of the JSON body are recursive functions, one round per element;
`Legal` and `LegalMembers` are the references that look at a request and a body as a whole.  `Matters` names the ends of chunks that do
change the answer in the code (a NUL behind the bytes that were enough for an answer, a
request line of the greatest length cut between CR and LF, more bytes than the buffer).
Characters, digits and the one-member body of `/api/focus` are abstracted.

**SonyCamera.**  A generation (`captureGeneration`) is the identity of a shot, as in
the code.  `timers` are the delayed runnables, `oneShot` is the preview callback that
was registered for one frame, `waiting` and `running` are the pool.  What can throw
may do so: then the step takes its error path.  What need not throw may succeed: a preview
starts on a surface that went during a pause, since `startPreview()` asks only
`surfaceAvailable`, and a picture is taken without a running preview.  `ReleaseForgotten`
is the native side dropping a shot without `RELEASE_SHUTTER`.

**Session.**  `main` is the place of the main thread inside `onResume()` or `onPause()`,
at each access to state that another thread reads; `queue` is the main thread's
message queue, into which Android puts `resume` and `pause` and the runtimes put
commands; `global` is the pair of pointers of the JNI bridge; `runtime[s]` and `pool[s]`
belong to session `s`.  Critical sections of the main and the server thread are one
step.  Those of the pool are split (`Lock`, `Wake`, `Write`, `Unlock`), since the
runtime can be deleted under it: that is undefined behaviour, modelled as `Fault`, which
ends the process or does nothing.  Assumed: the queue is first in, first out; Android
posts `onResume()` only after `onPause()` has returned; one activity instance;
memory is sequentially consistent (`nativeStarted` is not `volatile`, so this is
more than the language promises).  Left out: texts for the display, ids of commands;
one call of the server thread stands for those of a round.

**WifiDirect.**  `inbox` is the order of the broadcasts.  The radios `wifi` and
`direct` switch some time after they are asked to, and `group` comes up or not.
`Start` does not wait for that, as `start()` does not: the history `hasty` marks a session
that began while a radio was still being switched.

## Runs

| Run | Question |
| --- | --- |
| `remote_control` | Is the shutter logic right under every interleaving of requests, keys, readiness, ticks, refused commands and late results?  Does it implement `Shutter`?  Does each countdown, shot and cooldown fall due and end, and does nothing put it off?  Is a shutter released once, while it is down, and not before its time? |
| `requests` | Is the answer to a request the same wherever its chunks end, but for the ends that `Matters` names, and are exactly the legal requests accepted?  Then: is the rate of a client bounded while its bucket is kept, and a patient client always served? |
| `request_api` | Is a retry answered alike with no effect, is an answer true, does the PIN guard the shutter, also while the session ends? |
| `phone_preview` | Does the page end up with the newest thumbnail, and does it never get a photo whose PIN was not typed, but for one stored in the tail of `stop()`? |
| `server_safety` | Is a request handled once?  Is a client closed for reasons of its own only? |
| `server_liveness` | Does every client leave, does the thread stop, does the listener follow the readiness? |
| `sony_camera` | Does the runtime know the readiness of the camera as the controller does?  Is the live view a last resort, and is a shot answered that is released and brings the preview back? |
| `session` | Do commands stay in their session?  Do main and server thread use only what is there, and the pool anything that is gone only after a session's end has begun?  How many late photos turn up?  Do two threads ever wait for each other?  Do `onResume()` and `onPause()` return? |
| `wifi_direct` | Sessions start and stop at any point of the switching: of those that began with settled radios, does ready mean a network, are radios put back, does a granted session get its network? |
| `remote_focus`, `remote_release`, `preview_sessions` | violated: see *Findings* |

### Bounds, and why they are enough

* **RemoteControl.**  Durations are scaled down and keep their order (ties where
  only the order matters), and the delays -1, 0, 1, 4, 5 lie on both sides of each
  boundary of `requestCapture()`: negative, immediate, shorter than the lead of the
  autofocus, the longest, too long.  Jobs start up to `LastAsk` = 4, later than the
  cooldown of a first shot, and only while at most `MaxCommands` = 3 ids are used:
  enough for a shot with its release and a second one, or for a job cancelled, failed
  or interrupted and its successor, with results of the first outstanding.  The clock
  runs on until the last deadline is over, so no job is cut short by the bound.
* **HttpReader.**  Limits of 4, 12 and 2 bytes for line, headers and body, and a
  request of 16 bytes: one more than fits.  Every position on both sides of every
  limit, all sequences of up to three header fields and of up to four members, and
  every cut into chunks; more than ten thousand requests.
* **RateLimits.**  Three clients for two buckets, so that buckets are evicted and
  come back; a bucket of two and a half requests, so that both the cap and the
  remainder matter; a clock long enough to refill it.
* **RequestApi.**  Three ids for a memory of two; two clients for one bucket; two PINs,
  so that the PIN of the session before is a wrong one; time for two retentions.
* **PhonePreview.**  Two sessions of two photos, two polls and two loads at a time: the
  smallest numbers with which answers overtake each other within a session and
  across sessions.
* **HttpServer.**  Safety: three connections for two places, so that a connection is
  turned down, positions shift, and a place is used again; two chunks of input.
  Liveness: one place and two connections, a reply in two parts.  `IdleTimeout` and
  `RetryDelay` are counters with a limit of their own, so no step is bounded.
* **SonyCamera.**  Four generations: two shots in a session, or three, or a session
  with a shot after another session.  Generations only grow, hence the bound, and
  hence `CHECK_DEADLOCK FALSE`; the same for the sessions of `PhonePreview`.
* **Session.**  Two sessions and two commands under way: a session with its
  successor, a command before and one behind `onPause()`, and the pools of both.
  `CHECK_DEADLOCK FALSE`, because the activity may stay paused after the last session
  and because a fault may end the process.
* **WifiDirect.**  No bound on sessions; stations come and go until three broadcasts
  are under way, which covers each order of an announcement and its neighbours.

### Fairness, and why the code justifies it

* `ServerTick` is weakly fair: the thread polls with a timeout of 250 ms and ticks each
  round until it is stopped.  `TimePasses` is weakly fair.  Users, clients, the camera and
  the message queue get none: jobs end without them.
* `HttpServer`: the thread runs, the owner joins it, time passes.  That listening
  succeeds in the end if it is tried again and again (`SF` of a successful `BeginRound`)
  is an assumption on the system, and `ListenerFollows` alone needs it.  Peers get none.
* `PhonePreview`: the page polls by a timer, the server answers; the link recovers in
  the end and the user types the PIN in the end.  Photos and sessions get none.
* `SonyCamera`: a shot is released or forgotten, which `ShutterIsReleased` checks of the
  shutter logic (it is released, or interrupted and then forgotten) and a refused command
  adds to; timers fire, a running preview has frames, the pool works.  No JPEG has to come.
* `Session`: each thread is scheduled (`WF` of the main thread's steps, of each server
  thread and of each pool).  Android, keys and pictures get none.
* `WifiDirect`: the framework does what it granted, and broadcasts are delivered.

## Proofs

Each theorem holds for every value of the constants that meets the named assumptions
of its module, which are types and what the code's configuration guarantees
(`ConfigAssumption`: durations are positive; `LimiterAssumption`: a request costs
something and a full bucket pays for one; `ApiAssumption` says the same of the API's
limiter and that no PIN is empty; `RequestAssumption`: the end of the header section is
looked for behind that of the request line; `PreviewAssumption`,
`CameraAssumption`, `WifiAssumption`, `ServerAssumption`, `SessionAssumption`,
`BoundsAssumption`, `WatchAssumption`: types, and that limits are not zero where the code's
are not).  The invariant of every proof was model-checked before it was proved.

| Module | Theorem | Property |
| --- | --- | --- |
| `RemoteControlProofs` | `TypeCorrect`, `ReadinessDecides`, `ScheduleMatches` | `TypeOK`, `StateFollowsReadiness`, `ScheduleMatchesState` |
| | `LateResults`, `ShotsApart`, `ReleasesOnTime`, `ShotsAsked` | `StaleResultsIgnored`, `CapturesSpaced`, `ReleaseOnTime`, `CapturesAsAsked` |
| | `JobsOnTime` (`JobsAreDue`, `JobsKeepTheirTime`) | `JobsAreOnTime` (`JobsFallDue`, `JobsAreNotProlonged`) |
| | `Refinement` | `ImplementsShutter` |
| `RateLimitsProofs` | `TypeCorrect`, `RateIsBounded`, `PatienceIsServed` | `TypeOK`, `WindowBound`, `PatientClientServed` |
| `RequestProofs` | `TypeCorrect`, `RetriesAlike` | `TypeOK`, `RetriesAnsweredAlike` |
| | `PinGuards`, `TrueAnswers` | `PinGuardsTheShutter`, `AnswersAreTrue` |
| | `ChunksAreFree`, `LegalRequests`, `BodiesAreExact` | `ChunksDoNotMatter`, `LegalIsAccepted`, `BodiesExact` |
| | `SectionsExact` | about `ReadFields`, for any sequence of fields |
| `PhonePreviewProofs` | `PinFirst`, `NothingMissed` | `PhotosNeedThePin`, `NeverBelievesNewer` |
| `HttpServerProofs` | `TypeCorrect`, `RequestsHandledOnce`, `ReasonsAreOwn` | `TypeOK`, `HandledOnce`, `NoInnocentClosed` |
| `SonyCameraProofs` | `Readiness`, `LastResort` | `ReadinessAgrees`, `LiveViewIsLastResort` |
| `WifiDirectProofs` | `TypeCorrect`, `ReadyIsTrue`, `RadiosComeBack` | `TypeOK`, `ReadyMeansNetwork`, `RadiosRestored` |
| `SessionProofs` | `CommandsStay`, `PoolsAlone`, `AtMostOnePhoto` | `CommandsKeepTheirSession`, `OnlyLatePoolsFault`, `OneLatePhoto` |
| | `NoDeadlock` | `NobodyWaitsForGood` |

In each module `Invariant` says that `IInv` holds in every reachable state.  Its proof
has one step or lemma per action; the other theorems follow from it.  What `IInv` adds to
the properties, and why it is needed:

**RemoteControlProofs.**  `IInv` says that the object is `Consistent`: it has its type, its
state agrees with its readiness (`Active`), and its schedule with its state
(`Scheduled`).  This is not inductive: nothing in it keeps a tick from sending a shot whose
autofocus is still to come.  Two conjuncts make it so.  `FocusInTime`: an autofocus that is
not sent yet is due no later than its shot, hence the tick that finds the shot due has
sent the autofocus.  `FocusIsHeld`: a focus that is held belongs to no request, and a
focus that belongs to no request is held.  Each private helper and each public
method has a lemma that it preserves `Consistent` (`PostedConsistent`,
`BeginCaptureConsistent`, `TickConsistent`, ...), since methods are compositions of
helpers.

The action properties compare a call with what happened before it, so `HInv` adds what the
histories know: `Numbered`, that the ids in flight are old and that the job in progress
waits for no stale one; `Shots`, that the deadlines of a shot count from when it was sent
and that otherwise the latest shot was interrupted or has cooled down; `HeldDown`, that a
shutter which the object holds is down, and that the latest `CAPTURE` on its way is the one
the object waits for, so that its failure ends the hold; `Asked`, that a countdown ends no
earlier than the time asked for.  `HeldDown` is what lets `ReleaseOnTime` say that a release
finds the shutter down, hence comes once per shot.  A second lemma about each method says
what it does to ids and deadlines (`TickEffect`, `PressShutterEffect`, ...), and
`StepPerforms` that every step of `Next` but those of the session and of the clock is the
effect of one method.  From the same lemmas, `StateMoves` lists the states that a call may
lead to, and `ShutterStep` that these are moves of `Shutter`: the refinement.

`Near` is what `JobsFallDue` needs besides: a countdown is as near as when it was asked for,
because `Counts` says that no call moves it; and no shot lies in the future.  Nothing is
said of a held focus, which has no deadline.  `TicksEnd` is about one tick: it leaves no countdown and no shot
whose time is over.  With `JobsAreNotProlonged`, what is left of `JobsEnd` is that time
passes and ticks come, which is the fairness that TLC assumes.

**RateLimitsProofs.**  `WindowBound` alone is not inductive, since the tokens that are left
in the bucket can be spent at once.  `Account` counts them too: spent and left
together do not exceed the capacity and the refill from the start of the window to
the last refill of the bucket; a bucket that was not refilled since the start belongs to
a client that has spent nothing, and so does a client without a bucket.  `Dated` says
that the bucket was refilled by the client's latest request, which is what patience
needs.  `WithBucketVector` and `ServedVector` are the facts about the vector:
it stays one, has a bucket for the key, and changes that bucket only.  The clock has no
bound there.

**RequestProofs** is about a request on its way: the parser and its reader, then the API.

*The API.*  `PinGuards` and `TrueAnswers` are about steps: a started session has a PIN, and
without a session the shutter is off (`InSession`); the lemmas about one request
(`PinOrNothing`, `OutcomeIsTrue`) do the rest, from the limiter to the answer.
`RetriesAlike` needs the memory of answers.  `Remembering` says that no id is in it twice,
and that an id which the history calls remembered has an entry with its first answer,
*no deeper than the number of ids that came in since*: that is why `remember()`, which drops
from the other end, cannot drop it before `MaximumEntries` others have come.  The depth is
what makes the property inductive.  The lemmas about the class do the work: `PruneKeeps`
(the entries that have not expired stay, in their order and no deeper), `FoundIsRemembered`
(`find()` gives the one entry of the id), `RememberKeeps` (the new one is at the end and the
others are one deeper at most).

*The reader.*  `ReaderInv` says that the verdict is the parser's on what has come in.  It is
inductive as it stands; `ChunksAreFree` follows from `VerdictStays`, a lemma about `Parse`: a
verdict that is reached stays when more bytes come, outside the ends that `Matters` names.
`LegalRequests` and `BodiesAreExact` compare loops with definitions: `Knows` and `Took` are
the invariants of the two loops after each round (what has been seen, whether it is legal so
far, the one length, the one PIN), `FieldStep` and `MemberStep` show that a round keeps
them, `WholeVerdict` puts the line, the headers and the body together.

*The loops.*  A loop is a recursive function over `0 .. n` in a LET.  That such a function
exists is shown once, in `LoopRuns`: were there a number of rounds without a course, there
would be a least one, and one round more than a course is a course.  `Counting` is
the same argument for what holds after each round.  Both rest on the well-founded order of
the naturals in the library, used with sets in place of predicates.

**PhonePreviewProofs.**  `Typed` follows the PIN to everything that may still reach the page:
the field, the loads under way, their answers.  A field that is empty gets through only while
the PIN is cleared, when all that the runtime can have is a photo of the tail.  `Fresh` says that in the first session no
load asks for a version that is still to come, and no answer is older than what was asked
for; then nothing the page believes is newer than what it shows or is about to load.

**HttpServerProofs.**  `EventsFit` is the heart: the events at the positions that are still to
be served are those of the clients that are there now, whoever was accepted or closed
since `poll()`.  It is inductive because `Serve` goes from the last position to the first,
so that removing a client shifts only positions that are done, and because `Accept` appends.
`Accounted` ties a handled request to a reply, `Connected` the clients to their
connections.

**SonyCameraProofs.**  `Device` says what a running preview needs.  `LiveViewIsLastResort`
compares shots of tasks in three places, so `Ordered` and `Pools` order the published
thumbnail, the task at work and the waiting one within a session, and `Fallback` says that
the shot whose fallback is wanted is newer than all of them.

**WifiDirectProofs.**  `NewsIsTrue` says that each broadcast under way about a group that came
up is still true of it; that needs `StayOn`, that in a session that began with settled
radios no radio which is on goes off.  `Restorable` says what `stop()` needs: that the
controller remembers the radios as they were.

**SessionProofs.**  `Position` is what each place of the main thread knows of the present
runtime; `Posts` says where commands of which session can be in the queue relative to
`onPause()` and `onResume()`, which keeps commands from the next session although they
carry no session; `Bridges` says that a pool's thread inside the bridge either belongs to
the present session with all of it there, or its session has begun to end; `Pools`, that a
pool that is shut finishes one photo.  `NoDeadlock` adds `LockInv`: only the thread of a
pool is ever seen with a lock, that of its target and inside its critical section; each
lock that is taken has such a holder; and a runtime that was started has a thread to join.
With `NobodyWaitsForGood` all that `LifecycleReturns` still needs is that the threads are
scheduled, which is left to TLC.

Only model-checked: the liveness properties `JobsEnd`, `ShutterIsReleased`, `ShowsNewest`,
`ShotAnswered`, `NetworkComesUp`, `ClientsLeave`, `StopEnds`, `ListenerFollows` and
`LifecycleReturns`, since liveness under fairness is out of the prover's reach.  Every other
property of a passing run is proved.  No module declares a RECURSIVE operator.

## Findings

1. **A held focus takes a picture** (`remote_focus`).  A focus held by the key or by
   the phone is in `STATE_FOCUSING` with no deadline; `tick()` takes it for a
   countdown that is over and sends `CAPTURE`.
2. **A shutter that is not released** (`remote_release`).  A loss of readiness during the
   hold clears the deadline of the release; the next shot is sent without any
   `RELEASE_SHUTTER` in between.
3. **A photo that the page never loads** (`preview_sessions`).  Versions start again in
   each session and the page compares nothing else.

Properties of the passing runs leave out these cases, and say so: `CapturesAsAsked`,
`JobsAreOnTime` and `JobsEnd` (the held focus: a tick that lets it be would keep them too),
`ShutterIsReleased`, `CapturesSpaced` (an interrupted shot) and `ShotAnswered` (a shot that is
never released), `ShowsNewest` and `NeverBelievesNewer` (the page's first session).

Observations, of which no document promises otherwise:

* The JPEG of one shot cancels the fallback of the next, which then may never be answered.
  A shot whose `RELEASE_SHUTTER` never comes (finding 2, or a refused command) has no preview
  to fall back on, and is not answered either.  `ShotAnswered` leaves out both.
* Between the locked block of `stop()` and the join, a photo that is just finished is stored,
  and is served to whoever sends no PIN (`native_runtime.cpp:107`, `208`).  `PhotosNeedThePin`
  and `NeverBelievesNewer` leave out those photos, and no others.
* After a pause in which the surface went, `surfaceAvailable` is stale and the preview is
  started without a surface; if the framework does not throw, the camera is told to be ready.
* A session that starts while the radios of the one before are still going off takes them for
  on (`WifiDirectController.java:105`): it may publish a network that goes away, get none, and
  put back what it did not find.
* A thumbnail that is in the making at the end of a session is published into the next
  one; `OneLatePhoto` says that it is one at most.
* The pool's thread may use a runtime that `nativeStop()` deletes or a pipe that
  `HttpServer::stop()` closes; `OnlyLatePoolsFault` says when, and that no other thread does.
* A group that was on its way at `stop()` stays up when Wi-Fi Direct was on before.
* `serverError_` is not cleared when a bind succeeds after one that failed
  (`native_runtime.cpp:376`, `http_server.cpp:229`): the status shows it for the rest of the
  session.

## What is not modelled, and why

* The activity's base class, key table, receivers and overlay; logs; the texts of the
  display, of errors and of the status: no state that a property depends on.
* Formatting of responses and JSON; characters of paths, ids and numbers.
* GET requests other than status and preview: they change no state but a second limiter.
* The command queue: compiled, used by nothing.
* Rounding of the tokens of a bucket; the randomness of `generatePin()`; the address that
  the server binds; the pipe of `wake()` in `HttpServer`, where `poll()` times out anyway.

## Plan

Done: the inventory, the core (`RemoteStateMachine`, `RemoteControl`, `Shutter`), the limiter,
the deduplicator and the API on top, the preview, the server, the camera, Wi-Fi Direct, the
parser with its reader, the session with its threads, and the proofs above.

Left, in order of worth: `RequestApi` over `RemoteControl` instead of `Shutter`, to check
the answers against the machine itself; radios that go off by themselves in `WifiDirect`,
once it is known what the framework does then; and, as for `JobsEnd` and
`LifecycleReturns`, the part of the other liveness properties that is about single steps.
