----------------------------- MODULE PhonePreview -----------------------------
(***************************************************************************)
(* The thumbnail of the latest photo, from NativeRuntime::setPreview() to  *)
(* the page on the phone (kAppJs in embedded_web.cpp).  The page polls the *)
(* status; when its preview_version is not the one that is shown, it loads *)
(* /api/v1/preview.jpg.  Polls and loads overlap, since every click polls  *)
(* too, and their answers overtake each other or get lost.                 *)
(*                                                                         *)
(* The page stays open while the camera's application is left and entered  *)
(* again, which is a new session with a new runtime and a new PIN.  The    *)
(* server of the old runtime answers until stop() has joined its thread,   *)
(* and the thread that makes thumbnails does not know of sessions: it      *)
(* hands a photo, which may have been taken in an earlier session, to the  *)
(* runtime that exists.                                                    *)
(*                                                                         *)
(* Bounds for TLC: MaxSessions sessions of MaxVersion photos; MaxPolls     *)
(* polls and MaxLoads loads at a time.                                     *)
(***************************************************************************)
EXTENDS Integers, FiniteSets

CONSTANTS MaxSessions, MaxVersion, MaxPolls, MaxLoads

ASSUME PreviewAssumption ==
  {MaxSessions, MaxVersion, MaxPolls, MaxLoads} \subseteq Nat \ {0}

VARIABLES
  session,  \* how many sessions there were; each has its own PIN
  on,       \* started_; the PIN of the runtime is cleared with it
  serving,  \* the server thread runs
  thumbnail, \* the photo that the runtime retains
  pin,      \* page: the PIN in the input field, by its session; 0 if empty
  shown,    \* page: previewVersion
  photo,    \* page: the photo in the img element
  polls,    \* the preview_version of the status answers under way
  loads,    \* the loads under way
  lossy,    \* answers may still get lost
  typed     \* history: the PINs that the user has typed

page == <<pin, shown, photo, polls, loads, lossy, typed>>
runtime == <<session, on, serving, thumbnail>>
vars == <<runtime, page>>

\* A photo, by the runtime that retained it and its previewVersion_ there.
\* "tail": it was retained after stop() had cleared the PIN.
Photo == [session : 1 .. MaxSessions, version : 1 .. MaxVersion, tail : BOOLEAN]

NoPhoto == [session |-> 0, version |-> 0, tail |-> FALSE]

Refused == [session |-> 0, version |-> 1, tail |-> FALSE]

\* A load and what became of it: NoPhoto while the request is under way, then
\* the answer.
LoadState == Photo \cup {NoPhoto, Refused}

Load == [version : 1 .. MaxVersion, pin : 0 .. MaxSessions, got : LoadState]

-----------------------------------------------------------------------------
(* The runtime. *)

Init ==
  /\ session = 0 /\ on = FALSE /\ serving = FALSE /\ thumbnail = NoPhoto
  /\ pin = 0 /\ shown = 0 /\ photo = NoPhoto
  /\ polls = {} /\ loads = {} /\ lossy = TRUE /\ typed = {}

\* start() of a new object: it has no thumbnail and a new PIN.
StartSession ==
  /\ ~serving /\ session < MaxSessions
  /\ on' = TRUE /\ serving' = TRUE
  /\ session' = session + 1
  /\ thumbnail' = NoPhoto
  /\ UNCHANGED page

\* The block of stop() that holds the lock.
\* Mutant: the thumbnail is kept when the PIN is cleared.
RetainedAfterStopMutant == thumbnail
RetainedAfterStop == NoPhoto

StopSession ==
  /\ on
  /\ on' = FALSE
  /\ thumbnail' = RetainedAfterStop
  /\ UNCHANGED <<session, serving, page>>

\* The rest of stop(): the server thread is joined; the runtime is deleted.
ServerJoined ==
  /\ serving /\ ~on
  /\ serving' = FALSE
  /\ thumbnail' = NoPhoto
  /\ UNCHANGED <<session, on, page>>

\* setPreview() with a thumbnail within the limits; others change nothing but
\* the text of an error.  It does not ask whether the session has stopped.
SetPreview ==
  /\ serving /\ thumbnail.version < MaxVersion
  /\ thumbnail' = [session |-> session, version |-> thumbnail.version + 1, tail |-> ~on]
  /\ UNCHANGED <<session, on, serving, page>>

\* authenticate(): the PIN of a stopped runtime is empty, and so is the input
\* field of a page where nothing was typed.
Authenticates(p) == IF on THEN p = session ELSE p = 0

\* GET /api/v1/status, with no PIN.
StatusAnswered ==
  /\ serving /\ Cardinality(polls) < MaxPolls
  /\ polls' = polls \cup {thumbnail.version}
  /\ UNCHANGED <<runtime, pin, shown, photo, loads, lossy, typed>>

\* GET /api/v1/preview.jpg.  Without a server the load fails, which the page
\* takes like a refusal.
\* Mutant: the thumbnail is not protected.
PreviewAnswerMutant(l) == IF serving /\ thumbnail # NoPhoto THEN thumbnail ELSE Refused

PreviewAnswer(l) ==
  IF serving /\ Authenticates(l.pin) /\ thumbnail # NoPhoto THEN thumbnail ELSE Refused

PreviewAnswered(l) ==
  /\ l.got = NoPhoto
  /\ loads' = (loads \ {l}) \cup {[l EXCEPT !.got = PreviewAnswer(l)]}
  /\ UNCHANGED <<runtime, pin, shown, photo, polls, lossy, typed>>

-----------------------------------------------------------------------------
(* The page. *)

\* The user reads the PIN from the camera's display.
TypePin ==
  /\ on /\ pin # session
  /\ pin' = session
  /\ typed' = typed \cup {session}
  /\ UNCHANGED <<runtime, shown, photo, polls, loads, lossy>>

\* The callback of poll().
\* Mutant: only the first photo is loaded.
NeedsLoadFirstMutant(v) == v > 0 /\ shown = 0

NeedsLoad(v) == v > 0 /\ v # shown

PollReceived(v) ==
  /\ polls' = polls \ {v}
  /\ Cardinality(loads) < MaxLoads
  /\ loads' = IF NeedsLoad(v)
              THEN loads \cup {[version |-> v, pin |-> pin, got |-> NoPhoto]}
              ELSE loads
  /\ UNCHANGED <<runtime, pin, shown, photo, lossy, typed>>

PollLost(v) ==
  /\ lossy
  /\ polls' = polls \ {v}
  /\ UNCHANGED <<runtime, pin, shown, photo, loads, lossy, typed>>

\* finish(): a photo is shown, a refusal changes a text only.
\* Mutant: the version is noted after a refusal too.
FinishRefusedMutant(l) ==
  /\ shown' = l.version
  /\ photo' = IF l.got = Refused THEN photo ELSE l.got

Finish(l) ==
  IF l.got = Refused THEN UNCHANGED <<shown, photo>>
  ELSE photo' = l.got /\ shown' = l.version

LoadReceived(l) ==
  /\ l.got # NoPhoto
  /\ loads' = loads \ {l}
  /\ Finish(l)
  /\ UNCHANGED <<runtime, pin, polls, lossy, typed>>

LoadLost(l) ==
  /\ lossy
  /\ loads' = loads \ {l}
  /\ UNCHANGED <<runtime, pin, shown, photo, polls, lossy, typed>>

\* The phone gets near the camera.
LinkRecovers ==
  /\ lossy /\ lossy' = FALSE
  /\ UNCHANGED <<runtime, pin, shown, photo, polls, loads, typed>>

SomePollReceived == \E v \in polls : PollReceived(v)
SomePreviewAnswered == \E l \in loads : PreviewAnswered(l)
SomeLoadReceived == \E l \in loads : LoadReceived(l)

Next ==
  \/ StartSession \/ StopSession \/ ServerJoined \/ SetPreview
  \/ StatusAnswered \/ SomePollReceived
  \/ \E v \in polls : PollLost(v)
  \/ TypePin
  \/ SomePreviewAnswered \/ SomeLoadReceived
  \/ \E l \in loads : LoadLost(l)
  \/ LinkRecovers

Spec == Init /\ [][Next]_vars

\* The page polls for ever and the server answers; answers are not lost for
\* ever; the user types the PIN in the end.
FairSpec ==
  /\ Spec
  /\ WF_vars(StatusAnswered) /\ WF_vars(SomePollReceived)
  /\ WF_vars(SomePreviewAnswered) /\ WF_vars(SomeLoadReceived)
  /\ WF_vars(TypePin) /\ WF_vars(LinkRecovers)
-----------------------------------------------------------------------------
(* Properties. *)

\* Types; a load is for a version that exists.
TypeOK ==
  /\ session \in 0 .. MaxSessions /\ {on, serving, lossy} \subseteq BOOLEAN
  /\ thumbnail \in Photo \cup {NoPhoto}
  /\ pin \in 0 .. MaxSessions /\ shown \in 0 .. MaxVersion
  /\ photo \in Photo \cup {NoPhoto}
  /\ polls \subseteq 0 .. MaxVersion /\ loads \subseteq Load
  /\ typed \subseteq 1 .. MaxSessions

\* The page shows photos of those runtimes only whose PIN the user typed: no
\* photo that a runtime retained in its session outlives its PIN in stop().
\* The exception is a photo that comes late, after stop() has cleared the PIN
\* and before it has joined the server: the code serves it without a PIN.
PhotosNeedThePin ==
  photo # NoPhoto => photo.session \in typed \/ photo.tail

\* In the first session of the page, also while it ends: the version that it
\* believes to show is not newer than the photo, so a photo that overtakes its
\* status is loaded again, never missed.  The exception is again a photo that
\* stop() lets in late: its version counts from 1 again.
NeverBelievesNewer ==
  session = 1 /\ photo # NoPhoto /\ ~photo.tail => shown <= photo.version

\* In the first session of the page, it shows the thumbnail that the runtime
\* retains once no more photos come, in whatever order polls and loads were
\* answered or got lost.
ShowsNewest ==
  <>[](session = 1 /\ on /\ thumbnail # NoPhoto => photo = thumbnail)

\* A claim that the code does not keep: the same in every session.
ShowsNewestOfEverySession ==
  <>[](on /\ thumbnail # NoPhoto => photo = thumbnail)
=============================================================================
