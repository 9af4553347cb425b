-------------------------- MODULE PhonePreviewProofs --------------------------
(***************************************************************************)
(* Proofs about PhonePreview, for any number of sessions, photos, polls    *)
(* and loads.                                                              *)
(***************************************************************************)
EXTENDS PhonePreview, TLAPS

Answers(l) == l.got \in Photo

Types ==
  /\ session \in 0 .. MaxSessions /\ {on, serving, lossy} \subseteq BOOLEAN
  /\ thumbnail \in Photo \cup {NoPhoto}
  /\ pin \in 0 .. MaxSessions /\ shown \in 0 .. MaxVersion
  /\ photo \in Photo \cup {NoPhoto}
  /\ polls \subseteq 0 .. MaxVersion /\ loads \subseteq Load
  /\ typed \subseteq 1 .. MaxSessions

\* What the runtime retains is its own; after stop() it is a late photo.
Retained ==
  /\ on => serving
  /\ serving => session \in 1 .. MaxSessions
  /\ thumbnail # NoPhoto => thumbnail.session = session
  /\ thumbnail # NoPhoto /\ ~on => thumbnail.tail

\* What the page holds or is about to get was asked for with a typed PIN, or
\* came late.
Typed ==
  /\ pin # 0 => pin \in typed
  /\ \A l \in loads : l.pin # 0 => l.pin \in typed
  /\ \A l \in loads : Answers(l) => l.got.session \in typed \/ l.got.tail
  /\ PhotosNeedThePin

\* Before the first session the page has nothing; in it, no load asks for a
\* version that is still to come, and no answer is older than what was asked.
Nothing == polls = {} /\ loads = {} /\ photo = NoPhoto

Fresh ==
  /\ session = 0 => Nothing
  /\ session = 1 /\ on => \A v \in polls : v <= thumbnail.version
  /\ session = 1 /\ on => \A l \in loads : l.got = NoPhoto => l.version <= thumbnail.version
  /\ session = 1 =>
       \A l \in loads : Answers(l) /\ ~l.got.tail => l.version <= l.got.version
  /\ NeverBelievesNewer

IInv == Types /\ Retained /\ Typed /\ Fresh
-----------------------------------------------------------------------------
(* The kinds of answers are different. *)

LEMMA Kinds ==
  /\ NoPhoto \notin Photo /\ Refused \notin Photo /\ NoPhoto # Refused
  /\ NoPhoto.session = 0 /\ Refused.session = 0
<1>1. \A p \in Photo : p.session \in 1 .. MaxSessions
  BY DEF Photo
<1>2. NoPhoto.session = 0 /\ Refused.session = 0
  BY DEF NoPhoto, Refused
<1>3. NoPhoto.version = 0 /\ Refused.version = 1
  BY DEF NoPhoto, Refused
<1>4. 0 \notin 1 .. MaxSessions
  BY PreviewAssumption
<1> QED  BY <1>1, <1>2, <1>3, <1>4

LEMMA Bounds ==
  /\ MaxSessions \in Nat /\ MaxVersion \in Nat
  /\ 0 \in 0 .. MaxSessions /\ 0 \in 0 .. MaxVersion
BY PreviewAssumption

LEMMA LoadFields ==
  ASSUME NEW l \in Load
  PROVE  /\ l.version \in 1 .. MaxVersion /\ l.pin \in 0 .. MaxSessions
         /\ l.got \in LoadState
BY DEF Load

LEMMA Versions ==
  ASSUME NEW t \in Photo \cup {NoPhoto}
  PROVE  /\ t.version \in 0 .. MaxVersion /\ t.version \in Nat
         /\ t # NoPhoto => t \in Photo /\ t.version \in 1 .. MaxVersion
<1>1. NoPhoto.version = 0
  BY DEF NoPhoto
<1>2. CASE t = NoPhoto
  BY <1>1, <1>2, Bounds
<1>3. CASE t \in Photo
  BY <1>3, Bounds DEF Photo
<1> QED  BY <1>2, <1>3

LEMMA InitInvariant == Init => IInv
<1> SUFFICES ASSUME Init
             PROVE  IInv
  OBVIOUS
<1>1. Types
  BY Bounds DEF Init, Types
<1>2. Typed
  BY DEF Init, Typed, PhotosNeedThePin
<1>3. Fresh
  BY DEF Init, Fresh, Nothing, NeverBelievesNewer
<1>4. Retained
  BY DEF Init, Retained
<1> QED  BY <1>1, <1>2, <1>3, <1>4 DEF IInv

LEMMA StartSessionInv ==
  ASSUME IInv, StartSession
  PROVE  IInv'
<1> USE DEF IInv, StartSession, page
<1>1. Types'
  BY PreviewAssumption DEF Types
<1>2. Typed'
  BY DEF Typed, PhotosNeedThePin, Answers
<1>3. session \in Nat /\ session' = session + 1
  BY PreviewAssumption DEF Types
<1>4. session' # 0 /\ (session' = 1 => Nothing)
  BY <1>3 DEF Fresh
<1>5. polls' = polls /\ loads' = loads /\ photo' = photo
  OBVIOUS
<1>6. Fresh'
  BY <1>4, <1>5 DEF Fresh, Nothing, NeverBelievesNewer
<1>7. Retained'
  BY <1>1, <1>4, PreviewAssumption DEF Retained, Types
<1> QED  BY <1>1, <1>2, <1>6, <1>7

\* stop() and the end of its join: the thumbnail goes, and nothing is said of
\* a page whose first session is over.
LEMMA StoppingInv ==
  ASSUME IInv, on' = FALSE, serving' \in BOOLEAN, serving' => serving, thumbnail' = NoPhoto,
         UNCHANGED <<session, page>>
  PROVE  IInv'
<1> USE DEF IInv, page
<1>1. Types'
  BY DEF Types
<1>2. Typed'
  BY DEF Typed, PhotosNeedThePin, Answers
<1>3. Fresh'
  BY DEF Fresh, Nothing, NeverBelievesNewer, Answers
<1>4. Retained'
  BY DEF Retained
<1> QED  BY <1>1, <1>2, <1>3, <1>4

LEMMA SetPreviewInv ==
  ASSUME IInv, SetPreview
  PROVE  IInv'
<1> USE DEF IInv, page
<1>1. PICK t : t = [session |-> session, version |-> thumbnail.version + 1, tail |-> ~on]
  OBVIOUS
<1>2. /\ serving /\ thumbnail' = t
      /\ UNCHANGED <<session, on, serving, page>>
  BY <1>1 DEF SetPreview
<1>3. thumbnail.version \in Nat /\ thumbnail.version + 1 \in 1 .. MaxVersion
  BY Versions, PreviewAssumption DEF Types, SetPreview
<1>4. t.session = session /\ t.version = thumbnail.version + 1 /\ t.tail = ~on
  BY <1>1
<1>5. on \in BOOLEAN /\ session \in 1 .. MaxSessions
  BY <1>2 DEF Types, Retained
<1>6. t \in Photo
  BY <1>1, <1>3, <1>5 DEF Photo
<1>7. Types'
  BY <1>2, <1>6 DEF Types
<1>8. Typed'
  BY <1>2 DEF Typed, PhotosNeedThePin, Answers
<1>9. Retained'
  BY <1>2, <1>4 DEF Retained
<1>10. \A v \in polls : v \in Nat
  BY PreviewAssumption DEF Types
<1>11. \A l \in loads : l.version \in Nat
  BY PreviewAssumption, LoadFields DEF Types
<1>12. session = 1 /\ on => /\ \A v \in polls : v <= t.version
                           /\ \A l \in loads : l.got = NoPhoto => l.version <= t.version
  BY <1>3, <1>4, <1>10, <1>11 DEF Fresh
<1>13. Fresh'
  BY <1>2, <1>12 DEF Fresh, Nothing, NeverBelievesNewer, Answers
<1> QED  BY <1>7, <1>8, <1>9, <1>13

LEMMA StatusAnsweredInv ==
  ASSUME IInv, StatusAnswered
  PROVE  IInv'
<1> USE DEF IInv, StatusAnswered, runtime
<1>1. thumbnail.version \in 0 .. MaxVersion /\ thumbnail.version <= thumbnail.version
  BY Versions, PreviewAssumption DEF Types
<1>2. Types'
  BY <1>1 DEF Types
<1>3. Typed'
  BY DEF Typed, PhotosNeedThePin, Answers
<1>4. session # 0
  BY PreviewAssumption DEF Types, Retained
<1>5. Fresh'
  BY <1>1, <1>4 DEF Fresh, Nothing, NeverBelievesNewer, Answers
<1>6. Retained'
  BY DEF Retained
<1> QED  BY <1>2, <1>3, <1>5, <1>6

\* Steps that take away an answer of the status or a load, or recover.
LEMMA LessInv ==
  ASSUME IInv, polls' \subseteq polls, loads' \subseteq loads, lossy' \in BOOLEAN,
         UNCHANGED <<runtime, pin, shown, photo, typed>>
  PROVE  IInv'
<1> USE DEF IInv, runtime
<1>1. Types'
  BY DEF Types
<1>2. Typed'
  BY DEF Typed, PhotosNeedThePin, Answers
<1>3. Fresh'
  BY DEF Fresh, Nothing, NeverBelievesNewer, Answers
<1>4. Retained'
  BY DEF Retained
<1> QED  BY <1>1, <1>2, <1>3, <1>4

LEMMA PollReceivedInv ==
  ASSUME IInv, NEW v \in polls, PollReceived(v)
  PROVE  IInv'
<1> USE DEF IInv, runtime
<1>1. PICK l : l = [version |-> v, pin |-> pin, got |-> NoPhoto]
  OBVIOUS
<1>2. /\ polls' = polls \ {v}
      /\ UNCHANGED <<runtime, pin, shown, photo, lossy, typed>>
      /\ \/ loads' = loads
         \/ v > 0 /\ loads' = loads \cup {l}
  BY <1>1 DEF PollReceived, NeedsLoad
<1>3. CASE loads' = loads
  BY <1>2, <1>3, LessInv DEF Types
<1>4. CASE v > 0 /\ loads' = loads \cup {l}
  <2>1. v \in 1 .. MaxVersion
    BY <1>4, PreviewAssumption DEF Types
  <2>2. l \in Load /\ l.version = v /\ l.pin = pin /\ l.got = NoPhoto
    BY <1>1, <2>1 DEF Types, Load, LoadState
  <2>3. ~Answers(l)
    BY <2>2, Kinds DEF Answers
  <2>4. Types'
    BY <1>2, <1>4, <2>2 DEF Types
  <2>5. Typed'
    BY <1>2, <1>4, <2>2, <2>3 DEF Typed, PhotosNeedThePin, Answers
  <2>6. session # 0
    BY DEF Fresh, Nothing
  <2>7. session = 1 /\ on => v <= thumbnail.version
    BY DEF Fresh
  <2>8. session = 1 =>
          \A k \in loads' : Answers(k) /\ ~k.got.tail => k.version <= k.got.version
    BY <1>4, <2>3 DEF Fresh
  <2>9. Fresh'
    BY <1>2, <1>4, <2>2, <2>6, <2>7, <2>8 DEF Fresh, NeverBelievesNewer, Answers
  <2>10. Retained'
    BY <1>2 DEF Retained
  <2> QED  BY <2>4, <2>5, <2>9, <2>10
<1> QED  BY <1>2, <1>3, <1>4

LEMMA TypePinInv ==
  ASSUME IInv, TypePin
  PROVE  IInv'
<1> USE DEF IInv, TypePin, runtime
<1>1. Types'
  BY DEF Types, Retained
<1>2. Typed'
  BY DEF Typed, PhotosNeedThePin, Answers
<1>3. Fresh'
  BY DEF Fresh, Nothing, NeverBelievesNewer, Answers
<1>4. Retained'
  BY DEF Retained
<1> QED  BY <1>1, <1>2, <1>3, <1>4

\* The answer is the thumbnail of the runtime whose PIN came with the load, or
\* one that came late.
LEMMA PreviewAnsweredInv ==
  ASSUME IInv, NEW l \in loads, PreviewAnswered(l)
  PROVE  IInv'
<1> USE DEF IInv, runtime
<1>1. PICK k : k = [l EXCEPT !.got = PreviewAnswer(l)]
  OBVIOUS
<1>2. /\ loads' = (loads \ {l}) \cup {k}
      /\ l.got = NoPhoto
      /\ UNCHANGED <<runtime, pin, shown, photo, polls, lossy, typed>>
  BY <1>1 DEF PreviewAnswered
<1>3. l \in Load
  BY DEF Types
<1>4. k.version = l.version /\ k.pin = l.pin /\ k.got = PreviewAnswer(l)
  BY <1>1, <1>3 DEF Load
<1>5. /\ k.got = Refused \/ k.got = thumbnail
      /\ k.got = Refused \/ (serving /\ thumbnail # NoPhoto /\ (on => l.pin = session))
  BY <1>4 DEF PreviewAnswer, Authenticates
<1>6. CASE k.got = Refused
  <2>1. k \in Load
    BY <1>1, <1>3, <1>4, <1>6 DEF Load, LoadState
  <2>2. ~Answers(k) /\ k.got # NoPhoto
    BY <1>6, Kinds DEF Answers
  <2>3. Types'
    BY <1>2, <2>1 DEF Types
  <2>4. Typed'
    BY <1>2, <1>4, <2>2 DEF Typed, PhotosNeedThePin, Answers
  <2>5. Fresh'
    BY <1>2, <2>2 DEF Fresh, Nothing, NeverBelievesNewer, Answers
  <2>6. Retained'
    BY <1>2 DEF Retained
  <2> QED  BY <2>3, <2>4, <2>5, <2>6
<1>7. CASE /\ k.got = thumbnail /\ serving /\ thumbnail # NoPhoto
           /\ on => l.pin = session
  <2>1. session \in 1 .. MaxSessions /\ session # 0
    BY <1>7, PreviewAssumption DEF Retained
  <2>2. thumbnail \in Photo /\ thumbnail.version \in Nat
    BY <1>7, Versions DEF Types
  <2>3. k \in Load
    BY <1>1, <1>3, <1>4, <1>7, <2>2 DEF Load, LoadState
  <2>4. k.got # NoPhoto
    BY <1>7
  <2>5. thumbnail.session = session /\ (~on => thumbnail.tail)
    BY <1>7 DEF Retained
  <2>6. on => session \in typed
    BY <1>7, <2>1 DEF Typed
  <2>7. k.got.session \in typed \/ k.got.tail
    BY <1>7, <2>5, <2>6
  <2>8. Types'
    BY <1>2, <2>3 DEF Types
  <2>9. Typed'
    BY <1>2, <1>4, <2>7 DEF Typed, PhotosNeedThePin, Answers
  <2>10. session = 1 /\ ~k.got.tail => k.version <= k.got.version
    BY <1>2, <1>4, <1>7, <2>5 DEF Fresh
  <2>11. Fresh'
    BY <1>2, <2>1, <2>4, <2>10 DEF Fresh, Nothing, NeverBelievesNewer, Answers
  <2>12. Retained'
    BY <1>2 DEF Retained
  <2> QED  BY <2>8, <2>9, <2>11, <2>12
<1> QED  BY <1>5, <1>6, <1>7

LEMMA LoadReceivedInv ==
  ASSUME IInv, NEW l \in loads, LoadReceived(l)
  PROVE  IInv'
<1> USE DEF IInv, runtime
<1>1. /\ loads' = loads \ {l} /\ l.got # NoPhoto
      /\ UNCHANGED <<runtime, pin, polls, lossy, typed>>
  BY DEF LoadReceived
<1>2. CASE l.got = Refused
  <2>1. UNCHANGED <<shown, photo>>
    BY <1>2 DEF LoadReceived, Finish
  <2> QED  BY <1>1, <2>1, LessInv DEF Types
<1>3. CASE l.got # Refused
  <2>1. photo' = l.got /\ shown' = l.version
    BY <1>3 DEF LoadReceived, Finish
  <2>2. l.version \in 0 .. MaxVersion /\ l.got \in Photo
    BY <1>1, <1>3, LoadFields, PreviewAssumption DEF Types, LoadState
  <2>3. Types'
    BY <1>1, <2>1, <2>2 DEF Types
  <2>4. Typed'
    BY <1>1, <2>1, <2>2 DEF Typed, PhotosNeedThePin, Answers
  <2>5. session # 0
    BY DEF Fresh, Nothing
  <2>6. session = 1 /\ ~l.got.tail => l.version <= l.got.version
    BY <2>2 DEF Fresh, Answers
  <2>7. Fresh'
    BY <1>1, <2>1, <2>5, <2>6 DEF Fresh, NeverBelievesNewer, Answers
  <2>8. Retained'
    BY <1>1 DEF Retained
  <2> QED  BY <2>3, <2>4, <2>7, <2>8
<1> QED  BY <1>2, <1>3

LEMMA StepInvariant ==
  ASSUME IInv, [Next]_vars
  PROVE  IInv'
<1>1. CASE StartSession    BY <1>1, StartSessionInv
<1>2. CASE StopSession
  <2>1. on' = FALSE /\ serving' = serving /\ thumbnail' = NoPhoto /\ UNCHANGED <<session, page>>
    BY <1>2 DEF StopSession, RetainedAfterStop
  <2>2. serving' \in BOOLEAN /\ (serving' => serving)
    BY <2>1 DEF IInv, Types
  <2> QED  BY <2>1, <2>2, StoppingInv
<1>3. CASE ServerJoined
  <2>1. ~on /\ on' = on /\ serving' = FALSE /\ thumbnail' = NoPhoto /\ UNCHANGED <<session, page>>
    BY <1>3 DEF ServerJoined
  <2>2. on \in BOOLEAN
    BY DEF IInv, Types
  <2>3. on' = FALSE
    BY <2>1, <2>2
  <2> QED  BY <2>1, <2>3, StoppingInv
<1>4. CASE SetPreview      BY <1>4, SetPreviewInv
<1>5. CASE StatusAnswered  BY <1>5, StatusAnsweredInv
<1>6. CASE SomePollReceived     BY <1>6, PollReceivedInv DEF SomePollReceived
<1>7. CASE TypePin         BY <1>7, TypePinInv
<1>8. CASE SomePreviewAnswered  BY <1>8, PreviewAnsweredInv DEF SomePreviewAnswered
<1>9. CASE SomeLoadReceived     BY <1>9, LoadReceivedInv DEF SomeLoadReceived
<1>10. CASE \/ \E v \in polls : PollLost(v)
            \/ \E l \in loads : LoadLost(l)
            \/ LinkRecovers
            \/ UNCHANGED vars
  <2>1. lossy \in BOOLEAN
    BY DEF IInv, Types
  <2>2. /\ polls' \subseteq polls /\ loads' \subseteq loads /\ lossy' \in BOOLEAN
        /\ UNCHANGED <<runtime, pin, shown, photo, typed>>
    BY <1>10, <2>1 DEF PollLost, LoadLost, LinkRecovers, vars, page, runtime
  <2> QED  BY <2>2, LessInv
<1> QED  BY <1>1, <1>2, <1>3, <1>4, <1>5, <1>6, <1>7, <1>8, <1>9, <1>10 DEF Next
-----------------------------------------------------------------------------
(* The theorems. *)

\* The invariant of the page, the loads and the runtime.
THEOREM Invariant == Spec => []IInv
<1>1. IInv /\ [Next]_vars => IInv'
  BY StepInvariant
<1> QED  BY <1>1, InitInvariant, PTL DEF Spec

\* PhotosNeedThePin, also of photos of sessions that are over, with its exception
\* of photos that come while stop() waits for the server.
THEOREM PinFirst == Spec => []PhotosNeedThePin
<1>1. IInv => PhotosNeedThePin
  BY DEF IInv, Typed
<1> QED  BY <1>1, Invariant, PTL

\* NeverBelievesNewer, for any number of polls and loads that overtake each
\* other.
THEOREM NothingMissed == Spec => []NeverBelievesNewer
<1>1. IInv => NeverBelievesNewer
  BY DEF IInv, Fresh
<1> QED  BY <1>1, Invariant, PTL
=============================================================================
