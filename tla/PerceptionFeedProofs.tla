------------------------ MODULE PerceptionFeedProofs ------------------------
(* Theorems of PerceptionFeed, for any gate, any age limit, any number of   *)
(* failures that degrades the detector and any number of frames.            *)
EXTENDS PerceptionFeed, TLAPS

(* A note that suspects anything compared its own frame.                    *)
Compared(n) == n.suspect => n.fast = n.frame

(* What a note, kept or republished, was made from.                         *)
NotesInv == Compared(note) /\ Compared(last)

(* What the pipeline holds is newer than what it has published.             *)
TakenInv == taken # 0 => taken > snap.frame

IInv == TypeOK /\ NotesInv /\ TakenInv

-----------------------------------------------------------------------------
LEMMA InitInv == Init => IInv
<1> SUFFICES ASSUME Init PROVE IInv
  OBVIOUS
<1>1. TypeOK
  <2>1. NoNote \in Notes
    BY FeedAssumption DEF NoNote, Notes, Frames
  <2>2. snap \in [frame : 0 .. latest, healthy : BOOLEAN]
    BY DEF Init, NoSnap
  <2>3. /\ frame \in Frames /\ det \in {"none", "RUNNING", "DEGRADED"}
        /\ seen \in 0 .. frame /\ infer \in {0, seen} /\ latest \in 0 .. seen
        /\ fails \in 0 .. MaxFails /\ taken \in 0 .. latest
        /\ lane \in {"idle", "called", "polling"} /\ sample \in 0 .. frame
        /\ point \in 0 .. frame /\ mask \in 0 .. frame
    BY FeedAssumption DEF Init, Frames
  <2>4. silent \in BOOLEAN /\ armed \in BOOLEAN
    BY DEF Init
  <2>5. last \in Notes /\ note \in Notes
    BY <2>1 DEF Init
  <2> QED BY <2>2, <2>3, <2>4, <2>5 DEF TypeOK
<1>2. NotesInv /\ TakenInv
  BY DEF Init, NotesInv, TakenInv, Compared, NoNote
<1> QED BY <1>1, <1>2 DEF IInv

(* Each action keeps the types and the order of the streams.                *)
LEMMA TypeStep == TypeOK /\ [Next]_vars => TypeOK'
<1> SUFFICES ASSUME TypeOK, [Next]_vars PROVE TypeOK'
  OBVIOUS
<1> USE FeedAssumption DEF TypeOK, Frames, Notes, camera, detector, pipeline, slowlane, pinpoint
<1>1. CASE NewFrame
  BY <1>1 DEF NewFrame
<1>2. CASE CameraSilent
  BY <1>2 DEF CameraSilent
<1>3. CASE OnStatus
  BY <1>3 DEF OnStatus
<1>4. CASE TakeFrame
  <2>1. silent' \in BOOLEAN
    BY <1>4 DEF TakeFrame
  <2>2. /\ seen' = frame /\ infer' = frame
        /\ UNCHANGED <<frame, det, fails, latest, taken, snap, armed, lane, sample, last, note,
                       point, mask>>
    BY <1>4 DEF TakeFrame
  <2> QED BY <2>1, <2>2
<1>5. CASE InferDone
  BY <1>5 DEF InferDone
<1>6. CASE InferFails
  BY <1>6 DEF InferFails
<1>7. CASE WaitNext
  BY <1>7 DEF WaitNext
<1>8. CASE Publish
  BY <1>8 DEF Publish, Healthy
<1>9. CASE TickSkipped
  BY <1>9 DEF TickSkipped
<1>10. CASE TickCalls
  BY <1>10 DEF TickCalls
<1>11. CASE TickDropped
  BY <1>11 DEF TickDropped
<1>12. CASE TickAnswered
  BY <1>12 DEF TickAnswered
<1>13. CASE TickPublishes
  <2>1. sample \in Frames /\ latest \in Frames /\ 0 \in Frames
    OBVIOUS
  <2>2. CASE ExactResult
    <3>1. PICK flag \in BOOLEAN : last' = [frame |-> sample, fast |-> latest, suspect |-> flag]
      BY <1>13, <2>2 DEF TickPublishes
    <3>2. last' \in [frame : Frames, fast : Frames, suspect : BOOLEAN]
      BY ONLY <2>1, <3>1, Zenon
    <3> QED BY <1>13, <3>2 DEF TickPublishes
  <2>3. CASE ~ ExactResult
    <3>1. last' = [frame |-> sample, fast |-> 0, suspect |-> FALSE]
      BY <1>13, <2>3 DEF TickPublishes
    <3>2. last' \in [frame : Frames, fast : Frames, suspect : BOOLEAN]
      BY ONLY <2>1, <3>1
    <3> QED BY <1>13, <3>2 DEF TickPublishes
  <2> QED BY <2>2, <2>3
<1>14. CASE Pinpoint
  BY <1>14 DEF Pinpoint
<1>15. CASE PinpointDone
  BY <1>15 DEF PinpointDone
<1>16. CASE UNCHANGED vars
  BY <1>16 DEF vars
<1> QED BY <1>1, <1>2, <1>3, <1>4, <1>5, <1>6, <1>7, <1>8, <1>9, <1>10, <1>11,
           <1>12, <1>13, <1>14, <1>15, <1>16
        DEF Next, DetectorThread, PipelineTask, LaneGoesOn

(* Only the end of a tick makes a note, and only of the exact result does it*)
(* suspect anything; every other tick hands on what there is.               *)
LEMMA NotesStep == NotesInv /\ [Next]_vars => NotesInv'
<1> SUFFICES ASSUME NotesInv, [Next]_vars PROVE NotesInv'
  OBVIOUS
<1>1. CASE TickPublishes
  <2>1. CASE ExactResult
    BY <1>1, <2>1 DEF TickPublishes, ExactResult, NotesInv, Compared
  <2>2. CASE ~ ExactResult
    BY <1>1, <2>2 DEF TickPublishes, NotesInv, Compared
  <2> QED BY <2>1, <2>2
<1>2. CASE TickSkipped \/ TickDropped
  BY <1>2 DEF TickSkipped, TickDropped, NotesInv, Compared
<1>3. CASE UNCHANGED <<last, note>>
  BY <1>3 DEF NotesInv, Compared
<1> QED BY <1>1, <1>2, <1>3
        DEF Next, NewFrame, CameraSilent, OnStatus, DetectorThread, TakeFrame, InferDone,
            InferFails, PipelineTask, WaitNext, Publish, TickCalls, LaneGoesOn, TickAnswered,
            Pinpoint, PinpointDone, vars, slowlane

(* wait_next hands out a result behind the published one only.              *)
LEMMA TakenStep == TypeOK /\ TakenInv /\ [Next]_vars => TakenInv'
<1> SUFFICES ASSUME TypeOK, TakenInv, [Next]_vars PROVE TakenInv'
  OBVIOUS
<1>1. CASE WaitNext
  BY <1>1 DEF WaitNext, Newer, TakenInv
<1>2. CASE Publish
  BY <1>2 DEF Publish, TakenInv
<1>3. CASE UNCHANGED <<taken, snap>>
  BY <1>3 DEF TakenInv
<1> QED BY <1>1, <1>2, <1>3
        DEF Next, NewFrame, CameraSilent, OnStatus, DetectorThread, TakeFrame, InferDone,
            InferFails, PipelineTask, TickSkipped, TickCalls, LaneGoesOn, TickDropped,
            TickAnswered, TickPublishes, Pinpoint, PinpointDone, vars, pipeline

LEMMA StepInv == IInv /\ [Next]_vars => IInv'
BY TypeStep, NotesStep, TakenStep DEF IInv

LEMMA AlwaysInv == Spec => []IInv
BY InitInv, StepInv, PTL DEF Spec

-----------------------------------------------------------------------------
(* Type correctness: no stream of the feed runs ahead of the one it is made *)
(* from, neither the result of its frame nor the snapshot of its result.    *)
THEOREM StreamsInOrder == Spec => []TypeOK
<1>1. IInv => TypeOK
  BY DEF IInv
<1> QED BY <1>1, AlwaysInv, PTL

(* What the cockpit flags was compared on the exact frame whose annotations *)
(* it shows, at most MaxAge from the picture and from the snapshot.         *)
THEOREM FlagsAreExact == Spec => []FlagIsExact
<1>1. IInv => FlagIsExact
  <2> SUFFICES ASSUME IInv, Shown.flag PROVE FlagIsExact
    BY DEF FlagIsExact
  <2>1. /\ Fresh(note.frame) /\ note.suspect
        /\ Apart(note.frame, snap.frame) <= MaxAge
    BY DEF Shown, Flagged
  <2>2. note.fast = note.frame
    BY <2>1 DEF IInv, NotesInv, Compared
  <2>3. Shown.annotations = note.frame
    BY <2>1 DEF Shown, AnnotationsFor
  <2>4. Apart(frame, note.frame) <= MaxAge
    BY <2>1 DEF Fresh
  <2>5. Apart(snap.frame, note.frame) = Apart(note.frame, snap.frame)
    BY DEF Apart, IInv, TypeOK, Notes, Frames
  <2> QED BY <2>1, <2>2, <2>3, <2>4, <2>5 DEF FlagIsExact
<1> QED BY <1>1, AlwaysInv, PTL

(* No snapshot is replaced by one of the same or an earlier frame.          *)
THEOREM SnapshotsAdvance == Spec => EachFrameOnce
<1>1. IInv /\ [Next]_vars => [snap' # snap => snap'.frame > snap.frame]_vars
  <2> SUFFICES ASSUME IInv, [Next]_vars, snap' # snap
               PROVE  snap'.frame > snap.frame
    OBVIOUS
  <2>1. Publish
    BY DEF Next, NewFrame, CameraSilent, OnStatus, DetectorThread, TakeFrame, InferDone,
           InferFails, PipelineTask, WaitNext, TickSkipped, TickCalls, LaneGoesOn, TickDropped,
           TickAnswered, TickPublishes, Pinpoint, PinpointDone, vars, pipeline
  <2> QED BY <2>1 DEF Publish, IInv, TakenInv
<1> QED BY <1>1, AlwaysInv, PTL DEF Spec, EachFrameOnce
=============================================================================
