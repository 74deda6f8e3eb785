--------------------------- MODULE PerceptionFeed ---------------------------
(***************************************************************************)
(* From the camera to what the operator is shown.  The detector's thread    *)
(* (vision/detector.py) infers on the newest frame, the pipeline task       *)
(* (vision/pipeline.py) turns each result into one snapshot, the slow lane  *)
(* (vision/slowlane.py) annotates a frame of its own and compares it with   *)
(* the detector's result for that frame, and a pinpoint (deep_tools.py)     *)
(* masks one.  The cockpit (overlay.py, server.py:state) joins the four     *)
(* streams by the age of their frames.  Frames, their sequence numbers and  *)
(* stamps are one number, 0 before the first.                               *)
(***************************************************************************)
EXTENDS Integers

CONSTANTS
  Forced,   \* DEEP_SLOWLANE
  Render,   \* RENDER_BACKEND
  Exempt,   \* slowlane.ARMED_GATE_EXEMPT
  MaxAge,   \* OVERLAY_MAX_AGE_S, in frames
  MaxFails, \* the consecutive failures that degrade the detector
  MaxFrame  \* bound: the last frame of the camera

ASSUME FeedAssumption == MaxAge \in Nat /\ MaxFails \in Nat \ {0} /\ MaxFrame \in Nat

Frames == 0 .. MaxFrame

VARIABLES
  frame,    \* the camera's newest frame
  silent,   \* has the detector had no new frame for _STALE_S + 1 s?
  det,      \* Detector._state; "none" after a boot that failed
  infer,    \* the frame its thread infers on, 0 between two
  seen,     \* the thread's last_seq
  fails,    \* Detector._fails
  latest,   \* the frame of Detector._latest
  taken,    \* the result wait_next has handed to the pipeline task, 0 for none
  snap,     \* VisionPipeline._latest, which is also the cockpit's: [frame, healthy]
  armed,    \* run.main's flight["armed"]
  lane,     \* the slow lane's tick: "idle", "called", "polling"
  sample,   \* the frame that tick is about
  last,     \* SlowLane._last
  note,     \* the cockpit's newest /pilot/slowlane payload
  point,    \* the frame a pinpoint in progress has grabbed, 0 for none
  mask      \* the frame of the cockpit's newest /pilot/deep payload

camera == <<frame, silent>>
detector == <<det, infer, seen, fails, latest>>
pipeline == <<taken, snap>>
slowlane == <<armed, lane, sample, last, note>>
pinpoint == <<point, mask>>
vars == <<camera, detector, pipeline, slowlane, pinpoint>>

NoNote == [frame |-> 0, fast |-> 0, suspect |-> FALSE]
NoSnap == [frame |-> 0, healthy |-> TRUE]

-----------------------------------------------------------------------------
(* The camera brings a frame, or none for so long that healthy() says no.   *)
NewFrame ==
  /\ frame < MaxFrame /\ frame' = frame + 1
  /\ UNCHANGED <<silent, detector, pipeline, slowlane, pinpoint>>

CameraSilent ==
  /\ det \in {"RUNNING", "DEGRADED"} /\ infer = 0 /\ frame = seen /\ ~silent
  /\ silent' = TRUE
  /\ UNCHANGED <<frame, detector, pipeline, slowlane, pinpoint>>

-----------------------------------------------------------------------------
(* Detector._run: a frame it has not seen, its inference, its outcome.      *)
TakeFrame ==
  /\ det \in {"RUNNING", "DEGRADED"} /\ infer = 0 /\ frame # seen
  /\ infer' = frame /\ seen' = frame
  /\ silent' = FALSE
  /\ UNCHANGED <<frame, det, fails, latest, pipeline, slowlane, pinpoint>>

InferDone ==
  /\ infer # 0
  /\ infer' = 0 /\ fails' = 0
  /\ latest' = infer
  /\ UNCHANGED <<camera, det, seen, pipeline, slowlane, pinpoint>>

(* Nothing resets _state: a detector that recovers stays DEGRADED.          *)
InferFails ==
  /\ infer # 0
  /\ infer' = 0
  /\ fails' = IF fails < MaxFails THEN fails + 1 ELSE fails
  /\ det' = IF fails' = MaxFails THEN "DEGRADED" ELSE det
  /\ UNCHANGED <<camera, seen, latest, pipeline, slowlane, pinpoint>>

(* Detector.healthy                                                         *)
Healthy == det = "RUNNING" /\ ~silent

-----------------------------------------------------------------------------
(* Mutant of Newer: wait_next hands out the latest result, new or not.      *)
AnyResult(after) == latest # 0

(* Mutant of Newer: wait_next waits for the frame after the last one.       *)
NextInLine(after) == latest = after + 1

Newer(after) == latest > after

(* VisionPipeline.run: wait_next in a thread, then contacts, snapshot and   *)
(* publication in one step of the loop.                                     *)
WaitNext ==
  /\ taken = 0 /\ Newer(snap.frame)
  /\ taken' = latest
  /\ UNCHANGED <<camera, detector, snap, slowlane, pinpoint>>

(* Mutant of Publish: the snapshot is stamped with the camera's newest.      *)
PublishNewest ==
  /\ taken # 0
  /\ taken' = 0
  /\ snap' = [frame |-> frame, healthy |-> Healthy]
  /\ UNCHANGED <<camera, detector, slowlane, pinpoint>>

Publish ==
  /\ taken # 0
  /\ taken' = 0
  /\ snap' = [frame |-> taken, healthy |-> Healthy]
  /\ UNCHANGED <<camera, detector, slowlane, pinpoint>>

-----------------------------------------------------------------------------
(* run.main._on_status                                                      *)
OnStatus == armed' = ~armed
            /\ UNCHANGED <<camera, detector, pipeline, lane, sample, last, note, pinpoint>>

(* slowlane.gate_decision                                                   *)
Gate == IF Forced \in {"on", "off"} THEN Forced = "on"
        ELSE Render # "nvidia" /\ (armed => Render \in Exempt)

(* A gated tick and one without a frame publish the last result once more.  *)
TickSkipped ==
  /\ lane = "idle" /\ (~Gate \/ frame = 0)
  /\ note' = last
  /\ UNCHANGED <<camera, detector, pipeline, armed, lane, sample, last, pinpoint>>

TickCalls ==
  /\ lane = "idle" /\ Gate /\ frame # 0
  /\ lane' = "called" /\ sample' = frame
  /\ UNCHANGED <<camera, detector, pipeline, armed, last, note, pinpoint>>

TickDropped ==
  /\ lane = "called"
  /\ lane' = "idle" /\ note' = last
  /\ UNCHANGED <<camera, detector, pipeline, armed, sample, last, pinpoint>>

TickAnswered ==
  /\ lane = "called" /\ lane' = "polling"
  /\ UNCHANGED <<camera, detector, pipeline, armed, sample, last, note, pinpoint>>

(* Mutant of ExactResult: any result from the sample on will do.            *)
FromSampleOn == latest >= sample

(* _fp_advisory: only the detector's result for the very sample is compared.*)
ExactResult == latest = sample

(* The poll ends: with the exact result, behind it, or at the deadline.     *)
TickPublishes ==
  /\ lane = "polling" /\ lane' = "idle"
  /\ \/ /\ ExactResult
        /\ \E flag \in BOOLEAN : last' = [frame |-> sample, fast |-> latest, suspect |-> flag]
     \/ /\ ~ExactResult
        /\ last' = [frame |-> sample, fast |-> 0, suspect |-> FALSE]
  /\ note' = last'
  /\ UNCHANGED <<camera, detector, pipeline, armed, sample, pinpoint>>

-----------------------------------------------------------------------------
(* deep_tools.pinpoint: the frame it grabbed is the frame its mask is of.   *)
Pinpoint ==
  /\ point = 0 /\ frame # 0
  /\ point' = frame
  /\ UNCHANGED <<camera, detector, pipeline, slowlane, mask>>

PinpointDone ==
  /\ point # 0 /\ point' = 0
  /\ mask' \in {mask, point}
  /\ UNCHANGED <<camera, detector, pipeline, slowlane>>

-----------------------------------------------------------------------------
(* overlay_age_s, overlay_fresh                                             *)
Apart(f, g) == IF f > g THEN f - g ELSE g - f

Fresh(f) == frame # 0 /\ f # 0 /\ Apart(frame, f) <= MaxAge

(* mark_fp_suspects: may a contact of the snapshot be flagged?              *)
Flagged == /\ Fresh(note.frame) /\ note.suspect
           /\ snap.frame # 0 /\ Apart(note.frame, snap.frame) <= MaxAge

(* hud_banner: SENSING DEGRADED                                             *)
Banner == snap.frame # 0 /\ ~snap.healthy

(* annotations_for, pinpoint_mask_for: 0 for what has expired.              *)
AnnotationsFor == IF Fresh(note.frame) THEN note.frame ELSE 0
PinpointMaskFor == IF Fresh(mask) THEN mask ELSE 0

(* server.state: what one poll of /state shows.                             *)
Shown == [annotations |-> AnnotationsFor, mask |-> PinpointMaskFor,
          flag |-> Flagged, banner |-> Banner]

-----------------------------------------------------------------------------
Init ==
  /\ frame = 0 /\ silent = FALSE
  /\ det \in {"none", "RUNNING"} \* build_perception: a failed boot has no detector
  /\ infer = 0 /\ seen = 0 /\ fails = 0 /\ latest = 0
  /\ taken = 0 /\ snap = NoSnap
  /\ armed = FALSE /\ lane = "idle" /\ sample = 0
  /\ last = NoNote /\ note = NoNote
  /\ point = 0 /\ mask = 0

DetectorThread == TakeFrame \/ InferDone \/ InferFails
PipelineTask == WaitNext \/ Publish
LaneGoesOn == TickDropped \/ TickAnswered \/ TickPublishes

Next ==
  \/ NewFrame \/ CameraSilent \/ OnStatus
  \/ DetectorThread \/ PipelineTask
  \/ TickSkipped \/ TickCalls \/ LaneGoesOn
  \/ Pinpoint \/ PinpointDone

(* The threads and the task run; frames, arming and pinpoints need not come.*)
Fairness == WF_vars(DetectorThread) /\ WF_vars(PipelineTask) /\ WF_vars(LaneGoesOn)

Spec == Init /\ [][Next]_vars
FairSpec == Spec /\ Fairness

-----------------------------------------------------------------------------
Notes == [frame : Frames, fast : Frames, suspect : BOOLEAN]

(* Every variable keeps its type, and no stream is ahead of the one it is   *)
(* made from.                                                               *)
TypeOK ==
  /\ frame \in Frames /\ silent \in BOOLEAN
  /\ det \in {"none", "RUNNING", "DEGRADED"}
  /\ seen \in 0 .. frame /\ infer \in {0, seen} /\ latest \in 0 .. seen
  /\ fails \in 0 .. MaxFails
  /\ taken \in 0 .. latest
  /\ snap \in [frame : 0 .. latest, healthy : BOOLEAN]
  /\ armed \in BOOLEAN /\ lane \in {"idle", "called", "polling"} /\ sample \in 0 .. frame
  /\ last \in Notes /\ note \in Notes
  /\ point \in 0 .. frame /\ mask \in 0 .. frame

(* A contact the cockpit flags was compared on the exact frame of the       *)
(* annotations it shows, and that frame is close both to the picture on the *)
(* screen and to the snapshot the contact is of, even when a gated or       *)
(* refused slow lane only republishes its last result.                      *)
FlagIsExact == Shown.flag =>
  /\ note.fast = Shown.annotations
  /\ Apart(frame, note.fast) <= MaxAge
  /\ Apart(snap.frame, note.fast) <= MaxAge

(* The tracker is updated with each inference at most once and in order:    *)
(* a snapshot is only ever replaced by one of a later frame.                *)
EachFrameOnce == [][snap' # snap => snap'.frame > snap.frame]_vars

(* Every inference is followed by a snapshot that is at least as new,       *)
(* whatever failed or fell silent in between.                               *)
SnapshotFollows == \A f \in 1 .. MaxFrame : latest = f ~> snap.frame >= f

(* tests/test_cockpit_server.py, "M4 gate: killed detector -> the cockpit   *)
(* says SENSING DEGRADED": a detector that degrades brings the banner up.   *)
KilledDetectorShown == det = "DEGRADED" ~> Shown.banner
=============================================================================
