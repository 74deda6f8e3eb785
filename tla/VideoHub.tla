----------------------------- MODULE VideoHub -----------------------------
(***************************************************************************)
(* The cockpit's video path (observatory/video.py, server.py:ws_cam): one   *)
(* pump task encodes the camera's newest frame in a worker thread and fans  *)
(* the access units out to one bounded queue per socket.  The pump reads    *)
(* _force before the encode and clears it after; sockets come and go while  *)
(* the encode runs, which is what the properties are about.                 *)
(* An access unit is what one viewer's decoder can do with it: "key", a     *)
(* "delta" whose predecessor this viewer also gets, or a "cut" delta, whose *)
(* predecessor it does not.                                                 *)
(***************************************************************************)
EXTENDS Naturals, Sequences

CONSTANTS
  Viewers,  \* the /ws_cam connections; a browser that is back is a new one
  Gop,      \* video.GOP, the encoder's longest distance between keyframes
  Maxsize   \* the maxsize of a subscriber's queue

ASSUME VideoAssumption ==
  /\ Gop \in Nat \ {0}
  /\ Maxsize \in Nat
  /\ Gop <= Maxsize

VARIABLES
  frame,     \* the camera's newest frame: "none", or "new" or "old" (= _last)
  force,     \* VideoHub._force
  pump,      \* the pump task: "unborn", "idle" or "encoding"
  forced,    \* the pump's local `force` of the encode in progress
  overtaken, \* did a newer frame arrive during that encode?
  age,       \* access units the encoder emitted since its last keyframe
  socket,    \* "away", "open", or "gone": closed by the browser, still in _subs
  queue,     \* the subscriber queues
  joined,    \* what the pump was doing when the viewer subscribed
  first,     \* the first access unit broadcast to the viewer, or "none"
  picture    \* the viewer's canvas: "dark", "live", or "torn" by a lost unit

pumpVars == <<force, pump, forced, overtaken, age>>
viewers == <<socket, queue, joined, first, picture>>
vars == <<frame, pumpVars, viewers>>

Subs == {v \in Viewers : socket[v] # "away"}

-----------------------------------------------------------------------------
(* GzCameras' gz callback: a newer frame replaces the holder's.             *)
NewFrame ==
  /\ frame' = "new"
  /\ overtaken' = (pump = "encoding")
  /\ UNCHANGED <<force, pump, forced, age, viewers>>

(* Mutant of Subscribe: the pump is left to a startup hook nobody has.      *)
SubscribeOnly(v) ==
  /\ socket[v] = "away"
  /\ socket' = [socket EXCEPT ![v] = "open"]
  /\ queue' = [queue EXCEPT ![v] = <<>>]
  /\ joined' = [joined EXCEPT ![v] = pump]
  /\ first' = [first EXCEPT ![v] = "none"]
  /\ picture' = [picture EXCEPT ![v] = "dark"]
  /\ force' = TRUE
  /\ UNCHANGED <<frame, pump, forced, overtaken, age>>

(* VideoHub.subscribe: the newcomer asks for an IDR and starts the pump.    *)
Subscribe(v) ==
  /\ socket[v] = "away"
  /\ socket' = [socket EXCEPT ![v] = "open"]
  /\ queue' = [queue EXCEPT ![v] = <<>>]
  /\ joined' = [joined EXCEPT ![v] = pump]
  /\ first' = [first EXCEPT ![v] = "none"]
  /\ picture' = [picture EXCEPT ![v] = "dark"]
  /\ force' = TRUE
  /\ pump' = IF pump = "unborn" THEN "idle" ELSE pump
  /\ UNCHANGED <<frame, forced, overtaken, age>>

(* The pump hands the newest frame to the encoder thread.                   *)
Pending == Subs # {} /\ (frame = "new" \/ (frame = "old" /\ force))

PumpStarts ==
  /\ pump = "idle" /\ Pending
  /\ pump' = "encoding"
  /\ forced' = force
  /\ overtaken' = FALSE
  /\ UNCHANGED <<frame, force, age, viewers>>

(* `except Exception`: neither _last nor _force moves, the pump tries again.*)
EncodeFails ==
  /\ pump = "encoding"
  /\ pump' = "idle"
  /\ UNCHANGED <<frame, force, forced, overtaken, age, viewers>>

(* Mutant of KeyDue: the encoder is opened without its "g" option.          *)
KeyForced == forced

(* The encoder's own rule: a forced IDR, or one every Gop units.            *)
KeyDue == forced \/ age + 1 >= Gop

(* Mutant of Put: the queue is created without a maxsize.                   *)
PutUnbounded(q, au) == Append(q, au)

(* _broadcast to one queue: a full one loses its oldest unit, and the unit  *)
(* behind it its reference.                                                 *)
Put(q, au) ==
  IF Len(q) < Maxsize THEN Append(q, au)
  ELSE LET kept == Append(Tail(q), au)
       IN  [kept EXCEPT ![1] = IF @ = "delta" THEN "cut" ELSE @]

(* What the unit is to a viewer: its first one follows nothing.             *)
Unit(v) == IF KeyDue THEN "key" ELSE IF first[v] = "none" THEN "cut" ELSE "delta"

(* The encode is back: the pump clears _force, whoever set it meanwhile,    *)
(* and broadcasts to the subscribers of now.                                *)
EncodeDone ==
  /\ pump = "encoding"
  /\ pump' = "idle"
  /\ age' = IF KeyDue THEN 0 ELSE age + 1
  /\ frame' = IF overtaken THEN "new" ELSE "old"
  /\ force' = FALSE
  /\ queue' = [v \in Viewers |->
                 IF v \in Subs THEN Put(queue[v], Unit(v)) ELSE queue[v]]
  /\ first' = [v \in Viewers |->
                 IF v \in Subs /\ first[v] = "none" THEN Unit(v) ELSE first[v]]
  /\ UNCHANGED <<forced, overtaken, socket, joined, picture>>

-----------------------------------------------------------------------------
(* What the browser's VideoDecoder makes of a unit: nothing shows before a  *)
(* keyframe, and a missing reference shows until the next one.              *)
Decoded(shown, au) == CASE au = "key" -> "live"
                        [] au = "cut" /\ shown = "live" -> "torn"
                        [] OTHER -> shown

(* ws_cam: one unit from the queue to an open socket.                       *)
Deliver(v) ==
  /\ socket[v] = "open" /\ queue[v] # <<>>
  /\ picture' = [picture EXCEPT ![v] = Decoded(@, Head(queue[v]))]
  /\ queue' = [queue EXCEPT ![v] = Tail(@)]
  /\ UNCHANGED <<frame, pumpVars, socket, joined, first>>

(* The browser closes; ws_cam is in q.get() and does not notice.            *)
Vanish(v) ==
  /\ socket[v] = "open"
  /\ socket' = [socket EXCEPT ![v] = "gone"]
  /\ UNCHANGED <<frame, pumpVars, queue, joined, first, picture>>

(* The next send raises, and the finally clause unsubscribes.               *)
SendFails(v) ==
  /\ socket[v] = "gone" /\ queue[v] # <<>>
  /\ socket' = [socket EXCEPT ![v] = "away"]
  /\ queue' = [queue EXCEPT ![v] = <<>>]
  /\ UNCHANGED <<frame, pumpVars, joined, first, picture>>

Init ==
  /\ frame = "none"
  /\ force = FALSE
  /\ pump = "unborn"
  /\ forced = FALSE
  /\ overtaken = FALSE
  /\ age = Gop - 1
  /\ socket = [v \in Viewers |-> "away"]
  /\ queue = [v \in Viewers |-> <<>>]
  /\ joined = [v \in Viewers |-> "unborn"]
  /\ first = [v \in Viewers |-> "none"]
  /\ picture = [v \in Viewers |-> "dark"]

Next == \/ NewFrame \/ PumpStarts \/ EncodeFails \/ EncodeDone
        \/ \E v \in Viewers : Subscribe(v) \/ Deliver(v) \/ Vanish(v) \/ SendFails(v)

(* The camera keeps publishing, the pump keeps running, not every encode    *)
(* fails, and a socket task whose queue has a unit runs.  Nothing obliges a *)
(* browser to come or to go.                                                *)
Fairness ==
  /\ WF_vars(NewFrame) /\ WF_vars(PumpStarts) /\ SF_vars(EncodeDone)
  /\ \A v \in Viewers : WF_vars(Deliver(v)) /\ WF_vars(SendFails(v))

Spec == Init /\ [][Next]_vars
FairSpec == Spec /\ Fairness

-----------------------------------------------------------------------------
(* The values the hub's state takes; a queue never exceeds its maxsize.     *)
TypeOK ==
  /\ frame \in {"none", "new", "old"}
  /\ force \in BOOLEAN /\ forced \in BOOLEAN /\ overtaken \in BOOLEAN
  /\ pump \in {"unborn", "idle", "encoding"}
  /\ age \in 0 .. Gop - 1
  /\ socket \in [Viewers -> {"away", "open", "gone"}]
  /\ queue \in [Viewers -> Seq({"key", "delta", "cut"})]
  /\ \A v \in Viewers : Len(queue[v]) <= Maxsize
  /\ joined \in [Viewers -> {"unborn", "idle", "encoding"}]
  /\ first \in [Viewers -> {"none", "key", "delta", "cut"}]
  /\ picture \in [Viewers -> {"dark", "live", "torn"}]

(* Dropping the oldest unit never costs a slow viewer the picture for good: *)
(* a queue that holds a GOP's worth of units holds a keyframe, whatever was *)
(* dropped, whoever joined and however many encodes failed                  *)
(* (video.py:147 maxsize against video.py:31 GOP, _broadcast).              *)
KeyframeInReach ==
  \A v \in Viewers : Len(queue[v]) >= Gop => \E i \in 1 .. Len(queue[v]) :
    /\ queue[v][i] = "key"
    /\ Len(queue[v]) - i < Gop

(* A viewer that subscribes while no encode runs gets a keyframe first,     *)
(* also when the encodes made for it fail: the request outlives a failure   *)
(* (video.py:pump, `force = self._force` and `except Exception`).           *)
PromptKeyframe ==
  \A v \in Viewers : joined[v] # "encoding" => first[v] \in {"none", "key"}

(* What the docstring of VideoHub promises of every newcomer: until it has  *)
(* been sent a keyframe the pump owes it a forced IDR (video.py:123-125).   *)
Unlit(v) == /\ socket[v] = "open" /\ picture[v] = "dark"
            /\ "key" \notin {queue[v][i] : i \in 1 .. Len(queue[v])}

NewcomerOwedIdr ==
  \A v \in Viewers : Unlit(v) => force \/ (pump = "encoding" /\ forced)

(* A dark or torn canvas comes alive while its socket stays open, unless    *)
(* the socket falls a whole queue behind.                                   *)
CanvasComesAlive ==
  \A v \in Viewers : (socket[v] = "open" /\ picture[v] # "live")
    ~> (picture[v] = "live" \/ socket[v] # "open" \/ Len(queue[v]) = Maxsize)

(* A browser that went away is noticed and leaves the subscriber set, which *)
(* is what lets the pump stop encoding (video.py:157, server.py:170-171).   *)
GoneIsUnsubscribed ==
  \A v \in Viewers : socket[v] = "gone" ~> socket[v] = "away"

-----------------------------------------------------------------------------
(* The inductive form of KeyframeInReach: counting back from a queue's end, *)
(* the last keyframe sits `age` units behind the newest.                    *)
KeyPlaced ==
  \A v \in Viewers :
    /\ Len(queue[v]) > age => queue[v][Len(queue[v]) - age] = "key"
    /\ v \notin Subs => queue[v] = <<>>

(* The inductive form of PromptKeyframe: until its first unit, the request  *)
(* of such a viewer is pending, and an encode in progress carries it.       *)
RequestPending ==
  \A v \in Subs : (joined[v] # "encoding" /\ first[v] = "none")
    => force /\ (pump = "encoding" => forced)
=============================================================================
