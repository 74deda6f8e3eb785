---------------------------- MODULE DeepSidecar ----------------------------
(***************************************************************************)
(* Deep perception on demand.  Tool threads of the pilot (deep_tools.look,  *)
(* pinpoint) and the slow-lane annotator call one sidecar over HTTP, one    *)
(* connection per call (deep_client.py).  The sidecar takes its one         *)
(* inference lock without waiting (service.py, 429) and infers in a thread  *)
(* that outlives the client's timeout; the model's vocabulary is switched   *)
(* from call to call (registry.py).                                         *)
(* A message's `by` is its caller while that one waits, NoOne once it gave  *)
(* up.                                                                      *)
(***************************************************************************)
EXTENDS Integers, FiniteSets

CONSTANTS
  Tools,      \* threads that can be in a look or a pinpoint at the same time
  Slow,       \* the slow lane's thread
  NoOne,      \* no caller, no thread
  Terms,       \* what can be looked for
  ToolMax,     \* deep_tools.MAX_PROMPTS
  ToolLong,    \* the terms longer than deep_tools.MAX_PROMPT_CHARS
  LaneVocab,   \* DEEP_SLOWLANE_VOCAB, cut by slowlane._vocab to caps of its own
  ServiceMax,  \* registry.MAX_PROMPTS
  ServiceLong, \* the terms longer than registry.MAX_PROMPT_CHARS
  MaxOrphans   \* bound: abandoned messages no handler has read yet

Callers == Tools \cup {Slow}

ASSUME DeepAssumption ==
  /\ Slow \notin Tools /\ NoOne \notin Tools \cup {Slow}
  /\ ToolMax \in Nat /\ ServiceMax \in Nat /\ MaxOrphans \in Nat
  /\ IsFiniteSet(Terms) /\ LaneVocab \subseteq Terms /\ LaneVocab # {}

VARIABLES
  client,  \* "real"; "offline" without DEEP_TOKEN; "stranger" with another token
  camera,  \* its frames: "rgb"; "other" than w*h*3 bytes; "large", over the body cap
  busy,    \* deep_tools' busy flag: the tool thread that holds it
  phase,   \* where each caller's thread is
  req,     \* the call it is in: the operation and its prompts
  answer,  \* the answer its connection has received
  up,      \* is the sidecar process alive?
  wire,    \* messages sent that no handler has taken
  lock,    \* DeepRegistry.lock, by the message whose handler holds it
  stage,   \* the inference thread: "none", "load", "predict"
  loaded,  \* the keys of DeepRegistry._models
  vocab,   \* DeepRegistry._vocab of the world model
  classes  \* the vocabulary the world model's embeddings are of

calls == <<client, camera, busy, phase, req, answer>>
registry == <<loaded, vocab, classes>>
vars == <<calls, up, wire, lock, stage, registry>>

NoReq == [op |-> "none", prompts |-> {}]
NoMessage == [by |-> NoOne, op |-> "none", prompts |-> {}]
NoAnswer == [status |-> "none", used |-> {}, valid |-> TRUE]
Status(s) == [status |-> s, used |-> {}, valid |-> TRUE]

-----------------------------------------------------------------------------
(* DeepClient._call: the request leaves, unless there is no token or nobody *)
(* listens; then the caller has its UNAVAILABLE at once.                    *)
Message(c) == [by |-> c, op |-> req[c].op, prompts |-> req[c].prompts]

Call(c) ==
  IF client = "offline" \/ ~up
  THEN answer' = [answer EXCEPT ![c] = Status("UNAVAILABLE")] /\ UNCHANGED wire
  ELSE wire' = wire \cup {Message(c)} /\ UNCHANGED answer

(* The connect and read caps: the caller stops waiting and closes.  What it *)
(* sent is dropped by a handler that has not read it yet (ClientDisconnect) *)
(* or stays as an orphan; the handler that has it goes on.                  *)
Orphan(c, m) == IF m.by = c THEN [m EXCEPT !.by = NoOne] ELSE m

Orphans == {m \in wire : m.by = NoOne}

GiveUp(c) ==
  /\ phase[c] = "wait" /\ answer[c] = NoAnswer
  /\ answer' = [answer EXCEPT ![c] = Status("UNAVAILABLE")]
  /\ \/ wire' = {m \in wire : m.by # c}
     \/ /\ Cardinality(Orphans) < MaxOrphans
        /\ wire' = {Orphan(c, m) : m \in wire}
  /\ lock' = Orphan(c, lock)
  /\ UNCHANGED <<client, camera, busy, phase, req, up, stage, registry>>

(* _validate_detect, _validate_segment: a 200 that breaks the schema is a   *)
(* DeepError, which the tools and the lane take for one more failed call.   *)
Accepted(a) == a.status = "200" /\ a.valid

-----------------------------------------------------------------------------
(* Mutant of PromptsOk: the client no longer mirrors the length cap.        *)
CountOnly(what) == what # {} /\ Cardinality(what) <= ToolMax

(* look's own checks; a call that fails them leaves no trace.               *)
PromptsOk(what) == /\ what # {} /\ Cardinality(what) <= ToolMax
                   /\ what \cap ToolLong = {}

(* The frame is grabbed before the busy flag is asked for.                  *)
Grab(t, r) ==
  /\ phase[t] = "idle"
  /\ phase' = [phase EXCEPT ![t] = "grabbed"]
  /\ req' = [req EXCEPT ![t] = r]
  /\ UNCHANGED <<client, camera, busy, answer, up, wire, lock, stage, registry>>

Look(t) == \E what \in SUBSET Terms :
  PromptsOk(what) /\ Grab(t, [op |-> "detect", prompts |-> what])

(* An explicit pixel, or that of a label: the same request.                 *)
Pinpoint(t) == Grab(t, [op |-> "segment", prompts |-> {}])

(* Mutant of TakeBusy: the flag is looked at, not taken.                    *)
PassBusy(t) ==
  /\ phase[t] = "grabbed" /\ busy = NoOne
  /\ phase' = [phase EXCEPT ![t] = "wait"]
  /\ Call(t)
  /\ UNCHANGED <<client, camera, busy, req, up, lock, stage, registry>>

TakeBusy(t) ==
  /\ phase[t] = "grabbed" /\ busy = NoOne
  /\ busy' = t
  /\ phase' = [phase EXCEPT ![t] = "wait"]
  /\ Call(t)
  /\ UNCHANGED <<client, camera, req, up, lock, stage, registry>>

Idle(c) == /\ phase' = [phase EXCEPT ![c] = "idle"]
           /\ req' = [req EXCEPT ![c] = NoReq]
           /\ answer' = [answer EXCEPT ![c] = NoAnswer]

BusyRefuses(t) ==
  /\ phase[t] = "grabbed" /\ busy # NoOne
  /\ Idle(t)
  /\ UNCHANGED <<client, camera, busy, up, wire, lock, stage, registry>>

(* Mutant of ToolBack: a failed call returns before the flag is given up.   *)
BackHolding(t) ==
  /\ phase[t] = "wait" /\ answer[t] # NoAnswer
  /\ busy' = IF Accepted(answer[t]) THEN NoOne ELSE busy
  /\ Idle(t)
  /\ UNCHANGED <<client, camera, up, wire, lock, stage, registry>>

(* The call is back and `finally` gives the flag up; the text that the tool *)
(* makes of the answer is no longer the sidecar's business.                 *)
ToolBack(t) ==
  /\ phase[t] = "wait" /\ answer[t] # NoAnswer
  /\ busy' = NoOne
  /\ Idle(t)
  /\ UNCHANGED <<client, camera, up, wire, lock, stage, registry>>

(* SlowLane.tick_once, its one call: BUSY, UNAVAILABLE, ERROR and protocol  *)
(* violations drop the tick, nothing is queued.                             *)
LaneCalls ==
  /\ phase[Slow] = "idle"
  /\ req' = [req EXCEPT ![Slow] = [op |-> "detect", prompts |-> LaneVocab]]
  /\ phase' = [phase EXCEPT ![Slow] = "sent"]
  /\ UNCHANGED <<client, camera, busy, answer, up, wire, lock, stage, registry>>

LaneSends ==
  /\ phase[Slow] = "sent"
  /\ phase' = [phase EXCEPT ![Slow] = "wait"]
  /\ Call(Slow)
  /\ UNCHANGED <<client, camera, busy, req, up, lock, stage, registry>>

LaneBack ==
  /\ phase[Slow] = "wait" /\ answer[Slow] # NoAnswer
  /\ Idle(Slow)
  /\ UNCHANGED <<client, camera, busy, up, wire, lock, stage, registry>>

-----------------------------------------------------------------------------
(* The handlers' answer goes to whoever still waits for it.                 *)
Answered(m, a) == IF m.by = NoOne THEN UNCHANGED answer
                  ELSE answer' = [answer EXCEPT ![m.by] = a]

(* registry.canonical_prompts, by the service's own caps.                   *)
Canonical(m) == m.op = "segment" \/ (/\ m.prompts # {} /\ Cardinality(m.prompts) <= ServiceMax
                                     /\ m.prompts \cap ServiceLong = {})

(* The handlers' early returns in their order: the token, the body's size,  *)
(* the frame's bytes, the prompts, the lock, which is tried and never       *)
(* waited for.  Left out are the 400s of fields this client always sends as *)
(* they should be: the JSON, the numbers, the base64, model, conf, points.  *)
Refusal(m) == IF client = "stranger" THEN "401"
              ELSE IF camera = "large" THEN "413"
              ELSE IF camera = "other" THEN "400"
              ELSE IF ~Canonical(m) THEN "422"
              ELSE IF lock # NoMessage THEN "429" ELSE "none"

Refuse == \E m \in wire :
  /\ Refusal(m) # "none"
  /\ wire' = wire \ {m}
  /\ Answered(m, Status(Refusal(m)))
  /\ UNCHANGED <<client, camera, busy, phase, req, up, lock, stage, registry>>

Accept == \E m \in wire :
  /\ Refusal(m) = "none"
  /\ wire' = wire \ {m}
  /\ lock' = m
  /\ stage' = "load"
  /\ UNCHANGED <<calls, up, registry>>

(* DeepRegistry._load, then set_classes when the cached vocabulary is       *)
(* another one.  Loading a model forgets its vocabulary.                    *)
ModelOf(op) == IF op = "detect" THEN "world" ELSE "sam"

CachedVocab == IF ModelOf(lock.op) \in loaded THEN vocab ELSE {}

(* Mutant of Prepare: a vocabulary once set is taken for the right one.     *)
PrepareOnce ==
  /\ stage = "load" /\ stage' = "predict"
  /\ loaded' = loaded \cup {ModelOf(lock.op)}
  /\ IF lock.op = "detect" /\ CachedVocab = {}
     THEN vocab' = lock.prompts /\ classes' = lock.prompts
     ELSE UNCHANGED <<vocab, classes>>
  /\ UNCHANGED <<calls, up, wire, lock>>

Prepare ==
  /\ stage = "load" /\ stage' = "predict"
  /\ loaded' = loaded \cup {ModelOf(lock.op)}
  /\ IF lock.op = "detect" /\ CachedVocab # lock.prompts
     THEN vocab' = lock.prompts /\ classes' = lock.prompts
     ELSE UNCHANGED <<vocab, classes>>
  /\ UNCHANGED <<calls, up, wire, lock>>

(* registry.mask_result: the three fields are null together.                *)
MaskResult(found) == [xyxy |-> found, mask |-> found, centroid |-> found]

(* What _validate_segment asks of them.                                     *)
SchemaOk(d) == d.xyxy = d.mask /\ d.xyxy = d.centroid

(* The 200 of either handler, from the model's embeddings of now.           *)
Result(m, found) ==
  [status |-> "200", used |-> IF m.op = "detect" THEN classes ELSE {},
   valid |-> m.op = "detect" \/ SchemaOk(MaskResult(found))]

(* The handler's end: `finally` releases the lock.  A BackendError, and     *)
(* whatever else a manifest, a model or a GPU raises, is a 500; a           *)
(* set_classes that raises leaves the vocabulary and its cache as they were.*)
Infer ==
  /\ stage # "none"
  /\ lock' = NoMessage /\ stage' = "none"
  /\ \/ stage = "predict" /\ \E found \in BOOLEAN : Answered(lock, Result(lock, found))
     \/ Answered(lock, Status("500"))
  /\ UNCHANGED <<client, camera, busy, phase, req, up, wire, registry>>

(* The process ends with its lock, models and connections, and comes back.  *)
Crash ==
  /\ up /\ up' = FALSE
  /\ wire' = {} /\ lock' = NoMessage /\ stage' = "none"
  /\ loaded' = {} /\ vocab' = {} /\ classes' = {}
  /\ answer' = [c \in Callers |-> IF phase[c] = "wait" /\ answer[c] = NoAnswer
                                  THEN Status("UNAVAILABLE") ELSE answer[c]]
  /\ UNCHANGED <<client, camera, busy, phase, req>>

Restart == ~up /\ up' = TRUE /\ UNCHANGED <<calls, wire, lock, stage, registry>>

-----------------------------------------------------------------------------
Init ==
  /\ client \in {"real", "offline", "stranger"}
  /\ camera \in {"rgb", "other", "large"}
  /\ busy = NoOne
  /\ phase = [c \in Callers |-> "idle"]
  /\ req = [c \in Callers |-> NoReq]
  /\ answer = [c \in Callers |-> NoAnswer]
  /\ up \in BOOLEAN
  /\ wire = {} /\ lock = NoMessage /\ stage = "none"
  /\ loaded = {} /\ vocab = {} /\ classes = {}

ToolGoesOn(t) == TakeBusy(t) \/ BusyRefuses(t) \/ ToolBack(t)
LaneGoesOn == LaneSends \/ LaneBack

Next ==
  \/ \E t \in Tools : Look(t) \/ Pinpoint(t) \/ ToolGoesOn(t)
  \/ LaneCalls \/ LaneGoesOn
  \/ \E c \in Callers : GiveUp(c)
  \/ Refuse \/ Accept \/ Prepare \/ Infer \/ Crash \/ Restart

(* The threads of the pilot and of the sidecar run and sockets time out.    *)
(* No call has to be made, no process has to come back.                     *)
Fairness ==
  /\ \A t \in Tools : WF_vars(ToolGoesOn(t))
  /\ WF_vars(LaneGoesOn)
  /\ \A c \in Callers : WF_vars(GiveUp(c))
  /\ WF_vars(Infer)

Spec == Init /\ [][Next]_vars
FairSpec == Spec /\ Fairness

-----------------------------------------------------------------------------
Ops == {"none", "detect", "segment"}
Statuses == {"none", "UNAVAILABLE", "200", "400", "401", "413", "422", "429", "500"}
Messages == [by : Callers \cup {NoOne}, op : Ops, prompts : SUBSET Terms]

(* Every variable of the path keeps its type; only tool threads hold the    *)
(* busy flag, and the inference thread runs exactly while the lock is held. *)
TypeOK ==
  /\ client \in {"real", "offline", "stranger"}
  /\ camera \in {"rgb", "other", "large"}
  /\ busy \in Tools \cup {NoOne}
  /\ phase \in [Callers -> {"idle", "grabbed", "sent", "wait"}]
  /\ req \in [Callers -> [op : Ops, prompts : SUBSET Terms]]
  /\ answer \in [Callers -> [status : Statuses, used : SUBSET Terms,
                             valid : BOOLEAN]]
  /\ up \in BOOLEAN /\ wire \subseteq Messages /\ lock \in Messages
  /\ stage \in {"none", "load", "predict"} /\ (stage = "none" <=> lock = NoMessage)
  /\ loaded \subseteq {"world", "sam"} /\ vocab \subseteq Terms /\ classes \subseteq Terms
  /\ \A s \in Tools : phase[s] = "wait" => busy = s

(* deep_tools' "one in-flight call max across the pair": no two tool        *)
(* threads are inside a sidecar call at the same time, whatever timeouts,   *)
(* crashes and refusals the calls before them met.                          *)
OneToolCall == \A s, t \in Tools : phase[s] = "wait" /\ phase[t] = "wait" => s = t

(* A call that is answered was answered for the words it asked about,       *)
(* although looks and the slow lane switch one model's vocabulary in turn,  *)
(* calls are abandoned in mid-inference and a restarted sidecar has an      *)
(* empty cache.                                                             *)
OwnVocabulary == \A c \in Callers :
  answer[c].status = "200" => answer[c].used = req[c].prompts

(* deep_tools.py:37 "mirror agents/vision/deep/registry.py's wire caps,     *)
(* enforced CLIENT-side so a bad call never hits the wire": the service     *)
(* refuses no call for its prompts, and none for its frame unless it is the *)
(* camera that does not deliver what service.py wants, which nobody checks  *)
(* before; and no 200 breaks the client's schema.                           *)
WireAgrees == \A c \in Callers :
  /\ answer[c].status # "422"
  /\ answer[c].status = "413" => camera = "large"
  /\ answer[c].status = "400" => camera = "other"
  /\ answer[c].valid

(* What WireAgrees rests on: the caps of the tools and of the slow lane are *)
(* no laxer than those of the service, three files that only comments tie.  *)
Mirrored == /\ ToolMax <= ServiceMax /\ ServiceLong \subseteq ToolLong
            /\ Canonical([op |-> "detect", prompts |-> LaneVocab])

(* Nothing is held for ever: a tool call ends and gives up the busy flag,   *)
(* the slow lane's tick ends, and the sidecar's lock is released.           *)
CallsEnd ==
  /\ \A t \in Tools : busy = t ~> busy # t
  /\ \A c \in Callers : phase[c] # "idle" ~> phase[c] = "idle"
  /\ lock # NoMessage ~> lock = NoMessage

(* slowlane.py: "On-demand look/pinpoint calls keep priority via the        *)
(* sidecar's own one-inference lock": no look or pinpoint is refused for an *)
(* inference of the slow lane.                                              *)
OnDemandPriority == [][\A t \in Tools :
  answer[t] = NoAnswer /\ answer'[t].status = "429" => lock.by # Slow]_vars
=============================================================================
