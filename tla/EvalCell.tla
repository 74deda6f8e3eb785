------------------------------ MODULE EvalCell ------------------------------
(***************************************************************************)
(* One cell of the evaluation (evals/runner.py, run_cell): the soft reset   *)
(* that brings the drone home (evals/reset.py), the model's turn with the   *)
(* flight tools (agents/flight/ops.py), the halt behind it and the grading. *)
(* The drone under it is the part of PX4 that these use: it records its own *)
(* home when it is armed, flies on whatever its client does, disarms itself *)
(* on the ground and ignores a return to launch while disarmed.             *)
(***************************************************************************)
EXTENDS Naturals

CONSTANTS
  Places,   \* where the drone may be, horizontally
  Home,     \* the world's home among them
  MaxFault  \* bound: calls that fail and waits that run out

ASSUME CellAssumption == Home \in Places /\ MaxFault \in Nat

Ground == 0
Low == 1   \* below the 2.5 m of check_home
Up == 2
Heights == Ground .. Up
Modes == {"hold", "takeoff", "goto", "orbit", "rtl", "land", "mission"}
Tools == {"none", "arming", "take_off", "goto", "land", "mission"}

VARIABLES
  at, alt,  \* where the drone is
  armed,
  mode,     \* PX4's navigation state
  goal,     \* where "goto", "orbit" and "mission" lead
  launch,   \* PX4's home: where the drone was last armed
  pc,       \* where run_cell is; "over" behind its return
  tool,     \* the tool call in flight
  last,     \* the trace's last call: "none", "other", "land", "landed"
  landed,   \* run_meta["landed"]
  res,      \* the CellResult: "infra", "scored", "none" before the return,
            \* "raised" if there is no return
  faults    \* calls that failed and waits that ran out so far

px4 == <<at, alt, armed, mode, goal, launch>>
turn == <<tool, last, landed>>
cellVars == <<px4, pc, turn, res, faults>>

-----------------------------------------------------------------------------
(* PX4.  A command is a change of its state; what it then does is Fly.      *)
Command(m, g) ==
  /\ mode' = m /\ goal' = g
  /\ UNCHANGED <<at, alt, armed, launch>>

ArmIn(m) ==
  /\ armed' = TRUE
  /\ launch' = IF armed THEN launch ELSE at
  /\ mode' = m
  /\ UNCHANGED <<at, alt, goal>>

ClimbTo(h) == alt' = h /\ UNCHANGED <<at, armed, mode, goal, launch>>
MoveTo(p) == at' = p /\ UNCHANGED <<alt, armed, mode, goal, launch>>
Disarm == armed' = FALSE /\ UNCHANGED <<at, alt, mode, goal, launch>>
ComeDown == IF alt > Ground THEN ClimbTo(alt - 1) ELSE Disarm

HeadFor(p) == IF alt < Up THEN ClimbTo(Up) ELSE MoveTo(p)

Fly ==
  /\ armed
  /\ \/ mode = "takeoff" /\ alt < Up /\ ClimbTo(alt + 1)
     \/ mode \in {"goto", "orbit", "mission"} /\ at # goal /\ HeadFor(goal)
     \/ mode = "rtl" /\ at # launch /\ HeadFor(launch)
     \/ mode = "rtl" /\ at = launch /\ ComeDown
     \/ mode = "land" /\ ComeDown
     \/ mode = "hold" /\ alt = Ground /\ Disarm
  /\ UNCHANGED <<pc, turn, res, faults>>

AtRest == ~ armed \/ (mode \in {"hold", "takeoff"} /\ alt = Up)
            \/ (mode \in {"goto", "orbit", "mission"} /\ at = goal) \/ (mode = "hold" /\ alt = Low)

Fault == faults < MaxFault /\ faults' = faults + 1
NoFault == UNCHANGED faults

-----------------------------------------------------------------------------
(* soft_reset.                                                              *)
Return(r) == pc' = "over" /\ res' = r
Goes(to) == pc' = to /\ UNCHANGED res

(* Mutant of Stranded: the return to launch is trusted with every drone.    *)
NeverStranded == FALSE

(* Disarmed away from home, where a return to launch would do nothing.      *)
Stranded == at # Home /\ ~ armed

StartFerry ==
  /\ pc = "soft_reset" /\ Stranded
  /\ Goes("ferry_arm") /\ UNCHANGED <<px4, turn, faults>>

(* telemetry.armed() does not answer: a low drone counts as disarmed.       *)
StartFerryBlind ==
  /\ pc = "soft_reset" /\ at # Home /\ alt < Up /\ Fault
  /\ Goes("ferry_arm") /\ UNCHANGED <<px4, turn>>

(* Also of a stranded drone, if its position has no fix at that moment.     *)
ReturnToLaunch ==
  /\ pc = "soft_reset"
  /\ (~ Stranded /\ NoFault) \/ Fault
  /\ Command("rtl", goal) /\ Goes("verify") /\ UNCHANGED turn

RtlFails ==
  /\ pc = "soft_reset" /\ Fault
  /\ Return("infra") /\ UNCHANGED <<px4, turn>>

(* _ferry_home: hold, arm and take off, up to four times; the arming here   *)
(* makes the place where the drone was stranded PX4's home.                 *)
FerryArms ==
  /\ pc = "ferry_arm"
  /\ ArmIn("takeoff") /\ Goes("ferry_up") /\ UNCHANGED <<turn, faults>>

FerryClimbed ==
  /\ pc = "ferry_up" /\ alt = Up
  /\ Command("goto", Home) /\ Goes("ferry_over") /\ UNCHANGED <<turn, faults>>

FerryArrived ==
  /\ pc = "ferry_over" /\ at = Home
  /\ Command("land", goal) /\ Goes("ferry_down") /\ UNCHANGED <<turn, faults>>

FerryDown ==
  /\ pc = "ferry_down" /\ ~ armed
  /\ Goes("verify") /\ UNCHANGED <<px4, turn, faults>>

(* Any of its calls fails or waits in vain: it gives up where it is, armed  *)
(* or not, and check_home decides.                                          *)
FerryGivesUp ==
  /\ pc \in {"ferry_arm", "ferry_up", "ferry_over", "ferry_down"} /\ Fault
  /\ \/ UNCHANGED px4
     \/ pc = "ferry_arm" /\ ArmIn("hold")
  /\ Goes("verify") /\ UNCHANGED turn

(* check_home                                                               *)
HomeClean == at = Home /\ alt <= Low

VerifyOk ==
  /\ pc = "verify" /\ HomeClean
  /\ Goes("turn") /\ last' = "none" /\ landed' = FALSE
  /\ UNCHANGED <<px4, tool, faults>>

(* The two minutes are long enough for a drone that is on its way.          *)
VerifyTimesOut ==
  /\ pc = "verify" /\ ~ HomeClean
  /\ (AtRest /\ NoFault) \/ Fault
  /\ Return("infra") /\ UNCHANGED <<px4, turn>>

-----------------------------------------------------------------------------
(* The turn: the model calls one tool at a time (flight/tools.py).          *)
Calls(t, name) ==
  /\ pc = "turn" /\ tool = "none"
  /\ tool' = t /\ last' = name
  /\ UNCHANGED <<pc, landed, res, faults>>

(* Outside the envelope, into a building, no such target: nothing is sent.  *)
ToolRefused == Calls("none", "other") /\ UNCHANGED px4

(* take_off: _arm_robust, and the take-off in a call of its own behind it.  *)
TakeOffArms == Calls("arming", "other") /\ ArmIn("hold")
TakeOff ==
  /\ pc = "turn" /\ tool = "arming" /\ tool' = "take_off"
  /\ Command("takeoff", goal)
  /\ UNCHANGED <<pc, last, landed, res, faults>>

(* goto and fly; with wait=false the call returns under way.                *)
Goto(p) == Calls("goto", "other") /\ Command("goto", p)

(* The orbit is left to PX4, which circles until it is told otherwise.      *)
Orbit(p) == Calls("none", "other") /\ Command("orbit", p)

(* face: a goto where the drone is, with another heading.                   *)
Face == Calls("goto", "other") /\ Command("goto", at)
Hover == Calls("none", "other") /\ Command("hold", goal)
Land == Calls("land", "land") /\ Command("land", goal)
LandRefused == Calls("none", "land") /\ UNCHANGED px4

(* run_mission: the authored code arms, uploads a plan and starts it; PX4   *)
(* denies the arming in its land mode.                                      *)
Mission(p) ==
  /\ Calls("mission", "other") /\ (armed \/ mode # "land")
  /\ armed' = TRUE /\ launch' = IF armed THEN launch ELSE at
  /\ mode' = "mission" /\ goal' = p
  /\ UNCHANGED <<at, alt>>

(* Every wait of a tool is bounded, and its call returns then all the same: *)
(* land answers "landed" after its thirty seconds.                          *)
ToolReturns ==
  /\ pc = "turn" /\ tool \in Tools \ {"none", "arming"}
  /\ tool' = "none"
  /\ last' = IF last = "land" THEN "landed" ELSE last
  /\ UNCHANGED <<px4, pc, landed, res, faults>>

(* The call failed, or was cancelled; a mission whose code raised flies on. *)
ToolErrs ==
  /\ pc = "turn" /\ tool # "none"
  /\ tool' = "none"
  /\ UNCHANGED <<px4, pc, last, landed, res, faults>>

(* _halt, for a mission that is timed out or cancelled.                     *)
Halted == IF tool = "mission" THEN Command("hold", goal) ELSE UNCHANGED px4

MissionTimesOut ==
  /\ pc = "turn" /\ tool = "mission"
  /\ tool' = "none" /\ Halted
  /\ UNCHANGED <<pc, last, landed, res, faults>>

TurnEnds ==
  /\ pc = "turn" /\ tool = "none"
  /\ Goes("halt") /\ UNCHANGED <<px4, turn, faults>>

(* The budget's wall clock or its steps, which cut the call in flight.      *)
TurnCut ==
  /\ pc = "turn"
  /\ Halted /\ tool' = "none"
  /\ Goes("halt") /\ UNCHANGED <<last, landed, faults>>

(* The client raised: the cell returns, and nothing halts the drone.        *)
TurnBreaks ==
  /\ pc = "turn" /\ Fault
  /\ Halted /\ tool' = "none"
  /\ Return("infra") /\ UNCHANGED <<last, landed>>

-----------------------------------------------------------------------------
(* Mutant of CompletedLand: any land at the end of the trace will do.       *)
LandCalled == last \in {"land", "landed"}

(* _completed_land                                                          *)
CompletedLand == last = "landed"

(* _wait_disarmed                                                           *)
WaitDisarmed ==
  /\ pc = "halt" /\ CompletedLand
  /\ landed' = ~ armed
  /\ Goes("settle") /\ UNCHANGED <<px4, tool, last, faults>>

HoldsBeforeGrading ==
  /\ pc = "halt" /\ ~ CompletedLand
  /\ Command("hold", goal)
  /\ Goes("settle") /\ UNCHANGED <<turn, faults>>

HoldFails ==
  /\ pc = "halt" /\ ~ CompletedLand /\ Fault
  /\ Goes("settle") /\ UNCHANGED <<px4, turn>>

(* _settle has SETTLE_S of its own, however fast the drone still is; a      *)
(* client that never ran its model is no outcome of the task.  grade() is   *)
(* outside the try: a check that misses a parameter raises through          *)
(* run_cell.                                                                *)
Grade ==
  /\ pc = "settle"
  /\ \/ Return("scored") /\ NoFault
     \/ Return("raised") /\ NoFault
     \/ Return("infra") /\ Fault
  /\ UNCHANGED <<px4, turn>>

-----------------------------------------------------------------------------
CellInit ==
  /\ at = Home /\ alt = Ground /\ armed = FALSE /\ mode = "hold"
  /\ goal = Home /\ launch = Home
  /\ pc = "over" /\ tool = "none" /\ last = "none" /\ landed = FALSE
  /\ res = "none" /\ faults = 0

SoftReset ==
  \/ StartFerry \/ StartFerryBlind \/ ReturnToLaunch \/ RtlFails
  \/ FerryArms \/ FerryClimbed \/ FerryArrived \/ FerryDown \/ FerryGivesUp
  \/ VerifyOk \/ VerifyTimesOut

ToolCall ==
  \/ ToolRefused \/ TakeOffArms \/ TakeOff \/ Face \/ Hover \/ Land \/ LandRefused
  \/ \E p \in Places : Goto(p) \/ Orbit(p) \/ Mission(p)
  \/ ToolReturns \/ ToolErrs \/ MissionTimesOut

TurnOver == TurnEnds \/ TurnCut \/ TurnBreaks
Judged == WaitDisarmed \/ HoldsBeforeGrading \/ HoldFails \/ Grade

(* run_cell and its drone.                                                  *)
CellStep == SoftReset \/ TurnOver \/ Judged
CellNext == Fly \/ ToolCall \/ CellStep

-----------------------------------------------------------------------------
(* Every variable keeps its type, and a drone in the air is armed.          *)
CellTypeOK ==
  /\ at \in Places /\ goal \in Places /\ launch \in Places
  /\ alt \in Heights /\ armed \in BOOLEAN /\ mode \in Modes
  /\ pc \in {"soft_reset", "ferry_arm", "ferry_up", "ferry_over", "ferry_down",
             "verify", "turn", "halt", "settle", "over"}
  /\ tool \in Tools /\ last \in {"none", "other", "land", "landed"}
  /\ landed \in BOOLEAN /\ res \in {"none", "infra", "scored", "raised"}
  /\ faults \in 0 .. MaxFault
  /\ alt > Ground => armed
  /\ tool # "none" => pc = "turn"

(* What a cell is graded on stays: with no call lost, the drone is neither  *)
(* under way to anywhere nor about to be, and one that counts as landed is  *)
(* on the ground and disarmed (runner.py: "otherwise keeps flying").        *)
GradedAtRest ==
  pc = "settle" => /\ faults = 0 => ~ armed \/ mode \in {"hold", "land"}
                   /\ landed => ~ armed /\ alt = Ground
=============================================================================
