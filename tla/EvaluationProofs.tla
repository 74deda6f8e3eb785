-------------------------- MODULE EvaluationProofs --------------------------
(* Theorems of the evaluation: of EvalSweep and its cell, for any places,   *)
(* any cells with keys of their own and any numbers of attempts, failures   *)
(* and kills; then of EvalOracle, for any points, tasks and tracks.         *)
EXTENDS EvalSweep, EvalOracle, SequenceTheorems, FiniteSetTheorems,
        WellFoundedInduction, TLAPS

(* What a land on the trace says of the vehicle, from the call to the halt. *)
LandInv ==
  /\ pc \in {"turn", "halt"} => ~ landed /\ (last = "landed" => mode = "land")
  /\ tool = "land" => mode = "land" /\ last = "land"
  /\ tool \notin {"none", "land"} => last = "other"
  /\ GradedAtRest

CellInv == CellTypeOK /\ LandInv

-----------------------------------------------------------------------------
(* PX4's own steps, and the reset that brings the drone home.               *)
LEMMA FlyKeeps == CellInv /\ Fly => CellInv'
<1> SUFFICES ASSUME CellInv, Fly PROVE CellInv'
  OBVIOUS
<1> USE DEF CellInv, CellTypeOK, Heights, Ground, Up, Low, Modes
<1>1. armed /\ UNCHANGED <<pc, tool, last, landed, res, faults>>
  BY DEF Fly, turn
<1>2. \/ \E h \in Heights : ClimbTo(h)
      \/ \E q \in Places : MoveTo(q)
      \/ Disarm /\ alt = 0
  <2>1. alt + 1 \in Heights \/ alt = Up
    OBVIOUS
  <2>2. alt > 0 => alt - 1 \in Heights
    OBVIOUS
  <2>3. ASSUME NEW q \in Places, HeadFor(q)
        PROVE  (\E h \in Heights : ClimbTo(h)) \/ MoveTo(q)
    BY <2>3 DEF HeadFor
  <2>4. ASSUME ComeDown PROVE (\E h \in Heights : ClimbTo(h)) \/ (Disarm /\ alt = 0)
    BY <2>2, <2>4 DEF ComeDown
  <2>5. goal \in Places /\ launch \in Places
    OBVIOUS
  <2> QED BY <2>1, <2>3, <2>4, <2>5 DEF Fly
<1>3. UNCHANGED <<mode, goal, launch>>
  BY <1>2 DEF ClimbTo, MoveTo, Disarm
<1>6. at' \in Places /\ alt' \in Heights
  BY <1>2 DEF ClimbTo, MoveTo, Disarm
<1>7. armed' \in BOOLEAN
  BY <1>2 DEF ClimbTo, MoveTo, Disarm
<1>8. alt' > 0 => armed'
  <2>1. CASE UNCHANGED armed
    BY <1>1, <2>1
  <2>2. CASE Disarm /\ alt = 0
    BY <2>2 DEF Disarm
  <2> QED BY <1>2, <2>1, <2>2 DEF ClimbTo, MoveTo
<1>4. CellTypeOK'
  BY <1>1, <1>3, <1>6, <1>7, <1>8
<1>5. LandInv'
  BY <1>1, <1>3, <1>6, <1>7, <1>8 DEF LandInv, GradedAtRest
<1> QED BY <1>4, <1>5

LEMMA ResetKeeps == CellInv /\ SoftReset => CellInv'
<1> SUFFICES ASSUME CellInv, SoftReset PROVE CellInv'
  OBVIOUS
<1> USE CellAssumption
    DEF CellInv, CellTypeOK, LandInv, GradedAtRest, Heights, Ground, Up, Low, Modes, Tools, px4, turn,
        Command, ArmIn, Fault, NoFault, Return, Goes
<1>1. CASE StartFerry
  BY <1>1 DEF StartFerry
<1>2. CASE StartFerryBlind
  BY <1>2 DEF StartFerryBlind
<1>3. CASE ReturnToLaunch
  BY <1>3 DEF ReturnToLaunch
<1>4. CASE RtlFails
  BY <1>4 DEF RtlFails
<1>5. CASE FerryArms
  BY <1>5 DEF FerryArms
<1>6. CASE FerryClimbed
  BY <1>6 DEF FerryClimbed
<1>7. CASE FerryArrived
  BY <1>7 DEF FerryArrived
<1>8. CASE FerryDown
  BY <1>8 DEF FerryDown
<1>9. CASE FerryGivesUp
  <2>1. pc' = "verify" /\ faults' = faults + 1 /\ faults < MaxFault /\ UNCHANGED <<tool, last, landed, res>>
    BY <1>9 DEF FerryGivesUp
  <2>2. CASE UNCHANGED px4
    BY <1>9, <2>1, <2>2 DEF FerryGivesUp
  <2>3. CASE ArmIn("hold")
    BY <1>9, <2>1, <2>3 DEF FerryGivesUp
  <2> QED BY <1>9, <2>2, <2>3 DEF FerryGivesUp
<1>10. CASE VerifyOk
  BY <1>10 DEF VerifyOk
<1>11. CASE VerifyTimesOut
  <2>1. /\ pc' = "over" /\ res' = "infra"
        /\ UNCHANGED <<at, alt, armed, mode, goal, launch, tool, last, landed>>
    BY <1>11 DEF VerifyTimesOut
  <2>2. faults' \in 0 .. MaxFault
    BY <1>11 DEF VerifyTimesOut
  <2>3. pc = "verify"
    BY <1>11 DEF VerifyTimesOut
  <2> QED BY <2>1, <2>2, <2>3
<1> QED BY <1>1, <1>2, <1>3, <1>4, <1>5, <1>6, <1>7, <1>8, <1>9, <1>10, <1>11 DEF SoftReset

(* The model's turn: a land that returned has left the vehicle landing, and *)
(* every later call takes the land off the end of the trace.                *)
LEMMA ToolsKeep == CellInv /\ ToolCall => CellInv'
<1> SUFFICES ASSUME CellInv, ToolCall PROVE CellInv'
  OBVIOUS
<1> USE CellAssumption
    DEF CellInv, CellTypeOK, LandInv, GradedAtRest, Heights, Ground, Up, Low, Modes, Tools, px4, turn,
        Command, ArmIn, Calls, Halted
<1>1. CASE ToolRefused
  BY <1>1 DEF ToolRefused
<1>2. CASE TakeOffArms
  BY <1>2 DEF TakeOffArms
<1>3. CASE TakeOff
  BY <1>3 DEF TakeOff
<1>4. CASE Face
  BY <1>4 DEF Face
<1>5. CASE Hover
  BY <1>5 DEF Hover
<1>6. CASE Land
  BY <1>6 DEF Land
<1>7. CASE LandRefused
  BY <1>7 DEF LandRefused
<1>8. ASSUME NEW p \in Places, Goto(p) PROVE CellInv'
  BY <1>8 DEF Goto
<1>9. ASSUME NEW p \in Places, Orbit(p) PROVE CellInv'
  BY <1>9 DEF Orbit
<1>10. ASSUME NEW p \in Places, Mission(p) PROVE CellInv'
  BY <1>10 DEF Mission
<1>11. CASE ToolReturns
  BY <1>11 DEF ToolReturns
<1>12. CASE ToolErrs
  BY <1>12 DEF ToolErrs
<1>13. CASE MissionTimesOut
  BY <1>13 DEF MissionTimesOut
<1> HIDE DEF CellInv
<1> QED BY <1>1, <1>2, <1>3, <1>4, <1>5, <1>6, <1>7, <1>8, <1>9, <1>10, <1>11, <1>12, <1>13
        DEF ToolCall

(* The end of the turn, the halt and the grading.                           *)
LEMMA EndKeeps == CellInv /\ (TurnOver \/ Judged) => CellInv'
<1> SUFFICES ASSUME CellInv, TurnOver \/ Judged PROVE CellInv'
  OBVIOUS
<1> USE CellAssumption
    DEF CellInv, CellTypeOK, LandInv, GradedAtRest, Heights, Ground, Up, Low, Modes, Tools, px4, turn,
        Command, Fault, NoFault, Return, Goes, Halted
<1>1. CASE TurnEnds
  BY <1>1 DEF TurnEnds
<1>2. CASE TurnCut
  BY <1>2 DEF TurnCut
<1>3. CASE TurnBreaks
  BY <1>3 DEF TurnBreaks
<1>4. CASE WaitDisarmed
  BY <1>4 DEF WaitDisarmed, CompletedLand
<1>5. CASE HoldsBeforeGrading
  BY <1>5 DEF HoldsBeforeGrading, CompletedLand
<1>6. CASE HoldFails
  BY <1>6 DEF HoldFails, CompletedLand
<1>7. CASE Grade
  BY <1>7 DEF Grade
<1> QED BY <1>1, <1>2, <1>3, <1>4, <1>5, <1>6, <1>7 DEF TurnOver, Judged

(* Between two cells nothing of this moves, and a killed process has no turn*)
LEMMA CellOff ==
  ASSUME CellInv, UNCHANGED <<px4, last, landed, faults>>, pc' \in {"soft_reset", "over"},
         tool' = "none", res' \in {"none", "infra", "scored", "raised"}
  PROVE  CellInv'
<1>1. CellTypeOK'
  BY DEF CellInv, CellTypeOK, px4, Tools
<1>2. LandInv'
  BY DEF CellInv, LandInv, GradedAtRest, px4
<1> QED BY <1>1, <1>2 DEF CellInv

-----------------------------------------------------------------------------
(* The sweep's variables, its rows as sequences.                            *)
Procs == {"off", "run", "wrote", "done", "abort"}

SweepType ==
  /\ proc \in Procs
  /\ cursor \in 1 .. Len(Cells) + 1 /\ tries \in 0 .. Attempts
  /\ linked \in BOOLEAN /\ done \subseteq KeySet /\ fuse \in 0 .. FuseLimit /\ kills \in 0 .. MaxKill
  /\ proc \in {"run", "wrote"} => fuse < FuseLimit
  /\ pc # "over" => proc = "run"
  /\ rows \in [KeySet -> Seq({"infra", "scored"})]
  /\ torn \in BOOLEAN /\ (torn => proc = "off")

(* Only a cell that this process did not find scored is tried.              *)
TriedInv ==
  /\ proc \in {"run", "wrote"} /\ tries > 0 => cursor \in Keys /\ Key \notin done
  /\ proc = "wrote" => tries > 0
  /\ pc # "over" => tries > 0

(* A cell that has its score either had it when this process began or lies  *)
(* behind the cursor, and it has one.                                       *)
Passed(k) == \/ k \in done
             \/ \E i \in Keys : Cells[i] = k /\ (i < cursor \/ (i = cursor /\ proc = "wrote"))

OnceInv ==
  /\ \A k \in KeySet : \A i, j \in ScoredRows(k) : i = j
  /\ proc \in {"run", "wrote"} => \A k \in KeySet : Scored(k) => Passed(k)

SweepInv == CellInv /\ SweepType /\ TriedInv /\ OnceInv

LEMMA CellKeeps == CellInv /\ CellNext => CellInv'
BY FlyKeeps, ResetKeeps, ToolsKeep, EndKeeps DEF CellNext, CellStep

(* Behind a cell only the vehicle goes on; the sweep begins the next one.    *)
LEMMA OverFlies == CellNext /\ pc = "over" => Fly
<1> SUFFICES ASSUME CellNext, pc = "over" PROVE Fly
  OBVIOUS
<1>1. ~ SoftReset
  BY DEF SoftReset, StartFerry, StartFerryBlind, ReturnToLaunch, RtlFails, FerryArms, FerryClimbed,
         FerryArrived, FerryDown, FerryGivesUp, VerifyOk, VerifyTimesOut
<1>2. ~ ToolCall
  BY DEF ToolCall, ToolRefused, TakeOffArms, TakeOff, Face, Hover, Land, LandRefused, Goto, Orbit,
         Mission, ToolReturns, ToolErrs, MissionTimesOut, Calls
<1>3. ~ (TurnOver \/ Judged)
  BY DEF TurnOver, TurnEnds, TurnCut, TurnBreaks, Judged, WaitDisarmed, HoldsBeforeGrading,
         HoldFails, Grade
<1> QED BY <1>1, <1>2, <1>3 DEF CellNext, CellStep

LEMMA OverStays == CellNext /\ pc = "over" => pc' = "over"
BY OverFlies DEF Fly

LEMMA InitSweep == Init => SweepInv
<1> SUFFICES ASSUME Init PROVE SweepInv
  OBVIOUS
<1>1. CellInv
  <2>1. armed \in BOOLEAN /\ landed \in BOOLEAN /\ ~ armed /\ ~ landed
    BY DEF Init, CellInit
  <2>2. CellTypeOK
    BY <2>1, CellAssumption DEF Init, CellInit, CellTypeOK, Heights, Ground, Up, Modes, Tools
  <2>3. LandInv
    BY <2>1 DEF Init, CellInit, LandInv, GradedAtRest
  <2> QED BY <2>2, <2>3 DEF CellInv
<1>2. SweepType
  <2>1. rows \in [KeySet -> Seq({"infra", "scored"})]
    BY DEF Init
  <2>2. linked \in BOOLEAN /\ torn \in BOOLEAN /\ ~ torn
    BY DEF Init
  <2> QED BY <2>1, <2>2, SweepAssumption, KeysAssumption DEF Init, CellInit, SweepType, Procs
<1>3. TriedInv
  BY DEF Init, CellInit, TriedInv
<1>4. OnceInv
  <2>1. \A k \in KeySet : ScoredRows(k) = {}
    BY DEF Init, ScoredRows
  <2> QED BY <2>1 DEF Init, OnceInv
<1> QED BY <1>1, <1>2, <1>3, <1>4 DEF SweepInv

(* One step of the cell leaves the sweep where it is.                       *)
LEMMA CellSteps == SweepInv /\ InCell(CellNext) => SweepInv'
<1> SUFFICES ASSUME SweepInv, CellNext, UNCHANGED sweepVars PROVE SweepInv'
  BY DEF InCell
<1>1. CellInv'
  BY CellKeeps DEF SweepInv
<1>2. pc' # "over" => pc # "over"
  BY OverStays
<1>3. SweepType'
  BY <1>2 DEF SweepInv, SweepType, sweepVars, files
<1>4. TriedInv'
  BY <1>2 DEF SweepInv, TriedInv, sweepVars, Key
<1>5. OnceInv'
  BY DEF SweepInv, OnceInv, Passed, Scored, ScoredRows, sweepVars, files
<1> QED BY <1>1, <1>3, <1>4, <1>5 DEF SweepInv

LEMMA StartSteps == SweepInv /\ StartSweep => SweepInv'
<1> SUFFICES ASSUME SweepInv, StartSweep PROVE SweepInv'
  OBVIOUS
<1>1. CellInv'
  BY DEF SweepInv, CellInv, CellTypeOK, LandInv, GradedAtRest, StartSweep, cellVars, px4, turn
<1>2. SweepType'
  <2>1. proc' = "run" /\ cursor' = 1 /\ tries' = 0 /\ fuse' = 0 /\ done' \subseteq KeySet
    BY DEF StartSweep, DoneKeys
  <2>2. linked' \in BOOLEAN
    BY DEF StartSweep
  <2>3. pc = "over" /\ ~ torn /\ UNCHANGED <<pc, rows, torn, kills>>
    BY DEF SweepInv, SweepType, StartSweep, cellVars, files
  <2> QED BY <2>1, <2>2, <2>3, SweepAssumption, KeysAssumption DEF SweepInv, SweepType, Procs
<1>3. TriedInv'
  BY DEF SweepInv, SweepType, TriedInv, StartSweep, cellVars, Procs
<1>4. OnceInv'
  BY DEF SweepInv, OnceInv, Passed, Scored, ScoredRows, StartSweep, files, DoneKeys
<1> QED BY <1>1, <1>2, <1>3, <1>4 DEF SweepInv

LEMMA SkipSteps == SweepInv /\ Skip => SweepInv'
<1> SUFFICES ASSUME SweepInv, Skip PROVE SweepInv'
  OBVIOUS
<1>0. tries = 0
  BY SweepAssumption DEF SweepInv, SweepType, TriedInv, Skip
<1>1. CellInv'
  BY DEF SweepInv, CellInv, CellTypeOK, LandInv, GradedAtRest, Skip, cellVars, px4, turn
<1>2. SweepType'
  <2>1. cursor' \in 1 .. Len(Cells) + 1
    BY KeysAssumption DEF Skip, Keys
  <2>2. UNCHANGED <<pc, proc, tries, linked, done, fuse, kills, rows, torn>>
    BY DEF Skip, cellVars, files
  <2> QED BY <2>1, <2>2 DEF SweepInv, SweepType
<1>3. TriedInv'
  BY <1>0 DEF SweepInv, TriedInv, Skip, cellVars
<1>4. OnceInv'
  BY KeysAssumption
  DEF SweepInv, SweepType, OnceInv, Passed, Scored, ScoredRows, Skip, files, Keys
<1> QED BY <1>1, <1>2, <1>3, <1>4 DEF SweepInv

LEMMA AttemptSteps == SweepInv /\ (RunCell \/ ConnectFails) => SweepInv'
<1> SUFFICES ASSUME SweepInv, RunCell \/ ConnectFails PROVE SweepInv'
  OBVIOUS
<1>0. Attempt /\ tries' = tries + 1
  BY DEF RunCell, ConnectFails, Attempt
<1>1. CellInv'
  <2>1. pc = "over" /\ tool = "none"
    BY <1>0 DEF SweepInv, CellInv, CellTypeOK, Attempt
  <2>2. CASE RunCell
    BY <1>0, <2>1, <2>2, CellOff DEF SweepInv, RunCell, Attempt, turn
  <2>3. CASE ConnectFails
    <3>1. /\ UNCHANGED <<px4, last, landed, tool, pc>> /\ res' = "infra"
          /\ faults' = faults + 1 /\ faults < MaxFault
      BY <1>0, <2>3 DEF ConnectFails, Attempt, turn, Fault
    <3>2. CellTypeOK'
      BY <3>1, CellAssumption DEF SweepInv, CellInv, CellTypeOK, px4
    <3>3. LandInv'
      BY <2>1, <3>1 DEF SweepInv, CellInv, LandInv, GradedAtRest, px4
    <3> QED BY <3>2, <3>3 DEF CellInv
  <2> QED BY <2>2, <2>3
<1>2. SweepType'
  <2>1. /\ proc = "run" /\ tries' \in 0 .. Attempts
        /\ UNCHANGED <<proc, cursor, done, fuse, rows, torn, kills>>
    BY <1>0, SweepAssumption DEF SweepInv, SweepType, Attempt, files
  <2>2. linked' \in BOOLEAN
    BY DEF SweepInv, SweepType, RunCell, ConnectFails
  <2> QED BY <2>1, <2>2 DEF SweepInv, SweepType
<1>3. TriedInv'
  BY <1>0, SweepAssumption DEF SweepInv, SweepType, TriedInv, Attempt, Key
<1>4. OnceInv'
  BY <1>0 DEF SweepInv, OnceInv, Passed, Scored, ScoredRows, Attempt, files
<1> QED BY <1>1, <1>2, <1>3, <1>4 DEF SweepInv

(* The row of a cell whose key no earlier row scored: it is not among those *)
(* found at the start, and no earlier cell has its key.                     *)
LEMMA WriteRowSteps == SweepInv /\ WriteRow => SweepInv'
<1> SUFFICES ASSUME SweepInv, WriteRow PROVE SweepInv'
  OBVIOUS
<1>0. /\ cursor \in Keys /\ Key \in KeySet /\ Key \notin done /\ tries > 0
      /\ pc = "over" /\ proc = "run" /\ proc' = "wrote" /\ res \in {"infra", "scored"}
      /\ UNCHANGED <<cursor, tries, linked, done, fuse, torn, kills>>
  BY DEF SweepInv, CellInv, CellTypeOK, TriedInv, WriteRow, AtRow, Final, Key, KeySet
<1>1. CellInv'
  BY DEF SweepInv, CellInv, CellTypeOK, LandInv, GradedAtRest, WriteRow, cellVars, px4, turn
<1>2. ~ Scored(Key)
  <2>1. \A i \in Keys : Cells[i] = Key => i = cursor
    BY <1>0, KeysAssumption DEF Key, Keys
  <2>2. ~ Passed(Key)
    BY <1>0, <2>1, KeysAssumption DEF Passed, Keys, SweepInv, SweepType
  <2> QED BY <1>0, <2>2 DEF SweepInv, OnceInv
<1> DEFINE r == rows[Key]
<1>3. /\ r \in Seq({"infra", "scored"}) /\ Len(r) \in Nat
      /\ rows' = [rows EXCEPT ![Key] = Append(r, res)]
  BY <1>0, LenProperties DEF SweepInv, SweepType, WriteRow
<1>4. /\ Append(r, res) \in Seq({"infra", "scored"}) /\ Len(Append(r, res)) = Len(r) + 1
      /\ \A i \in 1 .. Len(r) : Append(r, res)[i] = r[i]
  BY <1>0, <1>3, AppendProperties
<1> HIDE DEF r
<1>5. SweepType'
  <2>1. rows' \in [KeySet -> Seq({"infra", "scored"})]
    BY <1>3, <1>4 DEF SweepInv, SweepType
  <2> QED BY <1>0, <1>1, <2>1 DEF SweepInv, SweepType, Procs, WriteRow, cellVars
<1>6. TriedInv'
  BY <1>0 DEF SweepInv, TriedInv, WriteRow, cellVars, Key
<1>7. ASSUME NEW k \in KeySet, k # Key PROVE ScoredRows(k)' = ScoredRows(k)
  BY <1>3, <1>7 DEF ScoredRows, SweepInv, SweepType
<1>8. ScoredRows(Key)' \subseteq {Len(r) + 1}
  <2>1. rows'[Key] = Append(r, res) /\ Key' = Key
    BY <1>0, <1>3 DEF SweepInv, SweepType, Key
  <2>2. ASSUME NEW i \in 1 .. Len(r) + 1, Append(r, res)[i] = "scored" PROVE i = Len(r) + 1
    <3>1. CASE i \in 1 .. Len(r)
      <4>1. r[i] = "scored"
        BY <1>4, <2>2, <3>1
      <4> QED BY <1>2, <3>1, <4>1 DEF Scored, ScoredRows, r
    <3>2. CASE i \notin 1 .. Len(r)
      BY <1>3, <3>2
    <3> QED BY <3>1, <3>2
  <2> QED BY <1>4, <2>1, <2>2 DEF ScoredRows
<1>9. OnceInv'
  <2>1. ASSUME NEW k \in KeySet PROVE \A i, j \in ScoredRows(k)' : i = j
    <3>1. CASE k = Key
      <4>1. Key' = Key
        BY <1>0 DEF Key
      <4> QED BY <1>8, <3>1, <4>1
    <3>2. CASE k # Key
      BY <1>7, <3>2 DEF SweepInv, OnceInv
    <3> QED BY <3>1, <3>2
  <2>2. ASSUME NEW k \in KeySet, Scored(k)' PROVE Passed(k)'
    <3>1. CASE k = Key
      BY <1>0, <3>1 DEF Passed, Key
    <3>2. CASE k # Key
      BY <1>0, <1>7, <2>2, <3>2 DEF SweepInv, OnceInv, Scored, Passed
    <3> QED BY <3>1, <3>2
  <2>3. KeySet' = KeySet
    BY DEF KeySet, Keys
  <2> QED BY <2>1, <2>2, <2>3 DEF OnceInv
<1> QED BY <1>1, <1>5, <1>6, <1>9 DEF SweepInv

LEMMA TranscriptSteps == SweepInv /\ WriteTranscript => SweepInv'
<1> SUFFICES ASSUME SweepInv, WriteTranscript PROVE SweepInv'
  OBVIOUS
<1>0. /\ proc = "wrote" /\ pc = "over" /\ cursor \in Keys /\ cursor' = cursor + 1 /\ tries' = 0
      /\ fuse \in 0 .. FuseLimit /\ fuse < FuseLimit
      /\ UNCHANGED <<pc, linked, done, rows, torn, kills>>
  BY DEF SweepInv, SweepType, TriedInv, WriteTranscript, cellVars
<1>1. CellInv'
  BY DEF SweepInv, CellInv, CellTypeOK, LandInv, GradedAtRest, WriteTranscript, cellVars, px4, turn
<1>2. SweepType'
  <2>1. cursor' \in 1 .. Len(Cells) + 1
    BY <1>0, KeysAssumption DEF Keys
  <2>2. fuse' \in 0 .. FuseLimit /\ proc' \in {"abort", "run"} /\ (proc' = "run" => fuse' < FuseLimit)
    BY <1>0, SweepAssumption DEF WriteTranscript, Blown
  <2> QED BY <1>0, <2>1, <2>2, SweepAssumption DEF SweepInv, SweepType, Procs
<1>3. TriedInv'
  <2>1. proc' \in {"abort", "run"}
    BY DEF WriteTranscript
  <2> QED BY <1>0, <2>1 DEF TriedInv
<1>4. OnceInv'
  <2>1. ASSUME NEW k \in KeySet, Passed(k) PROVE Passed(k)'
    BY <1>0, <2>1, KeysAssumption DEF Passed, Keys
  <2> QED BY <1>0, <2>1 DEF SweepInv, OnceInv, Scored, ScoredRows
<1> QED BY <1>1, <1>2, <1>3, <1>4 DEF SweepInv

LEMMA EndSteps == SweepInv /\ (Finish \/ GradeRaises \/ Kill) => SweepInv'
<1> SUFFICES ASSUME SweepInv, Finish \/ GradeRaises \/ Kill PROVE SweepInv'
  OBVIOUS
<1>0. /\ proc' \in {"done", "off"} /\ UNCHANGED <<cursor, tries, linked, done, fuse, rows, trows>>
      /\ kills' \in 0 .. MaxKill /\ pc' = "over"
  <2>1. CASE Finish
    <3>1. pc = "over"
      BY <2>1 DEF SweepInv, SweepType, TriedInv, Finish
    <3> QED BY <2>1, <3>1 DEF SweepInv, SweepType, Finish, files, cellVars
  <2>2. CASE GradeRaises
    BY <2>2 DEF SweepInv, SweepType, GradeRaises, Dies
  <2>3. CASE Kill
    BY <2>3, SweepAssumption DEF SweepInv, SweepType, Kill, Dies
  <2> QED BY <2>1, <2>2, <2>3
<1>5. torn' \in BOOLEAN /\ (torn' => proc' = "off")
  <2>1. CASE Finish
    <3>1. ~ torn /\ torn \in BOOLEAN
      BY <2>1 DEF SweepInv, SweepType, Finish
    <3>2. torn' = torn
      BY <2>1 DEF Finish, files
    <3> QED BY <3>1, <3>2
  <2>2. CASE GradeRaises \/ Kill
    <3>1. proc' = "off" /\ (UNCHANGED torn \/ torn' = TRUE)
      BY <2>2 DEF GradeRaises, Kill, Dies
    <3> QED BY <3>1 DEF SweepInv, SweepType
  <2> QED BY <2>1, <2>2
<1>1. CellInv'
  <2>1. CASE Finish
    BY <2>1 DEF SweepInv, CellInv, CellTypeOK, LandInv, GradedAtRest, Finish, cellVars, px4, turn
  <2>2. CASE GradeRaises \/ Kill
    BY <2>2, CellOff DEF SweepInv, GradeRaises, Kill, Dies
  <2> QED BY <2>1, <2>2
<1>2. SweepType'
  BY <1>0, <1>5 DEF SweepInv, SweepType, Procs
<1>3. TriedInv'
  BY <1>0 DEF TriedInv
<1>4. OnceInv'
  BY <1>0 DEF SweepInv, OnceInv, Scored, ScoredRows
<1> QED BY <1>1, <1>2, <1>3, <1>4 DEF SweepInv

LEMMA StutterSteps == SweepInv /\ UNCHANGED vars => SweepInv'
<1> SUFFICES ASSUME SweepInv, UNCHANGED <<cellVars, sweepVars>> PROVE SweepInv'
  BY DEF vars
<1>1. CellInv'
  BY DEF SweepInv, CellInv, CellTypeOK, LandInv, GradedAtRest, cellVars, px4, turn
<1>2. SweepType' /\ TriedInv'
  BY DEF SweepInv, SweepType, TriedInv, Key, cellVars, sweepVars, files
<1>3. OnceInv'
  BY DEF SweepInv, OnceInv, Passed, Scored, ScoredRows, sweepVars, files
<1> QED BY <1>1, <1>2, <1>3 DEF SweepInv

LEMMA SweepSteps == SweepInv /\ [Next]_vars => SweepInv'
BY CellSteps, StartSteps, SkipSteps, AttemptSteps, WriteRowSteps, TranscriptSteps, EndSteps,
   StutterSteps
DEF Next, SweepStep, StartRaises, Finished

LEMMA AlwaysSweep == Spec => []SweepInv
BY InitSweep, SweepSteps, PTL DEF Spec

-----------------------------------------------------------------------------
(* Type correctness: a cell runs only in a process that is running, on a    *)
(* key that process did not find scored, and below the fuse's limit.        *)
THEOREM SweepTyped == Spec => []TypeOK
<1>1. SweepInv => TypeOK
  <2> SUFFICES ASSUME SweepInv PROVE TypeOK
    OBVIOUS
  <2>1. pc # "over" => proc = "run" /\ cursor \in Keys /\ Key \notin done
    BY DEF SweepInv, SweepType, TriedInv
  <2>2. CellTypeOK /\ linked \in BOOLEAN
    BY DEF SweepInv, CellInv, SweepType
  <2> QED BY <2>1, <2>2 DEF SweepInv, SweepType, Procs, TypeOK
<1> QED BY <1>1, AlwaysSweep, PTL

(* What is graded stays: the drone is not under way when no call was lost,  *)
(* and one that counts as landed is on the ground and disarmed.             *)
THEOREM GradesStand == Spec => []GradedAtRest
<1>1. SweepInv => GradedAtRest
  BY DEF SweepInv, CellInv, LandInv
<1> QED BY <1>1, AlwaysSweep, PTL

(* However often a sweep is killed, gives up and is run again over its own  *)
(* files, a cell has at most one score in them.                             *)
THEOREM CellsScoredOnce == Spec => []ScoredOnce
<1>1. SweepInv => ScoredOnce
  <2> SUFFICES ASSUME SweepInv, NEW k \in KeySet PROVE Trials(k) <= 1
    BY DEF ScoredOnce
  <2>1. \A i, j \in ScoredRows(k) : i = j
    BY DEF SweepInv, OnceInv
  <2>2. CASE ScoredRows(k) = {}
    BY <2>2, FS_EmptySet DEF Trials
  <2>3. CASE ScoredRows(k) # {}
    <3>1. PICK i \in ScoredRows(k) : ScoredRows(k) = {i}
      BY <2>1, <2>3
    <3> QED BY <3>1, FS_Singleton DEF Trials
  <2> QED BY <2>2, <2>3
<1> QED BY <1>1, AlwaysSweep, PTL
-----------------------------------------------------------------------------
(* What an attempt that met no fault leads to: a reset that failed all the  *)
(* same left the drone disarmed away from home, which is what the ferry of  *)
(* the next attempt is for, and that one brings it home.                    *)
Settled ==
  /\ pc = "over" /\ res = "infra" /\ tries > 0 => Stranded /\ tries = 1
  /\ pc = "soft_reset" /\ tries > 1 => Stranded
  /\ pc = "ferry_down" => at = Home /\ mode = "land"
  /\ pc = "verify" => (mode = "rtl" /\ tries = 1) \/ (at = Home /\ ~ armed)

(* Every failed row is charged to a fault of its own, and the fuse counts   *)
(* charged rows: as long as no fault is left over, the attempt is Settled.  *)
ChargedInv ==
  /\ fuse <= faults
  /\ proc = "wrote" => pc = "over" /\ Final
  /\ proc = "abort" => fuse >= FuseLimit
  /\ \A k \in KeySet : \A i \in 1 .. Len(rows[k]) : rows[k][i] = "infra" => faults > 0
  /\ faults = fuse => Settled

LEMMA Counters == SweepInv => /\ faults \in Nat /\ fuse \in Nat /\ tries \in Nat
                              /\ at \in Places /\ alt \in Heights
                              /\ (~ armed => alt = Ground) /\ (pc # "over" => tries > 0)
BY SweepAssumption, CellAssumption
DEF SweepInv, CellInv, CellTypeOK, SweepType, TriedInv, Heights, Ground, Up

(* A fault is left over behind the step in which it happens.                *)
LEMMA FaultIsLeft == SweepInv /\ ChargedInv /\ Fault /\ UNCHANGED fuse => faults' # fuse'
<1> SUFFICES ASSUME SweepInv, ChargedInv, Fault, UNCHANGED fuse PROVE faults' # fuse'
  OBVIOUS
<1>1. faults \in Nat /\ fuse \in Nat
  BY Counters
<1> QED BY <1>1 DEF ChargedInv, Fault

LEMMA FlyCharges == Settled /\ Fly /\ UNCHANGED tries => Settled'
<1> SUFFICES ASSUME Settled, Fly, UNCHANGED tries PROVE Settled'
  OBVIOUS
<1>0. armed /\ UNCHANGED <<pc, res, mode>>
  BY DEF Fly, ClimbTo, MoveTo, Disarm, ComeDown, HeadFor
<1>1. pc = "ferry_down" => at' = at
  BY DEF Settled, Fly, ComeDown, ClimbTo, Disarm
<1> QED BY <1>0, <1>1 DEF Settled, Stranded

LEMMA ResetCharges ==
  SweepInv /\ ChargedInv /\ faults = fuse /\ SoftReset /\ UNCHANGED <<tries, fuse>>
    /\ faults' = fuse' => Settled'
<1> SUFFICES ASSUME SweepInv, ChargedInv, faults = fuse, SoftReset, UNCHANGED <<tries, fuse>>,
                    faults' = fuse'
             PROVE  Settled'
  OBVIOUS
<1>0. ~ Fault /\ Settled
  BY FaultIsLeft DEF ChargedInv
<1>1. CASE StartFerry
  BY <1>1 DEF StartFerry, Goes, Settled
<1>2. CASE ReturnToLaunch
  <2>1. tries = 1
    BY <1>0, <1>2, Counters DEF ReturnToLaunch, Settled
  <2> QED BY <1>2, <2>1 DEF ReturnToLaunch, Command, Goes, Settled
<1>3. CASE FerryArms
  BY <1>3 DEF FerryArms, Goes, Settled
<1>4. CASE FerryClimbed
  BY <1>4 DEF FerryClimbed, Goes, Settled
<1>5. CASE FerryArrived
  BY <1>5 DEF FerryArrived, Command, Goes, Settled
<1>6. CASE FerryDown
  BY <1>0, <1>6 DEF FerryDown, Goes, Settled, px4
<1>7. CASE VerifyOk
  BY <1>7 DEF VerifyOk, Goes, Settled
<1>8. CASE VerifyTimesOut
  <2>1. AtRest /\ ~ HomeClean /\ pc' = "over" /\ UNCHANGED px4
    BY <1>0, <1>8 DEF VerifyTimesOut, Return
  <2>2. alt = Ground \/ armed
    BY Counters
  <2>3. mode = "rtl" /\ tries = 1
    BY <1>0, <1>8, <2>1, <2>2 DEF VerifyTimesOut, Settled, HomeClean, Ground, Low
  <2>4. ~ armed
    BY <2>1, <2>3 DEF AtRest
  <2>5. at # Home
    BY <2>1, <2>2, <2>4 DEF HomeClean, Ground, Low
  <2>6. Stranded'
    BY <2>1, <2>4, <2>5 DEF Stranded, px4
  <2> QED BY <2>1, <2>3, <2>6 DEF Settled
<1>9. ~ (StartFerryBlind \/ RtlFails \/ FerryGivesUp)
  BY <1>0 DEF StartFerryBlind, RtlFails, FerryGivesUp
<1> QED BY <1>1, <1>2, <1>3, <1>4, <1>5, <1>6, <1>7, <1>8, <1>9 DEF SoftReset

(* A turn and what follows it end in a score unless a fault happens.        *)
LEMMA TurnCharges ==
  SweepInv /\ ChargedInv /\ (ToolCall \/ TurnOver \/ Judged) /\ UNCHANGED <<tries, fuse>>
    /\ faults' = fuse' => Settled'
<1> SUFFICES ASSUME SweepInv, ChargedInv, ToolCall \/ TurnOver \/ Judged,
                    UNCHANGED <<tries, fuse>>, faults' = fuse'
             PROVE  Settled'
  OBVIOUS
<1>0. ~ Fault
  BY FaultIsLeft
<1>1. CASE ToolCall
  BY <1>1 DEF ToolCall, ToolRefused, TakeOffArms, TakeOff, Face, Hover, Land, LandRefused, Goto,
              Orbit, Mission, ToolReturns, ToolErrs, MissionTimesOut, Calls, Settled
<1>2. CASE TurnOver
  BY <1>0, <1>2 DEF TurnOver, TurnEnds, TurnCut, TurnBreaks, Goes, Settled
<1>3. CASE Judged
  BY <1>0, <1>3 DEF Judged, WaitDisarmed, HoldsBeforeGrading, HoldFails, Grade, Goes, Return,
                    Settled
<1> QED BY <1>1, <1>2, <1>3

LEMMA FaultsGrow == SweepInv /\ CellNext => faults' \in Nat /\ faults <= faults'
<1> SUFFICES ASSUME SweepInv, CellNext PROVE faults' = faults \/ faults' = faults + 1
  BY Counters
<1>1. CASE Fly
  BY <1>1 DEF Fly
<1>2. CASE ToolCall
  BY <1>2 DEF ToolCall, ToolRefused, TakeOffArms, TakeOff, Face, Hover, Land, LandRefused, Goto,
              Orbit, Mission, ToolReturns, ToolErrs, MissionTimesOut, Calls
<1>3. CASE SoftReset
  BY <1>3 DEF SoftReset, StartFerry, StartFerryBlind, ReturnToLaunch, RtlFails, FerryArms,
              FerryClimbed, FerryArrived, FerryDown, FerryGivesUp, VerifyOk, VerifyTimesOut,
              Fault, NoFault
<1>4. CASE TurnOver \/ Judged
  BY <1>4 DEF TurnOver, TurnEnds, TurnCut, TurnBreaks, Judged, WaitDisarmed, HoldsBeforeGrading,
              HoldFails, Grade, Fault, NoFault
<1> QED BY <1>1, <1>2, <1>3, <1>4 DEF CellNext, CellStep

LEMMA CellCharges == SweepInv /\ ChargedInv /\ InCell(CellNext) => ChargedInv'
<1> SUFFICES ASSUME SweepInv, ChargedInv, CellNext, UNCHANGED sweepVars PROVE ChargedInv'
  BY DEF InCell
<1>1. UNCHANGED <<proc, cursor, tries, fuse, rows>>
  BY DEF sweepVars, files
<1>2. faults \in Nat /\ fuse \in Nat /\ faults' \in Nat /\ faults <= faults'
  BY Counters, FaultsGrow
<1>3. proc = "wrote" => pc' = "over" /\ Final'
  BY <1>1, OverFlies DEF ChargedInv, Fly, Final
<1>4. ASSUME faults' = fuse' PROVE Settled'
  <2>1. faults = fuse /\ Settled
    BY <1>1, <1>2, <1>4 DEF ChargedInv
  <2> QED BY <1>1, <1>4, <2>1, FlyCharges, ResetCharges, TurnCharges DEF CellNext, CellStep
<1>5. \A k \in KeySet' : \A i \in 1 .. Len(rows'[k]) : rows'[k][i] = "infra" => faults' > 0
  BY <1>1, <1>2 DEF ChargedInv, KeySet, Keys
<1> QED BY <1>1, <1>2, <1>3, <1>4, <1>5 DEF ChargedInv

LEMMA SweepCharges ==
  ASSUME Attempts >= 2, FuseLimit >= 2, SweepInv, ChargedInv, SweepStep \/ Kill \/ UNCHANGED vars
  PROVE  ChargedInv'
<1>0. /\ faults \in Nat /\ fuse \in Nat /\ tries \in Nat /\ KeySet' = KeySet
      /\ Attempts \in Nat /\ FuseLimit \in Nat
  BY Counters, SweepAssumption DEF KeySet, Keys
<1>1. CASE StartSweep
  <2>1. /\ proc' = "run" /\ fuse' = 0 /\ tries' = 0 /\ UNCHANGED <<cellVars, rows>>
        /\ pc = "over"
    BY <1>1 DEF StartSweep, files, SweepInv, SweepType
  <2>2. Settled'
    BY <2>1 DEF Settled, cellVars
  <2> QED BY <1>0, <2>1, <2>2 DEF ChargedInv, cellVars
<1>2. CASE Skip \/ Finish \/ UNCHANGED vars
  <2>1. /\ UNCHANGED <<cellVars, tries, fuse, rows>> /\ proc' \in {proc, "done", "off"}
    BY <1>2 DEF Skip, Finish, vars, sweepVars, files
  <2>2. Settled => Settled'
    BY <2>1 DEF Settled, Stranded, cellVars, px4
  <2> QED BY <1>0, <2>1, <2>2 DEF ChargedInv, Final, cellVars
<1>3. CASE RunCell
  <2>1. /\ pc = "over" /\ (tries = 0 \/ res = "infra") /\ tries' = tries + 1 /\ proc = "run"
        /\ pc' = "soft_reset" /\ UNCHANGED <<px4, faults, fuse, rows, proc>>
    BY <1>3 DEF RunCell, Attempt, files
  <2>2. Settled => Settled'
    BY <1>0, <2>1 DEF Settled, Stranded, px4
  <2> QED BY <1>0, <2>1, <2>2 DEF ChargedInv
<1>4. CASE ConnectFails
  <2>1. /\ Fault /\ proc = "run" /\ UNCHANGED <<fuse, rows, proc>>
    BY <1>4 DEF ConnectFails, Attempt, files
  <2>2. faults' = faults + 1
    BY <2>1 DEF Fault
  <2> QED BY <1>0, <2>1, <2>2 DEF ChargedInv
<1>5. CASE WriteRow
  <2>0. Final => res \in {"infra", "scored"}
    BY DEF Final
  <2>1. /\ pc = "over" /\ Final /\ tries > 0 /\ res \in {"infra", "scored"} /\ proc' = "wrote"
        /\ Key \in KeySet /\ rows' = [rows EXCEPT ![Key] = Append(@, res)]
        /\ UNCHANGED <<cellVars, tries, fuse>>
    BY <1>5, <2>0 DEF WriteRow, AtRow, SweepInv, CellInv, CellTypeOK, TriedInv, Key, KeySet
  <2>2. Settled => Settled'
    BY <2>1 DEF Settled, Stranded, cellVars, px4
  <2>3. res = "infra" => faults > 0
    BY <1>0, <2>1 DEF ChargedInv, Settled, Final
  <2>4. ASSUME NEW k \in KeySet, NEW i \in 1 .. Len(rows'[k]), rows'[k][i] = "infra"
        PROVE  faults > 0
    <3>1. rows[k] \in Seq({"infra", "scored"}) /\ rows \in [KeySet -> Seq({"infra", "scored"})]
      BY DEF SweepInv, SweepType
    <3>2. CASE k = Key
      <4>1. rows'[k] = Append(rows[k], res)
        BY <2>1, <3>1, <3>2
      <4>2. /\ Len(rows'[k]) = Len(rows[k]) + 1 /\ Len(rows[k]) \in Nat
            /\ \A j \in 1 .. Len(rows[k]) : rows'[k][j] = rows[k][j]
            /\ rows'[k][Len(rows[k]) + 1] = res
        BY <2>1, <3>1, <4>1, AppendProperties, LenProperties
      <4>3. CASE i \in 1 .. Len(rows[k])
        BY <2>4, <4>2, <4>3 DEF ChargedInv
      <4>4. CASE i = Len(rows[k]) + 1
        BY <2>3, <2>4, <4>2, <4>4
      <4> QED BY <4>2, <4>3, <4>4
    <3>3. CASE k # Key
      BY <2>1, <2>4, <3>1, <3>3 DEF ChargedInv
    <3> QED BY <3>2, <3>3
  <2> QED BY <1>0, <2>1, <2>2, <2>4 DEF ChargedInv, Final, cellVars
<1>6. CASE WriteTranscript
  <2>1. /\ proc = "wrote" /\ pc = "over" /\ Final /\ tries > 0 /\ fuse' = Blown /\ tries' = 0
        /\ proc' = (IF Blown >= FuseLimit THEN "abort" ELSE "run")
        /\ UNCHANGED <<cellVars, rows>>
    BY <1>6 DEF WriteTranscript, ChargedInv, SweepInv, TriedInv
  <2>2. res = "infra" => faults > fuse
    BY <1>0, <2>1 DEF ChargedInv, Settled, Final
  <2>3. Settled'
    BY <2>1 DEF Settled, cellVars
  <2>4. fuse' <= faults /\ fuse' \in Nat
    BY <1>0, <2>1, <2>2 DEF Blown
  <2> QED BY <1>0, <2>1, <2>3, <2>4 DEF ChargedInv, cellVars
<1>7. CASE GradeRaises \/ Kill
  <2>1. /\ proc' = "off" /\ pc' = "over" /\ res' = "none"
        /\ UNCHANGED <<faults, fuse, rows>>
    BY <1>7 DEF GradeRaises, Kill, Dies
  <2> QED BY <1>0, <2>1 DEF ChargedInv, Settled
<1> QED BY <1>1, <1>2, <1>3, <1>4, <1>5, <1>6, <1>7 DEF SweepStep

(* A drone left anywhere in any state costs no cell: a row fails only where *)
(* a call failed, and the fuse blows only on as many calls.  With a single  *)
(* attempt the first would not hold, with a fuse of one the second.         *)
THEOREM FailuresAreCharged ==
  ASSUME Attempts >= 2, FuseLimit >= 2 PROVE Spec => []RetryAbsorbs
<1>1. Init => ChargedInv
  <2> SUFFICES ASSUME Init PROVE ChargedInv
    OBVIOUS
  <2>1. fuse = 0 /\ faults = 0 /\ proc = "off" /\ pc = "over" /\ res = "none"
    BY DEF Init, CellInit
  <2>2. \A k \in KeySet : rows[k] = <<>>
    BY DEF Init
  <2> QED BY <2>1, <2>2 DEF ChargedInv, Settled
<1>2. SweepInv /\ ChargedInv /\ [Next]_vars => ChargedInv'
  BY CellCharges, SweepCharges DEF Next, StartRaises, Finished
<1>3. SweepInv /\ ChargedInv => RetryAbsorbs
  <2> SUFFICES ASSUME SweepInv, ChargedInv PROVE RetryAbsorbs
    OBVIOUS
  <2>1. faults \in Nat /\ fuse \in Nat /\ FuseLimit \in Nat
    BY Counters, SweepAssumption
  <2> QED BY <2>1 DEF ChargedInv, RetryAbsorbs
<1> QED BY <1>1, <1>2, <1>3, AlwaysSweep, PTL DEF Spec

-----------------------------------------------------------------------------
(* EvalOracle.  Its checks run through the samples; first, induction over   *)
(* an interval and the functions it defines.                                *)

LEMMA LeastOf ==
  ASSUME NEW S \in SUBSET Nat, S # {}
  PROVE  \E x \in S : \A y \in S : x <= y
<1> DEFINE T == {0 .. m : m \in S}
<1>1. T \subseteq FiniteSubsetsOf(Nat) /\ T # {}
  <2>1. ASSUME NEW m \in S PROVE 0 .. m \in FiniteSubsetsOf(Nat)
    <3>1. m \in Nat
      OBVIOUS
    <3>2. IsFiniteSet(0 .. m)
      BY <3>1, FS_Interval
    <3> QED BY <3>1, <3>2 DEF FiniteSubsetsOf
  <2> QED BY <2>1
<1>2. PICK s \in T : \A t \in T : <<t, s>> \notin StrictSubsetOrdering(Nat)
  <2> HIDE DEF T
  <2> QED BY <1>1, WFMin, FS_StrictSubsetOrderingWellFounded
<1>3. PICK x \in S : s = 0 .. x
  BY <1>2
<1>4. ASSUME NEW y \in S PROVE x <= y
  <2>1. x \in Nat /\ y \in Nat
    OBVIOUS
  <2>2. SUFFICES ASSUME y < x PROVE FALSE
    BY <2>1
  <2>3. 0 .. y \subseteq 0 .. x /\ x \in 0 .. x /\ x \notin 0 .. y
    BY <2>1, <2>2
  <2>4. <<0 .. y, 0 .. x>> \in StrictSubsetOrdering(Nat)
    <3>1. 0 .. y \in SUBSET Nat /\ 0 .. x \in SUBSET Nat
      BY <2>1
    <3>2. 0 .. y # 0 .. x
      BY <2>3
    <3> QED BY <2>3, <3>1, <3>2 DEF StrictSubsetOrdering
  <2>5. 0 .. y \in T
    OBVIOUS
  <2> QED BY <1>2, <1>3, <2>4, <2>5
<1> QED BY <1>4

LEMMA GreatestOf ==
  ASSUME NEW n \in Nat, NEW S \in SUBSET (0 .. n), S # {}
  PROVE  \E x \in S : \A y \in S : y <= x
<1> DEFINE B == {m \in Nat : \A y \in S : y <= m}
<1>1. n \in B
  OBVIOUS
<1>2. PICK x \in B : \A m \in B : x <= m
  BY <1>1, LeastOf
<1>3. x \in S
  <2>1. SUFFICES ASSUME x \notin S PROVE FALSE
    OBVIOUS
  <2>2. \A y \in S : y \in Nat /\ y < x
    BY <2>1
  <2>3. PICK z \in S : TRUE
    OBVIOUS
  <2>4. x - 1 \in B
    BY <2>2, <2>3
  <2> QED BY <1>2, <2>4
<1> QED BY <1>2, <1>3

LEMMA Inductive ==
  ASSUME NEW n \in Nat, NEW A, 0 \in A, \A k \in 1 .. n : k - 1 \in A => k \in A
  PROVE  0 .. n \subseteq A
<1> DEFINE S == {m \in 0 .. n : m \notin A}
<1>1. SUFFICES ASSUME S # {} PROVE FALSE
  OBVIOUS
<1>2. PICK x \in S : \A y \in S : x <= y
  <2>1. S \in SUBSET Nat
    OBVIOUS
  <2> HIDE DEF S
  <2> QED BY <1>1, <2>1, LeastOf
<1>3. x \in 1 .. n /\ x - 1 \in 0 .. n
  BY <1>2
<1>4. x - 1 \in A
  BY <1>2, <1>3
<1> QED BY <1>2, <1>3, <1>4

(* A function is defined by its first value and the step to each next one.  *)
LEMMA Recursion ==
  ASSUME NEW n \in Nat, NEW S, NEW base \in S, NEW step \in [1 .. n -> [S -> S]]
  PROVE  \E g \in [0 .. n -> S] : /\ g[0] = base
                                  /\ \A k \in 1 .. n : g[k] = step[k][g[k - 1]]
<1> DEFINE A == {m \in 0 .. n :
                   \E g \in [0 .. m -> S] : /\ g[0] = base
                                            /\ \A k \in 1 .. m : g[k] = step[k][g[k - 1]]}
<1>1. 0 \in A
  <2> DEFINE g == [k \in 0 .. 0 |-> base]
  <2>1. g \in [0 .. 0 -> S] /\ g[0] = base /\ \A k \in 1 .. 0 : g[k] = step[k][g[k - 1]]
    OBVIOUS
  <2> HIDE DEF g
  <2> QED BY <2>1
<1>2. ASSUME NEW m \in 1 .. n, m - 1 \in A PROVE m \in A
  <2>1. PICK g \in [0 .. m - 1 -> S] : /\ g[0] = base
                                       /\ \A k \in 1 .. m - 1 : g[k] = step[k][g[k - 1]]
    BY <1>2
  <2> DEFINE h == [k \in 0 .. m |-> IF k = m THEN step[m][g[m - 1]] ELSE g[k]]
  <2>2. h \in [0 .. m -> S]
    <3>1. step[m] \in [S -> S] /\ g[m - 1] \in S
      OBVIOUS
    <3>2. step[m][g[m - 1]] \in S
      BY <3>1
    <3> QED BY <3>2
  <2>3. h[0] = base
    BY <2>1
  <2>4. ASSUME NEW k \in 1 .. m PROVE h[k] = step[k][h[k - 1]]
    BY <2>1
  <2>5. m \in 0 .. n
    OBVIOUS
  <2> HIDE DEF h
  <2> QED BY <2>2, <2>3, <2>4, <2>5
<1> HIDE DEF A
<1>3. n \in A
  <2>1. 0 .. n \subseteq A
    BY <1>1, <1>2, Inductive
  <2> QED BY <2>1
<1> QED BY <1>3 DEF A

(* Min and Max are what their names say.                                    *)
LEMMA MinIs ==
  ASSUME NEW S \in SUBSET Nat, S # {}
  PROVE  Min(S) \in S /\ \A x \in S : Min(S) <= x
BY LeastOf DEF Min

LEMMA MaxIs ==
  ASSUME NEW n \in Nat, NEW S \in SUBSET (0 .. n), S # {}
  PROVE  Max(S) \in S /\ \A x \in S : x <= Max(S)
<1>1. PICK x \in S : \A y \in S : y <= x
  BY GreatestOf
<1>2. \A y \in S : x >= y
  BY <1>1
<1>3. Max(S) \in S /\ \A y \in S : Max(S) >= y
  BY <1>2 DEF Max
<1> QED BY <1>3
-----------------------------------------------------------------------------
(* The types: a track is in the order of its times.                         *)

Sampled ==
  /\ snaps \in Seq(Samples)
  /\ \A i \in Stamps : AtTime(i) \in 0 .. MaxTime
  /\ \A i, j \in Stamps : i < j => AtTime(i) < AtTime(j)

(* What flies was validated.                                                *)
JudgeInv ==
  /\ JudgeTypeOK
  /\ phase = "flying" => task.fields /\ task.checks \subseteq Checks

LEMMA JudgedSamples == JudgeTypeOK => Sampled
BY DEF JudgeTypeOK, Sampled

LEMMA StampsAre ==
  ASSUME snaps \in Seq(Samples)
  PROVE  /\ Len(snaps) \in Nat /\ Stamps = 1 .. Len(snaps)
         /\ \A i \in Stamps : /\ snaps[i] \in Samples /\ snaps[i].pos \in Fixes
                              /\ snaps[i].mov \in [Movers -> Fixes]
<1>1. Len(snaps) \in Nat /\ Stamps = 1 .. Len(snaps)
  BY LenProperties DEF Stamps
<1>2. ASSUME NEW i \in Stamps PROVE snaps[i] \in Samples
  BY <1>1, ElementOfSeq
<1> QED BY <1>1, <1>2 DEF Samples

(* One more sample.                                                         *)
LEMMA SampleAppends ==
  ASSUME Sampled, NEW tick \in Ticks, NEW dt \in 1 .. 2, Sample(tick, dt)
  PROVE  /\ snaps' \in Seq(Samples)
         /\ Len(snaps') = Len(snaps) + 1 /\ Stamps' = Stamps \cup {Len(snaps) + 1}
         /\ \A i \in Stamps : snaps'[i] = snaps[i]
         /\ snaps'[Len(snaps) + 1].pos = tick.pos
         /\ Sampled'
<1>1. PICK n \in Nat : n = Len(snaps) /\ Stamps = 1 .. n
  BY StampsAre DEF Sampled
<1> DEFINE t == IF snaps = <<>> THEN 0 ELSE Last(snaps).t + dt
           s == [t |-> t, pos |-> tick.pos, alt |-> tick.alt, mov |-> tick.mov]
<1>2. t <= MaxTime /\ snaps' = Append(snaps, s)
  BY DEF Sample
<1>3. t \in 0 .. MaxTime /\ \A i \in Stamps : AtTime(i) < t
  <2>1. CASE snaps = <<>>
    <3>1. n = 0
      BY <1>1, <2>1
    <3> QED BY <1>1, <2>1, <3>1, OracleAssumption
  <2>2. CASE snaps # <<>>
    <3>1. n \in Stamps
      BY <1>1, <2>2, EmptySeq DEF Sampled
    <3>2. t = AtTime(n) + dt
      BY <1>1, <2>2 DEF Last, AtTime
    <3>3. AtTime(n) \in 0 .. MaxTime /\ \A i \in Stamps : i < n => AtTime(i) < AtTime(n)
      BY <3>1 DEF Sampled
    <3>4. \A i \in Stamps : AtTime(i) \in 0 .. MaxTime
      BY DEF Sampled
    <3> HIDE DEF t
    <3>5. t \in 0 .. MaxTime /\ AtTime(n) < t
      BY <1>2, <3>2, <3>3, OracleAssumption
    <3>6. ASSUME NEW i \in Stamps PROVE AtTime(i) < t
      <4>1. i = n \/ AtTime(i) < AtTime(n)
        BY <1>1, <3>3
      <4>2. AtTime(i) \in Int /\ AtTime(n) \in Int /\ t \in Int
        BY <3>3, <3>4, <3>5, OracleAssumption
      <4> QED BY <3>5, <4>1, <4>2
    <3> QED BY <3>5, <3>6
  <2> QED BY <2>1, <2>2
<1>4. s \in Samples
  <2>1. tick \in Scenes
    BY OracleAssumption
  <2>2. t \in Nat
    BY <1>3, OracleAssumption
  <2> HIDE DEF t
  <2> QED BY <2>1, <2>2 DEF Scenes, Samples
<1> HIDE DEF t
<1>5. /\ snaps' \in Seq(Samples) /\ Len(snaps') = n + 1
      /\ \A i \in 1 .. n : snaps'[i] = snaps[i]
      /\ snaps'[n + 1] = s
  BY <1>1, <1>2, <1>4 DEF Sampled
<1>6. Stamps' = 1 .. n + 1
  <2>1. DOMAIN snaps' = 1 .. Len(snaps')
    BY <1>5, LenProperties
  <2> QED BY <1>5, <2>1 DEF Stamps
<1>7. \A i \in Stamps : AtTime(i)' = AtTime(i)
  BY <1>1, <1>5 DEF AtTime
<1>8. AtTime(n + 1)' = t
  <2>1. snaps'[n + 1].t = t
    BY <1>5
  <2> QED BY <2>1 DEF AtTime
<1>9. Sampled'
  <2>1. ASSUME NEW i \in 1 .. n + 1 PROVE AtTime(i)' \in 0 .. MaxTime
    <3>1. CASE i \in Stamps
      BY <1>7, <3>1 DEF Sampled
    <3>2. CASE i = n + 1
      BY <1>3, <1>8, <3>2
    <3> QED BY <1>1, <3>1, <3>2
  <2>2. ASSUME NEW i \in 1 .. n + 1, NEW j \in 1 .. n + 1, i < j
        PROVE  AtTime(i)' < AtTime(j)'
    <3>1. i \in Stamps
      BY <1>1, <2>2
    <3>2. CASE j \in Stamps
      BY <1>7, <2>2, <3>1, <3>2 DEF Sampled
    <3>3. CASE j = n + 1
      BY <1>3, <1>7, <1>8, <3>1, <3>3
    <3> QED BY <1>1, <3>2, <3>3
  <2> QED BY <1>5, <1>6, <2>1, <2>2 DEF Sampled
<1>10. snaps'[n + 1].pos = tick.pos
  BY <1>5
<1>11. Stamps' = Stamps \cup {n + 1}
  BY <1>1, <1>6
<1> QED BY <1>1, <1>5, <1>9, <1>10, <1>11

LEMMA LockTyped ==
  ASSUME NEW xy \in Fixes, NEW tick \in Ticks, NEW m \in Movers \cup {Nowhere},
         Associate(xy, tick, m), m # Nowhere
  PROVE  Dist(xy, tick.mov[m]) \in 0 .. MaxAssoc
<1>1. xy # Nowhere /\ m \in InGate(xy, tick)
  BY DEF Associate
<1>2. xy \in Points
  BY <1>1 DEF Fixes
<1>3. /\ m \in Movers /\ tick.mov[m] # Nowhere
      /\ Dist(xy, tick.mov[m]) <= MaxAssoc
  BY <1>1 DEF InGate
<1>4. tick.mov[m] \in Points
  <2>1. tick.mov \in [Movers -> Fixes]
    BY OracleAssumption DEF Scenes
  <2> QED BY <1>3, <2>1 DEF Fixes
<1> QED BY <1>2, <1>3, <1>4, OracleAssumption

LEMMA JudgeSteps == JudgeInv /\ [JudgeNext]_judgeVars => JudgeInv'
<1> SUFFICES ASSUME JudgeInv, [JudgeNext]_judgeVars PROVE JudgeInv'
  OBVIOUS
<1>0. Sampled /\ JudgeTypeOK
  BY JudgedSamples DEF JudgeInv
<1>1. CASE LoadTask
  BY <1>1 DEF LoadTask, JudgeInv, JudgeTypeOK, Stamps, AtTime
<1>2. ASSUME NEW tick \in Ticks, NEW dt \in 1 .. 2, Sample(tick, dt) PROVE JudgeInv'
  <2>1. Sampled' /\ Len(snaps') <= MaxSamples
    <3>1. Len(snaps') = Len(snaps) + 1 /\ Len(snaps) \in Nat
      BY <1>0, <1>2, SampleAppends, StampsAre DEF Sampled
    <3>2. Len(snaps) < MaxSamples
      BY <1>2 DEF Sample
    <3> QED BY <1>0, <1>2, <3>1, <3>2, SampleAppends, OracleAssumption
  <2>2. UNCHANGED <<phase, task, steps, lock, disarmed, verdict>> /\ phase = "flying"
    BY <1>2 DEF Sample
  <2> QED BY <2>1, <2>2 DEF JudgeInv, JudgeTypeOK, Sampled
<1>3. CASE PlainCall
  <2>1. steps' \in 0 .. MaxCalls
    BY <1>0, <1>3, OracleAssumption DEF PlainCall, JudgeTypeOK
  <2> QED BY <1>3, <2>1 DEF PlainCall, JudgeInv, JudgeTypeOK, Stamps, AtTime
<1>4. ASSUME NEW xy \in Fixes, NEW tick \in Ticks, NEW m \in Movers \cup {Nowhere},
             TargetCall(xy, tick, m)
      PROVE  JudgeInv'
  <2>1. steps' \in 0 .. MaxCalls
    BY <1>0, <1>4, OracleAssumption DEF TargetCall, JudgeTypeOK
  <2>2. lock' = Nowhere \/ (lock'.truth \in Movers \cup {Nowhere} /\ lock'.err \in 0 .. MaxAssoc)
    <3>1. CASE lock # Nowhere
      BY <1>0, <1>4, <3>1 DEF TargetCall, JudgeTypeOK
    <3>2. CASE lock = Nowhere
      <4> DEFINE e == IF m = Nowhere THEN 0 ELSE Dist(xy, tick.mov[m])
      <4>1. e \in 0 .. MaxAssoc
        BY <1>4, LockTyped, OracleAssumption DEF TargetCall
      <4>2. lock' = [truth |-> m, err |-> e]
        BY <1>4, <3>2 DEF TargetCall
      <4> QED BY <4>1, <4>2
    <3> QED BY <3>1, <3>2
  <2> QED BY <1>4, <2>1, <2>2 DEF TargetCall, JudgeInv, JudgeTypeOK, Stamps, AtTime
<1>5. ASSUME NEW down \in BOOLEAN, GradeTrack(down) PROVE JudgeInv'
  <2>1. verdict' \in BOOLEAN
    <3>1. (\A check \in task.checks : Passes(check, task.p)') \in BOOLEAN
      OBVIOUS
    <3> QED BY <1>0, <1>5, <3>1 DEF GradeTrack, JudgeTypeOK
  <2> QED BY <1>5, <2>1 DEF GradeTrack, JudgeInv, JudgeTypeOK, Stamps, AtTime
<1>6. CASE UNCHANGED judgeVars
  BY <1>6 DEF judgeVars, JudgeInv, JudgeTypeOK, Stamps, AtTime
<1> QED BY <1>1, <1>2, <1>3, <1>4, <1>5, <1>6 DEF JudgeNext

LEMMA AlwaysJudged == JudgeSpec => []JudgeInv
<1>1. JudgeInit => JudgeInv
  <2> SUFFICES ASSUME JudgeInit PROVE JudgeInv
    OBVIOUS
  <2>1. /\ snaps \in Seq(Samples) /\ Len(snaps) = 0 /\ Stamps = {}
    <3>1. snaps = <<>>
      BY DEF JudgeInit
    <3> QED BY <3>1, EmptySeq DEF Stamps
  <2>2. 0 \in 0 .. MaxCalls /\ 0 <= MaxSamples
    BY OracleAssumption
  <2> QED BY <2>1, <2>2 DEF JudgeInit, JudgeInv, JudgeTypeOK
<1> QED BY <1>1, JudgeSteps, PTL DEF JudgeSpec

(* For any task files and any scenes a poll may find, a track is in the     *)
(* order of its times, and nothing flies whose file lacks a field or names  *)
(* an unknown check.                                                        *)
THEOREM OracleTyped == JudgeSpec => []JudgeTypeOK
<1>1. JudgeInv => JudgeTypeOK
  BY DEF JudgeInv
<1> QED BY <1>1, AlwaysJudged, PTL
-----------------------------------------------------------------------------
(* The greedy chain of ordering.                                            *)

LEMMA ReachesAre ==
  ASSUME Sampled, NEW place, NEW tol, NEW after
  PROVE  LET hits == {j \in Stamps : AtTime(j) > after /\ Within(j, place, tol)}
         IN  IF hits = {} THEN FirstReach(place, tol, after) = MaxTime + 1
             ELSE /\ \E j \in hits : FirstReach(place, tol, after) = AtTime(j)
                  /\ \A j \in hits : FirstReach(place, tol, after) <= AtTime(j)
<1> DEFINE hits == {j \in Stamps : AtTime(j) > after /\ Within(j, place, tol)}
           times == {AtTime(i) : i \in hits}
<1>1. CASE hits = {}
  BY <1>1 DEF FirstReach
<1>2. CASE hits # {}
  <2>1. FirstReach(place, tol, after) = Min(times)
    BY <1>2 DEF FirstReach
  <2>2. times \in SUBSET Nat /\ times # {}
    BY <1>2, OracleAssumption DEF Sampled
  <2>3. Min(times) \in times /\ \A x \in times : Min(times) <= x
    BY <2>2, MinIs
  <2> QED BY <1>2, <2>1, <2>3
<1> QED BY <1>1, <1>2

LEMMA ChainIs ==
  ASSUME Sampled, NEW p \in Parameters
  PROVE  /\ Chain(p) \in [0 .. Len(p.targets) -> Int]
         /\ Chain(p)[0] = -1
         /\ \A k \in 1 .. Len(p.targets) :
              Chain(p)[k] = FirstReach(p.targets[k], p.tol_m, Chain(p)[k - 1])
<1> DEFINE n == Len(p.targets)
           Next1(c) == [k \in 0 .. n |-> IF k = 0 THEN -1
                                       ELSE FirstReach(p.targets[k], p.tol_m, c[k - 1])]
           step == [k \in 1 .. n |-> [after \in Int |->
                                        FirstReach(p.targets[k], p.tol_m, after)]]
<1>1. n \in Nat
  BY LenProperties DEF Parameters
<1>2. \A place, tol, after : FirstReach(place, tol, after) \in Int
  <2> TAKE place, tol, after
  <2>1. MaxTime + 1 \in Int /\ \A i \in Stamps : AtTime(i) \in Int
    BY OracleAssumption DEF Sampled
  <2> QED BY <2>1, ReachesAre
<1>3. step \in [1 .. n -> [Int -> Int]]
  BY <1>2
<1>4. PICK g \in [0 .. n -> Int] : g[0] = -1 /\ \A k \in 1 .. n : g[k] = step[k][g[k - 1]]
  <2>1. PICK S, b : S = Int /\ b = -1
    OBVIOUS
  <2> HIDE DEF step, n
  <2>2. step \in [1 .. n -> [S -> S]]
    BY <1>3, <2>1
  <2>3. \E g \in [0 .. n -> S] : g[0] = b /\ \A k \in 1 .. n : g[k] = step[k][g[k - 1]]
    <3>1. b \in S
      BY <2>1
    <3> QED BY <1>1, <2>2, <3>1, Recursion
  <2> QED BY <2>1, <2>3
<1>5. \A k \in 1 .. n : g[k] = FirstReach(p.targets[k], p.tol_m, g[k - 1])
  <2>1. TAKE k \in 1 .. n
  <2>2. k - 1 \in 0 .. n
    BY <1>1
  <2>3. g[k - 1] \in Int
    BY <2>2
  <2> QED BY <1>4, <2>3
<1>6. g = Next1(g)
  <2> HIDE DEF n, step
  <2> QED BY <1>1, <1>4, <1>5
<1>7. PICK c : c = Chain(p) /\ c = Next1(c)
  <2>1. Chain(p) = CHOOSE c : c = Next1(c)
    BY DEF Chain
  <2> HIDE DEF Next1
  <2> QED BY <1>6, <2>1
<1>8. c[0] = -1 /\ \A k \in 1 .. n : c[k] = FirstReach(p.targets[k], p.tol_m, c[k - 1])
  <2>1. c = [k \in 0 .. n |-> IF k = 0 THEN -1
                              ELSE FirstReach(p.targets[k], p.tol_m, c[k - 1])]
    BY <1>7
  <2> HIDE DEF n, Next1
  <2>2. 0 \in 0 .. n /\ \A k \in 1 .. n : k \in 0 .. n /\ k # 0
    BY <1>1
  <2> QED BY <2>1, <2>2
<1>9. c \in [0 .. n -> Int]
  <2>1. ASSUME NEW k \in 0 .. n PROVE (IF k = 0 THEN -1
                                       ELSE FirstReach(p.targets[k], p.tol_m, c[k - 1])) \in Int
    BY <1>2
  <2> QED BY <1>7, <2>1
<1> QED BY <1>7, <1>8, <1>9

(* The links of the chain, without its function.                            *)
LEMMA ChainLinks ==
  ASSUME Sampled, NEW p \in Parameters, NEW k \in 1 .. Len(p.targets)
  PROVE  /\ Chain(p)[k] \in Int /\ Chain(p)[k - 1] \in Int
         /\ Chain(p)[k] <= MaxTime =>
              \E j \in Stamps : /\ Chain(p)[k] = AtTime(j) /\ AtTime(j) > Chain(p)[k - 1]
                                /\ Within(j, p.targets[k], p.tol_m)
         /\ \A j \in Stamps : AtTime(j) > Chain(p)[k - 1] /\ Within(j, p.targets[k], p.tol_m)
              => Chain(p)[k] <= AtTime(j)
<1>0. Len(p.targets) \in Nat
  BY LenProperties DEF Parameters
<1>1. PICK c : c = Chain(p)
  OBVIOUS
<1>2. c[k] \in Int /\ c[k - 1] \in Int
  <2>1. k \in 0 .. Len(p.targets) /\ k - 1 \in 0 .. Len(p.targets)
    BY <1>0
  <2> QED BY <1>1, <2>1, ChainIs
<1>3. c[k] = FirstReach(p.targets[k], p.tol_m, c[k - 1])
  BY <1>1, ChainIs
<1> DEFINE hits == {j \in Stamps : AtTime(j) > c[k - 1] /\ Within(j, p.targets[k], p.tol_m)}
<1>4. CASE hits = {}
  <2>1. c[k] = MaxTime + 1
    BY <1>3, <1>4, ReachesAre
  <2>2. ~ (c[k] <= MaxTime)
    BY <2>1, OracleAssumption
  <2> QED BY <1>1, <1>2, <1>4, <2>2
<1>5. CASE hits # {}
  <2>1. /\ \E j \in hits : c[k] = AtTime(j)
        /\ \A j \in hits : c[k] <= AtTime(j)
    BY <1>3, <1>5, ReachesAre
  <2> QED BY <1>1, <1>2, <2>1
<1> QED BY <1>4, <1>5

LEMMA LaterIsLater ==
  ASSUME Sampled, NEW i \in Stamps, NEW j \in Stamps
  PROVE  /\ i \in Nat /\ j \in Nat /\ AtTime(i) \in Nat /\ AtTime(j) \in Nat
         /\ AtTime(i) <= MaxTime
         /\ i < j <=> AtTime(i) < AtTime(j)
<1>1. i \in Nat /\ j \in Nat
  BY StampsAre DEF Sampled
<1>2. AtTime(i) \in Nat /\ AtTime(j) \in Nat /\ AtTime(i) <= MaxTime
  BY OracleAssumption DEF Sampled
<1>3. i < j => AtTime(i) < AtTime(j)
  BY DEF Sampled
<1>4. j < i => AtTime(j) < AtTime(i)
  BY DEF Sampled
<1>5. i = j \/ i < j \/ j < i
  BY <1>1
<1> QED BY <1>1, <1>2, <1>3, <1>4, <1>5

Visits(p) ==
  \E visit \in [DOMAIN p.targets -> Stamps] :
    /\ \A k \in DOMAIN p.targets : Within(visit[k], p.targets[k], p.tol_m)
    /\ \A k, l \in DOMAIN p.targets : k < l => visit[k] < visit[l]

(* What the chain finds is a way of visiting the stops in order.            *)
LEMMA ChainVisits == ASSUME Sampled, NEW p \in Parameters, Ordering(p) PROVE Visits(p)
<1>1. PICK n \in Nat : n = Len(p.targets) /\ DOMAIN p.targets = 1 .. n
  BY LenProperties DEF Parameters
<1>2. PICK c : c = Chain(p)
  OBVIOUS
<1>3. \A k \in 0 .. n : c[k] \in Int
  BY <1>1, <1>2, ChainIs
<1>4. \A k \in 1 .. n : c[k] <= MaxTime =>
        \E j \in Stamps : /\ c[k] = AtTime(j) /\ AtTime(j) > c[k - 1]
                          /\ Within(j, p.targets[k], p.tol_m)
  BY <1>1, <1>2, ChainLinks
<1>5. \A k \in 0 .. n : c[k] <= MaxTime
  <2> DEFINE A == {m \in 0 .. n : c[n - m] <= MaxTime}
  <2>1. 0 \in A
    BY <1>1, <1>2 DEF Ordering
  <2>2. ASSUME NEW m \in 1 .. n, m - 1 \in A PROVE m \in A
    <3>1. n - m + 1 \in 1 .. n /\ n - m \in 0 .. n /\ n - (m - 1) = n - m + 1
      BY <1>1
    <3>2. c[n - m + 1] <= MaxTime
      BY <2>2, <3>1
    <3>3. PICK j \in Stamps : c[n - m + 1] = AtTime(j) /\ AtTime(j) > c[n - m + 1 - 1]
      BY <1>4, <3>1, <3>2
    <3>4. n - m + 1 - 1 = n - m /\ c[n - m] \in Int
      BY <1>3, <3>1
    <3>5. AtTime(j) \in Nat /\ AtTime(j) <= MaxTime
      BY LaterIsLater
    <3> QED BY <3>1, <3>3, <3>4, <3>5, OracleAssumption
  <2>3. 0 .. n \subseteq A
    <3> HIDE DEF A
    <3> QED BY <2>1, <2>2, Inductive
  <2>4. ASSUME NEW k \in 0 .. n PROVE c[k] <= MaxTime
    <3>1. n - k \in 0 .. n /\ n - (n - k) = k
      OBVIOUS
    <3> QED BY <2>3, <3>1
  <2> QED BY <2>4
<1> DEFINE Stop(k, j) == /\ c[k] = AtTime(j) /\ AtTime(j) > c[k - 1]
                         /\ Within(j, p.targets[k], p.tol_m)
           visit == [k \in 1 .. n |-> CHOOSE j \in Stamps : Stop(k, j)]
<1>6. \A k \in 1 .. n : visit[k] \in Stamps /\ Stop(k, visit[k])
  <2>1. TAKE k \in 1 .. n
  <2>2. \E j \in Stamps : Stop(k, j)
    BY <1>4, <1>5
  <2> HIDE DEF Stop
  <2> QED BY <2>2
<1>7. \A l \in 0 .. n : \A k \in 0 .. l - 1 : c[k] < c[l]
  <2> DEFINE A == {l \in 0 .. n : \A k \in 0 .. l - 1 : c[k] < c[l]}
  <2>1. 0 \in A
    OBVIOUS
  <2>2. ASSUME NEW l \in 1 .. n, l - 1 \in A PROVE l \in A
    <3>1. c[l - 1] < c[l] /\ c[l] \in Int /\ c[l - 1] \in Int
      <4>1. l \in 0 .. n /\ l - 1 \in 0 .. n
        OBVIOUS
      <4> QED BY <1>3, <1>6, <4>1
    <3>2. ASSUME NEW k \in 0 .. l - 1 PROVE c[k] < c[l]
      <4>1. k = l - 1 \/ k \in 0 .. l - 1 - 1
        OBVIOUS
      <4>2. c[k] \in Int
        BY <1>3
      <4> QED BY <2>2, <3>1, <4>1, <4>2
    <3> QED BY <3>2
  <2>3. 0 .. n \subseteq A
    <3> HIDE DEF A
    <3> QED BY <2>1, <2>2, Inductive
  <2> QED BY <2>3
<1> HIDE DEF visit
<1>8. ASSUME NEW k \in 1 .. n, NEW l \in 1 .. n, k < l PROVE visit[k] < visit[l]
  <2>1. k \in 0 .. l - 1 /\ l \in 0 .. n
    BY <1>8
  <2>2. c[k] < c[l]
    BY <1>7, <2>1
  <2> QED BY <1>6, <2>2, LaterIsLater
<1>9. visit \in [1 .. n -> Stamps]
  BY <1>6 DEF visit
<1>10. \A k \in DOMAIN p.targets : Within(visit[k], p.targets[k], p.tol_m)
  BY <1>1, <1>6
<1> HIDE DEF Stop
<1> QED BY <1>1, <1>8, <1>9, <1>10 DEF Visits

(* And it misses none: every stop is reached no later than on any way.      *)
LEMMA VisitsChain == ASSUME Sampled, NEW p \in Parameters, Visits(p) PROVE Ordering(p)
<1>1. PICK n \in Nat : n = Len(p.targets) /\ DOMAIN p.targets = 1 .. n
  BY LenProperties DEF Parameters
<1>2. PICK c : c = Chain(p)
  OBVIOUS
<1>3. PICK visit \in [1 .. n -> Stamps] :
        /\ \A k \in 1 .. n : Within(visit[k], p.targets[k], p.tol_m)
        /\ \A k, l \in 1 .. n : k < l => visit[k] < visit[l]
  BY <1>1 DEF Visits
<1>4. c[0] = -1 /\ \A k \in 0 .. n : c[k] \in Int
  BY <1>1, <1>2, ChainIs
<1> DEFINE A == {k \in 0 .. n : /\ c[k] <= MaxTime
                                /\ k > 0 => c[k] <= AtTime(visit[k])}
<1>5. 0 \in A
  BY <1>4, OracleAssumption
<1>6. ASSUME NEW k \in 1 .. n, k - 1 \in A PROVE k \in A
  <2>1. visit[k] \in Stamps /\ AtTime(visit[k]) \in Nat /\ AtTime(visit[k]) <= MaxTime
    BY <1>3, LaterIsLater
  <2>2. AtTime(visit[k]) > c[k - 1]
    <3>1. CASE k = 1
      BY <1>4, <2>1, <3>1
    <3>2. CASE k # 1
      <4>1. k - 1 \in 1 .. n /\ k - 1 < k
        BY <3>2
      <4>2. visit[k - 1] \in Stamps /\ visit[k - 1] < visit[k]
        BY <1>3, <4>1
      <4>3. AtTime(visit[k - 1]) < AtTime(visit[k]) /\ AtTime(visit[k - 1]) \in Nat
        BY <2>1, <4>2, LaterIsLater
      <4>4. c[k - 1] <= AtTime(visit[k - 1]) /\ c[k - 1] \in Int
        BY <1>4, <1>6, <4>1
      <4> QED BY <2>1, <4>3, <4>4
    <3> QED BY <3>1, <3>2
  <2>3. c[k] <= AtTime(visit[k])
    BY <1>1, <1>2, <1>3, <2>1, <2>2, ChainLinks
  <2>4. c[k] \in Int /\ k \in 0 .. n
    BY <1>4
  <2> QED BY <2>1, <2>3, <2>4, OracleAssumption
<1>7. 0 .. n \subseteq A
  <2> HIDE DEF A
  <2> QED BY <1>5, <1>6, Inductive
<1> QED BY <1>1, <1>2, <1>7 DEF Ordering

LEMMA ExactOrdering == Sampled => OrderingIsExact
<1> SUFFICES ASSUME Sampled, NEW p \in Params
             PROVE  Ordering(p) <=> Visits(p)
  BY DEF OrderingIsExact, Visits
<1>1. p \in Parameters
  BY OracleAssumption DEF Params
<1> QED BY <1>1, ChainVisits, VisitsChain

(* For any stops, any tolerance and any track, the greedy chain of the      *)
(* ordering check finds a way of visiting the stops in their order exactly  *)
(* if there is one.                                                         *)
THEOREM GreedyChainIsExact == JudgeSpec => []OrderingIsExact
<1>1. JudgeInv => OrderingIsExact
  BY JudgedSamples, ExactOrdering DEF JudgeInv
<1> QED BY <1>1, AlwaysJudged, PTL

-----------------------------------------------------------------------------
(* The runs of samples held.                                                *)

Running == [start : Int, gap : Nat, best : Int]

LEMMA RunsStep ==
  ASSUME NEW run \in Running, NEW forgiven \in Nat, NEW t \in Int
  PROVE  NoRun \in Running /\ Out(run, forgiven) \in Running /\ In(run, t) \in Running
<1>1. NoRun \in Running
  BY DEF NoRun, Running
<1>2. run.start \in Int /\ run.gap \in Nat /\ run.best \in Int
  BY DEF Running
<1>4. Out(run, forgiven) \in Running
  BY <1>2 DEF Running, Out
<1>5. In(run, t) \in Running
  BY DEF In, Running
<1> QED BY <1>1, <1>4, <1>5

LEMMA RunsAre ==
  ASSUME Sampled, NEW looked, NEW held, NEW forgiven \in Nat
  PROVE  LET run == Runs(looked, held, forgiven)
         IN  /\ run[0] = NoRun
             /\ \A k \in 0 .. Len(snaps) : run[k] \in Running
             /\ \A k \in 1 .. Len(snaps) :
                  /\ k \notin looked => run[k] = run[k - 1]
                  /\ k \in looked /\ k \in held => run[k] = In(run[k - 1], AtTime(k))
                  /\ k \in looked /\ k \notin held => run[k] = Out(run[k - 1], forgiven)
<1>1. PICK n \in Nat : n = Len(snaps) /\ Stamps = 1 .. n
  BY StampsAre DEF Sampled
<1> DEFINE Next1(run) == [k \in 0 .. n |->
             IF k = 0 THEN NoRun
             ELSE IF k \notin looked THEN run[k - 1]
             ELSE IF k \in held THEN In(run[k - 1], AtTime(k)) ELSE Out(run[k - 1], forgiven)]
           Taken(k, run) == IF k \notin looked THEN run
                            ELSE IF k \in held THEN In(run, AtTime(k)) ELSE Out(run, forgiven)
           step == [k \in 1 .. n |-> [run \in Running |-> Taken(k, run)]]
<1>2. \A k \in 1 .. n : \A run \in Running : Taken(k, run) \in Running
  <2> TAKE k \in 1 .. n
  <2> TAKE run \in Running
  <2>1. AtTime(k) \in Int
    BY <1>1, OracleAssumption DEF Sampled
  <2> QED BY <2>1, RunsStep
<1>3. step \in [1 .. n -> [Running -> Running]]
  <2> HIDE DEF Taken
  <2> QED BY <1>2
<1>4. NoRun \in Running
  BY DEF NoRun, Running
<1>5. PICK g \in [0 .. n -> Running] : g[0] = NoRun /\ \A k \in 1 .. n : g[k] = step[k][g[k - 1]]
  <2> HIDE DEF step
  <2> QED BY <1>1, <1>3, <1>4, Recursion
<1>6. \A k \in 1 .. n : g[k] = Taken(k, g[k - 1])
  <2> HIDE DEF Taken
  <2> TAKE k \in 1 .. n
  <2>1. g[k - 1] \in Running
    BY <1>1
  <2> QED BY <1>5, <2>1
<1>7. g = Next1(g)
  <2> HIDE DEF step
  <2> QED BY <1>1, <1>5, <1>6
<1>8. PICK c : c = Runs(looked, held, forgiven) /\ c = Next1(c)
  <2>1. Runs(looked, held, forgiven) = CHOOSE c : c = Next1(c)
    BY <1>1 DEF Runs
  <2> HIDE DEF Next1
  <2> QED BY <1>7, <2>1
<1>9. c[0] = NoRun /\ \A k \in 1 .. n : c[k] = Taken(k, c[k - 1])
  <2>1. c = [k \in 0 .. n |-> IF k = 0 THEN NoRun ELSE Taken(k, c[k - 1])]
    BY <1>8
  <2> HIDE DEF Next1, Taken
  <2>2. 0 \in 0 .. n /\ \A k \in 1 .. n : k \in 0 .. n /\ k # 0
    BY <1>1
  <2> QED BY <2>1, <2>2
<1>10. \A k \in 0 .. n : c[k] \in Running
  <2> DEFINE A == {k \in 0 .. n : c[k] \in Running}
  <2>1. 0 \in A
    BY <1>1, <1>4, <1>9
  <2>2. ASSUME NEW k \in 1 .. n, k - 1 \in A PROVE k \in A
    <3> HIDE DEF Taken
    <3> QED BY <1>1, <1>2, <1>9, <2>2
  <2>3. 0 .. n \subseteq A
    <3> HIDE DEF A
    <3> QED BY <1>1, <2>1, <2>2, Inductive
  <2> QED BY <2>3
<1> HIDE DEF Next1
<1> QED BY <1>1, <1>8, <1>9, <1>10

(* A hold, one sample longer and one hold shorter.                          *)
LEMMA HoldBegins ==
  ASSUME NEW held \in SUBSET Nat, NEW forgiven \in Nat, NEW k \in held
  PROVE  Unbroken(k, k, held, forgiven)
<1>1. k \in Nat
  OBVIOUS
<1>2. ASSUME NEW m \in k .. k - forgiven PROVE held \cap (m .. m + forgiven) # {}
  <2>1. m = k /\ k \in m .. m + forgiven
    BY <1>1
  <2> QED BY <2>1
<1> QED BY <1>1, <1>2 DEF Unbroken

LEMMA HoldGoesOn ==
  ASSUME NEW held \in SUBSET Nat, NEW forgiven \in Nat,
         NEW i \in held, NEW j \in held, NEW k \in held,
         Unbroken(i, j, held, forgiven), j < k, k - j <= forgiven + 1
  PROVE  Unbroken(i, k, held, forgiven)
<1>1. i \in Nat /\ j \in Nat /\ k \in Nat /\ i <= j
  BY DEF Unbroken
<1>2. ASSUME NEW m \in i .. k - forgiven PROVE held \cap (m .. m + forgiven) # {}
  <2>1. CASE m <= j - forgiven
    <3>1. m \in i .. j - forgiven
      BY <1>1, <2>1
    <3> QED BY <3>1 DEF Unbroken
  <2>2. CASE ~ (m <= j - forgiven)
    <3>1. j \in m .. m + forgiven \/ k \in m .. m + forgiven
      BY <1>1, <2>2
    <3> QED BY <3>1
  <2> QED BY <2>1, <2>2
<1> QED BY <1>1, <1>2 DEF Unbroken

LEMMA HoldWentOn ==
  ASSUME NEW held \in SUBSET Nat, NEW forgiven \in Nat,
         NEW i \in held, NEW j \in held, NEW k \in held,
         Unbroken(i, k, held, forgiven), i <= j, j < k,
         \A m \in j + 1 .. k - 1 : m \notin held
  PROVE  Unbroken(i, j, held, forgiven) /\ k - j <= forgiven + 1
<1>1. i \in Nat /\ j \in Nat /\ k \in Nat
  OBVIOUS
<1>2. k - j <= forgiven + 1
  <2>1. SUFFICES ASSUME k - j > forgiven + 1 PROVE FALSE
    BY <1>1
  <2>2. j + 1 \in i .. k - forgiven
    BY <1>1, <2>1
  <2>3. PICK m \in held : m \in j + 1 .. j + 1 + forgiven
    BY <2>2 DEF Unbroken
  <2>4. m \in j + 1 .. k - 1
    BY <1>1, <2>1, <2>3
  <2> QED BY <2>3, <2>4
<1>3. \A m \in i .. j - forgiven : m \in i .. k - forgiven
  BY <1>1
<1>4. \A m \in i .. k - forgiven : held \cap (m .. m + forgiven) # {}
  BY DEF Unbroken
<1>5. {i, j} \subseteq held /\ i <= j
  OBVIOUS
<1> QED BY <1>2, <1>3, <1>4, <1>5 DEF Unbroken

LEMMA SpansAre ==
  ASSUME Sampled, NEW held \in SUBSET Stamps, NEW forgiven \in Nat
  PROVE  \A x : x \in Spans(held, forgiven) <=>
           \E i, j \in held : /\ Unbroken(i, j, held, forgiven)
                              /\ x = AtTime(j) - AtTime(i)
<1> TAKE x
<1>1. ASSUME x \in Spans(held, forgiven)
      PROVE  \E i, j \in held : Unbroken(i, j, held, forgiven) /\ x = AtTime(j) - AtTime(i)
  <2>1. PICK ij \in Stamps \X Stamps : /\ Unbroken(ij[1], ij[2], held, forgiven)
                                       /\ x = AtTime(ij[2]) - AtTime(ij[1])
    BY <1>1 DEF Spans
  <2>2. ij[1] \in held /\ ij[2] \in held
    BY <2>1 DEF Unbroken
  <2> QED BY <2>1, <2>2
<1>2. ASSUME NEW i \in held, NEW j \in held, Unbroken(i, j, held, forgiven),
             x = AtTime(j) - AtTime(i)
      PROVE  x \in Spans(held, forgiven)
  <2>1. PICK ij : ij = <<i, j>>
    OBVIOUS
  <2>2. ij \in Stamps \X Stamps /\ ij[1] = i /\ ij[2] = j
    BY <2>1
  <2> QED BY <1>2, <2>2 DEF Spans
<1> QED BY <1>1, <1>2

(* After k samples: the run goes back to where an unbroken hold up to its   *)
(* last sample held, gap samples ago, first began; without a run no hold    *)
(* can be taken up again; the best is that of the holds so far.             *)
RunHolds(run, k, held, forgiven) ==
  /\ run.start >= 0 => \E i, j \in held :
       /\ j = k - run.gap /\ run.gap <= forgiven
       /\ \A m \in held : m <= k => m <= j
       /\ Unbroken(i, j, held, forgiven) /\ run.start = AtTime(i)
       /\ \A h \in held : Unbroken(h, j, held, forgiven) => i <= h
  /\ run.start < 0 => \A j \in held : j <= k => k - j > forgiven
  /\ \A i, j \in held :
       j <= k /\ Unbroken(i, j, held, forgiven) => AtTime(j) - AtTime(i) <= run.best
  /\ run.best = 0 \/ \E i, j \in held :
       j <= k /\ Unbroken(i, j, held, forgiven) /\ run.best = AtTime(j) - AtTime(i)
  /\ run.best >= 0

(* A sample that is held takes the run on, or begins one.                   *)
LEMMA HeldOn ==
  ASSUME Sampled, NEW held \in SUBSET Stamps, NEW forgiven \in Nat,
         NEW k \in held, NEW run \in Running, RunHolds(run, k - 1, held, forgiven)
  PROVE  RunHolds(In(run, AtTime(k)), k, held, forgiven)
<1> DEFINE s == IF run.start < 0 THEN AtTime(k) ELSE run.start
           b == IF AtTime(k) - s > run.best THEN AtTime(k) - s ELSE run.best
<1>1. held \in SUBSET Nat /\ k \in Nat
  BY StampsAre DEF Sampled
<1>2. run.start \in Int /\ run.gap \in Nat /\ run.best \in Int /\ run.best >= 0
  BY DEF Running, RunHolds
<1>3. In(run, AtTime(k)) = [start |-> s, gap |-> 0, best |-> b]
  BY DEF In
<1>4. \A i \in held : AtTime(i) \in Nat
  BY LaterIsLater
<1>5. \A i, j \in held : i <= j => AtTime(i) <= AtTime(j)
  <2> TAKE i, j \in held
  <2>1. i \in Stamps /\ j \in Stamps
    OBVIOUS
  <2>2. /\ i \in Nat /\ j \in Nat /\ AtTime(i) \in Nat /\ AtTime(j) \in Nat
        /\ i < j <=> AtTime(i) < AtTime(j)
        /\ i = j => AtTime(i) = AtTime(j)
    BY <2>1, LaterIsLater
  <2> QED BY <2>2
<1>6. \E i \in held : /\ s = AtTime(i) /\ Unbroken(i, k, held, forgiven)
                      /\ \A h \in held : Unbroken(h, k, held, forgiven) => i <= h
  <2>1. CASE run.start < 0
    <3>1. ASSUME NEW h \in held, Unbroken(h, k, held, forgiven) PROVE k <= h
      <4>1. SUFFICES ASSUME h < k PROVE FALSE
        BY <1>1
      <4> DEFINE before == {m \in held : m < k}
      <4>2. PICK j \in before : \A m \in before : m <= j
        <5>1. before \in SUBSET (0 .. k)
          <6>1. \A m \in held : m < k => m \in 0 .. k
            BY <1>1
          <6> QED BY <6>1
        <5>2. h \in before
          BY <4>1
        <5> HIDE DEF before
        <5> QED BY <1>1, <5>1, <5>2, GreatestOf
      <4>3. h <= j /\ j < k /\ j \in held /\ \A m \in j + 1 .. k - 1 : m \notin held
        BY <1>1, <4>1, <4>2
      <4>4. k - j <= forgiven + 1
        BY <1>1, <3>1, <4>3, HoldWentOn
      <4>5. k - 1 - j > forgiven
        BY <1>1, <2>1, <4>3 DEF RunHolds
      <4> QED BY <1>1, <4>3, <4>4, <4>5
    <3> QED BY <1>1, <2>1, <3>1, HoldBegins
  <2>2. CASE ~ (run.start < 0)
    <3>1. PICK i \in held, j \in held :
            /\ j = k - 1 - run.gap /\ run.gap <= forgiven
            /\ \A m \in held : m <= k - 1 => m <= j
            /\ Unbroken(i, j, held, forgiven) /\ run.start = AtTime(i)
            /\ \A h \in held : Unbroken(h, j, held, forgiven) => i <= h
      BY <1>2, <2>2 DEF RunHolds
    <3>2. i \in Nat /\ j \in Nat /\ i <= j /\ j < k /\ k - j <= forgiven + 1
      BY <1>1, <1>2, <3>1 DEF Unbroken
    <3>3. Unbroken(i, k, held, forgiven)
      BY <1>1, <3>1, <3>2, HoldGoesOn
    <3>4. ASSUME NEW h \in held, Unbroken(h, k, held, forgiven) PROVE i <= h
      <4>1. CASE h = k
        BY <1>1, <3>2, <4>1
      <4>2. CASE h # k
        <5>1. h \in Nat /\ h <= k - 1
          BY <1>1, <3>4, <4>2 DEF Unbroken
        <5>2. h <= j /\ \A m \in j + 1 .. k - 1 : m \notin held
          BY <1>1, <3>1, <3>2, <5>1
        <5>3. Unbroken(h, j, held, forgiven)
          BY <1>1, <3>2, <3>4, <5>2, HoldWentOn
        <5> QED BY <3>1, <5>3
      <4> QED BY <4>1, <4>2
    <3> QED BY <2>2, <3>1, <3>3, <3>4
  <2> QED BY <2>1, <2>2
<1>7. PICK i \in held : /\ s = AtTime(i) /\ Unbroken(i, k, held, forgiven)
                        /\ \A h \in held : Unbroken(h, k, held, forgiven) => i <= h
  BY <1>6
<1> HIDE DEF s
<1>8. s \in Nat /\ AtTime(k) \in Nat /\ s <= AtTime(k) /\ b \in Int /\ b >= run.best
      /\ b >= AtTime(k) - s
  <2>1. i <= k
    BY <1>7 DEF Unbroken
  <2> QED BY <1>2, <1>4, <1>5, <1>7, <2>1
<1>9. b = AtTime(k) - s \/ b = run.best
  OBVIOUS
<1> HIDE DEF b
<1>10. ASSUME NEW g \in held, NEW j \in held, j <= k, Unbroken(g, j, held, forgiven)
       PROVE  AtTime(j) - AtTime(g) <= b
  <2>1. AtTime(j) \in Nat /\ AtTime(g) \in Nat
    BY <1>4
  <2>2. CASE j = k
    <3>1. i <= g
      BY <1>7, <1>10, <2>2
    <3>2. s <= AtTime(g)
      BY <1>5, <1>7, <3>1
    <3> QED BY <1>8, <2>1, <2>2, <3>2
  <2>3. CASE j # k
    <3>1. j <= k - 1
      BY <1>1, <1>10, <2>3
    <3>2. AtTime(j) - AtTime(g) <= run.best
      BY <1>10, <3>1 DEF RunHolds
    <3> QED BY <1>2, <1>8, <2>1, <3>2
  <2> QED BY <2>2, <2>3
<1>11. b = 0 \/ \E g, j \in held :
         j <= k /\ Unbroken(g, j, held, forgiven) /\ b = AtTime(j) - AtTime(g)
  <2>1. CASE b = AtTime(k) - s
    BY <1>1, <1>7, <2>1
  <2>2. CASE b = run.best
    <3>1. \A j \in held : j <= k - 1 => j <= k
      BY <1>1
    <3> QED BY <2>2, <3>1 DEF RunHolds
  <2> QED BY <1>9, <2>1, <2>2
<1>12. k = k - 0 /\ 0 <= forgiven /\ ~ (s < 0) /\ b >= 0
  BY <1>1, <1>2, <1>8
<1>13. PICK new : new = In(run, AtTime(k)) /\ new.start = s /\ new.gap = 0 /\ new.best = b
  BY <1>3
<1>14. RunHolds(new, k, held, forgiven)
  BY <1>7, <1>10, <1>11, <1>12, <1>13 DEF RunHolds
<1> QED BY <1>13, <1>14

(* One that is not either leaves it to the next or ends it.                 *)
LEMMA MissedOut ==
  ASSUME Sampled, NEW held \in SUBSET Stamps, NEW forgiven \in Nat,
         NEW k \in Stamps, k \notin held, NEW run \in Running,
         RunHolds(run, k - 1, held, forgiven)
  PROVE  RunHolds(Out(run, forgiven), k, held, forgiven)
<1>1. held \in SUBSET Nat /\ k \in Nat
  BY StampsAre DEF Sampled
<1>2. run.start \in Int /\ run.gap \in Nat /\ run.best \in Int
  BY DEF Running
<1> DEFINE s == IF run.gap >= forgiven THEN -1 ELSE run.start
<1>3. PICK new : /\ new = Out(run, forgiven) /\ new.start = s
                 /\ new.gap = run.gap + 1 /\ new.best = run.best
  <2>1. Out(run, forgiven) = [start |-> s, gap |-> run.gap + 1, best |-> run.best]
    BY DEF Out
  <2> HIDE DEF s
  <2> QED BY <2>1
<1>4. \A j \in held : j <= k <=> j <= k - 1
  BY <1>1
<1>5. ASSUME new.start >= 0
      PROVE  \E i, j \in held :
               /\ j = k - new.gap /\ new.gap <= forgiven
               /\ \A m \in held : m <= k => m <= j
               /\ Unbroken(i, j, held, forgiven) /\ new.start = AtTime(i)
               /\ \A h \in held : Unbroken(h, j, held, forgiven) => i <= h
  <2>1. run.start >= 0 /\ new.start = run.start /\ new.gap <= forgiven
    BY <1>2, <1>3, <1>5
  <2>2. PICK i \in held, j \in held :
          /\ j = k - 1 - run.gap /\ run.gap <= forgiven
          /\ \A m \in held : m <= k - 1 => m <= j
          /\ Unbroken(i, j, held, forgiven) /\ run.start = AtTime(i)
          /\ \A h \in held : Unbroken(h, j, held, forgiven) => i <= h
    BY <2>1 DEF RunHolds
  <2>3. j = k - new.gap
    BY <1>1, <1>2, <1>3, <2>2
  <2> QED BY <1>4, <2>1, <2>2, <2>3
<1>6. ASSUME new.start < 0, NEW j \in held, j <= k PROVE k - j > forgiven
  <2>1. CASE run.start < 0
    <3>1. k - 1 - j > forgiven
      BY <1>4, <1>6, <2>1 DEF RunHolds
    <3> QED BY <1>1, <3>1
  <2>2. CASE ~ (run.start < 0)
    <3>1. run.gap >= forgiven
      BY <1>2, <1>3, <1>6, <2>2
    <3>2. PICK l \in held : l = k - 1 - run.gap /\ \A m \in held : m <= k - 1 => m <= l
      BY <1>2, <2>2 DEF RunHolds
    <3>3. j <= l
      BY <1>4, <1>6, <3>2
    <3> QED BY <1>1, <1>2, <3>1, <3>2, <3>3
  <2> QED BY <2>1, <2>2
<1>7. RunHolds(new, k, held, forgiven)
  <2>1. \A i, j \in held :
          j <= k /\ Unbroken(i, j, held, forgiven) => AtTime(j) - AtTime(i) <= new.best
    BY <1>3, <1>4 DEF RunHolds
  <2>2. new.best = 0 \/ \E i, j \in held :
          j <= k /\ Unbroken(i, j, held, forgiven) /\ new.best = AtTime(j) - AtTime(i)
    BY <1>3, <1>4 DEF RunHolds
  <2>3. new.best >= 0
    BY <1>3 DEF RunHolds
  <2> QED BY <1>5, <1>6, <2>1, <2>2, <2>3 DEF RunHolds
<1> QED BY <1>3, <1>7

LEMMA SpansBounded ==
  ASSUME Sampled, NEW held \in SUBSET Stamps, NEW forgiven \in Nat
  PROVE  Spans(held, forgiven) \cup {0} \in SUBSET (0 .. MaxTime)
<1>1. ASSUME NEW x \in Spans(held, forgiven) PROVE x \in 0 .. MaxTime
  <2>1. PICK i \in held, j \in held : Unbroken(i, j, held, forgiven) /\ x = AtTime(j) - AtTime(i)
    BY <1>1, SpansAre
  <2>2. i <= j /\ i \in Stamps /\ j \in Stamps
    BY <2>1 DEF Unbroken
  <2>3. /\ i \in Nat /\ j \in Nat /\ AtTime(i) \in Nat /\ AtTime(j) \in Nat
        /\ AtTime(j) <= MaxTime
        /\ i < j <=> AtTime(i) < AtTime(j)
        /\ i = j => AtTime(i) = AtTime(j)
    BY <2>2, LaterIsLater
  <2> QED BY <2>1, <2>2, <2>3, OracleAssumption
<1> QED BY <1>1, OracleAssumption

LEMMA LongestTyped ==
  ASSUME Sampled, NEW looked, NEW held, NEW forgiven \in Nat
  PROVE  Longest(looked, held, forgiven) \in Int
<1>1. Len(snaps) \in 0 .. Len(snaps)
  BY StampsAre DEF Sampled
<1>2. Runs(looked, held, forgiven)[Len(snaps)] \in Running
  BY <1>1, RunsAre
<1> QED BY <1>2 DEF Longest, Running

(* Over the whole track, the longest run is the longest span.               *)
LEMMA LongestIs ==
  ASSUME Sampled, NEW held \in SUBSET Stamps, NEW forgiven \in Nat
  PROVE  Longest(Stamps, held, forgiven) = Max(Spans(held, forgiven) \cup {0})
<1>1. PICK n \in Nat : n = Len(snaps) /\ Stamps = 1 .. n
  BY StampsAre DEF Sampled
<1>2. PICK r : r = Runs(Stamps, held, forgiven)
  OBVIOUS
<1>3. r[0] = NoRun /\ \A k \in 0 .. n : r[k] \in Running
  BY <1>1, <1>2, RunsAre
<1>4. \A k \in 1 .. n : /\ k \in held => r[k] = In(r[k - 1], AtTime(k))
                        /\ k \notin held => r[k] = Out(r[k - 1], forgiven)
  BY <1>1, <1>2, RunsAre
<1> DEFINE A == {k \in 0 .. n : RunHolds(r[k], k, held, forgiven)}
<1>5. 0 \in A
  <2>1. \A j \in held : ~ (j <= 0)
    BY <1>1
  <2>2. NoRun.start < 0 /\ ~ (NoRun.start >= 0) /\ NoRun.best = 0 /\ NoRun.best >= 0
    BY DEF NoRun
  <2>3. RunHolds(NoRun, 0, held, forgiven)
    BY <2>1, <2>2 DEF RunHolds
  <2> QED BY <1>1, <1>3, <2>3
<1>6. ASSUME NEW k \in 1 .. n, k - 1 \in A PROVE k \in A
  <2>1. k \in Stamps /\ r[k - 1] \in Running /\ RunHolds(r[k - 1], k - 1, held, forgiven)
    <3>1. k - 1 \in 0 .. n
      BY <1>6
    <3> QED BY <1>1, <1>3, <1>6, <3>1
  <2>2. RunHolds(r[k], k, held, forgiven)
    <3>1. CASE k \in held
      <4>1. RunHolds(In(r[k - 1], AtTime(k)), k, held, forgiven)
        BY <2>1, <3>1, HeldOn
      <4> QED BY <1>4, <3>1, <4>1
    <3>2. CASE k \notin held
      <4>1. RunHolds(Out(r[k - 1], forgiven), k, held, forgiven)
        BY <2>1, <3>2, MissedOut
      <4> QED BY <1>4, <3>2, <4>1
    <3> QED BY <3>1, <3>2
  <2> QED BY <2>2
<1>7. RunHolds(r[n], n, held, forgiven)
  <2> HIDE DEF A
  <2>1. 0 .. n \subseteq A
    BY <1>5, <1>6, Inductive
  <2>2. n \in A
    BY <2>1
  <2> QED BY <2>2 DEF A
<1>8. r[n].best = Longest(Stamps, held, forgiven)
  BY <1>1, <1>2 DEF Longest
<1>9. PICK S : S = Spans(held, forgiven) \cup {0}
  OBVIOUS
<1>10. S \in SUBSET (0 .. MaxTime) /\ 0 \in S
  BY <1>9, SpansBounded
<1>11. Max(S) \in S /\ \A x \in S : x <= Max(S)
  BY <1>10, MaxIs, OracleAssumption
<1>12. \A x \in S : x \in Int
  <2>1. \A x \in 0 .. MaxTime : x \in Int
    BY OracleAssumption
  <2> QED BY <1>10, <2>1
<1>13. \A j \in held : j <= n
  BY <1>1
<1>14. r[n].best \in S
  <2>1. CASE r[n].best = 0
    BY <1>10, <2>1
  <2>2. CASE r[n].best # 0
    <3>1. \E i, j \in held : Unbroken(i, j, held, forgiven) /\ r[n].best = AtTime(j) - AtTime(i)
      BY <1>7, <2>2 DEF RunHolds
    <3> QED BY <1>9, <3>1, SpansAre
  <2> QED BY <2>1, <2>2
<1>15. \A x \in S : x <= r[n].best
  <2>1. TAKE x \in S
  <2>2. CASE x \in Spans(held, forgiven)
    <3>1. \E i, j \in held : Unbroken(i, j, held, forgiven) /\ x = AtTime(j) - AtTime(i)
      BY <2>2, SpansAre
    <3> QED BY <1>7, <1>13, <3>1 DEF RunHolds
  <2>3. CASE x = 0
    <3>1. r[n].best >= 0 /\ r[n].best \in Int
      BY <1>7, <1>12, <1>14 DEF RunHolds
    <3> QED BY <2>3, <3>1
  <2> QED BY <1>9, <2>2, <2>3
<1>16. r[n].best = Max(S)
  <2>1. r[n].best \in Int /\ Max(S) \in Int
    BY <1>11, <1>12, <1>14
  <2>2. Max(S) <= r[n].best /\ r[n].best <= Max(S)
    BY <1>11, <1>14, <1>15
  <2> QED BY <2>1, <2>2
<1> QED BY <1>8, <1>9, <1>16

(* Between two samples looked at with nothing but held ones between them    *)
(* there is no less time than the longest run has.                          *)
LEMMA LongestCovers ==
  ASSUME Sampled, NEW looked \in SUBSET Stamps, NEW held, NEW forgiven \in Nat,
         NEW i \in looked, NEW j \in looked, i <= j,
         \A k \in looked : i <= k /\ k <= j => k \in held
  PROVE  AtTime(j) - AtTime(i) <= Longest(looked, held, forgiven)
<1>1. PICK n \in Nat : n = Len(snaps) /\ Stamps = 1 .. n
  BY StampsAre DEF Sampled
<1>2. PICK r : r = Runs(looked, held, forgiven)
  OBVIOUS
<1>3. r[0] = NoRun /\ \A k \in 0 .. n : r[k] \in Running
  BY <1>1, <1>2, RunsAre
<1>4. \A k \in 1 .. n : /\ k \notin looked => r[k] = r[k - 1]
                        /\ k \in looked /\ k \in held => r[k] = In(r[k - 1], AtTime(k))
                        /\ k \in looked /\ k \notin held => r[k] = Out(r[k - 1], forgiven)
  BY <1>1, <1>2, RunsAre
<1>5. i \in 1 .. n /\ j \in 1 .. n /\ AtTime(i) \in Nat /\ AtTime(j) \in Nat
  BY <1>1, LaterIsLater
<1>6. \A run \in Running : \A t \in Nat :
        /\ In(run, t).start \in Int /\ In(run, t).best \in Int
        /\ Out(run, forgiven).start \in Int /\ Out(run, forgiven).best \in Int
        /\ run.start \in Int /\ run.best \in Int
        /\ In(run, t).start = t \/ In(run, t).start = run.start
        /\ In(run, t).start >= 0
        /\ In(run, t).best >= run.best /\ In(run, t).best >= t - In(run, t).start
        /\ Out(run, forgiven).start = -1 \/ Out(run, forgiven).start = run.start
        /\ Out(run, forgiven).best = run.best
  BY DEF Running, In, Out
<1>7. \A k \in 0 .. n : /\ r[k].start \in Int /\ r[k].best \in Int
                        /\ k \in Stamps => AtTime(k) \in Nat
  BY <1>3, <1>6, LaterIsLater
(* A run begins with a sample that was seen.                                *)
<1>8. \A k \in 0 .. n : \A l \in k .. n : l # 0 => r[k].start <= AtTime(l)
  <2> DEFINE A == {k \in 0 .. n : \A l \in k .. n : l # 0 => r[k].start <= AtTime(l)}
  <2>1. 0 \in A
    <3>1. r[0].start = -1
      BY <1>3 DEF NoRun
    <3>2. \A l \in 0 .. n : l # 0 => AtTime(l) \in Nat
      BY <1>1, <1>7
    <3> QED BY <3>1, <3>2
  <2>2. ASSUME NEW k \in 1 .. n, k - 1 \in A PROVE k \in A
    <3>1. k - 1 \in 0 .. n /\ k \in Stamps /\ r[k - 1] \in Running /\ AtTime(k) \in Nat
      <4>1. k - 1 \in 0 .. n /\ k \in 0 .. n
        BY <2>2
      <4> QED BY <1>1, <1>3, <1>7, <4>1
    <3>2. \/ r[k].start = r[k - 1].start \/ r[k].start = -1 \/ r[k].start = AtTime(k)
      BY <1>4, <1>6, <3>1
    <3>3. ASSUME NEW l \in k .. n PROVE r[k].start <= AtTime(l)
      <4>1. l \in Stamps /\ AtTime(l) \in Nat /\ l \in k - 1 .. n /\ l # 0
        BY <1>1, <1>7
      <4>2. r[k - 1].start <= AtTime(l)
        BY <2>2, <4>1
      <4>3. AtTime(k) <= AtTime(l)
        <5>1. k = l \/ k < l
          BY <1>1
        <5> QED BY <3>1, <4>1, <5>1, LaterIsLater
      <4> QED BY <3>2, <4>1, <4>2, <4>3
    <3> QED BY <3>3
  <2>3. 0 .. n \subseteq A
    <3> HIDE DEF A
    <3> QED BY <2>1, <2>2, Inductive
  <2> QED BY <2>3
(* From i on it is not ended before j, and from j on its time stays.        *)
<1> DEFINE B == {k \in 0 .. n : /\ i <= k /\ k <= j => r[k].start >= 0 /\ r[k].start <= AtTime(i)
                                /\ j <= k => AtTime(j) - AtTime(i) <= r[k].best}
<1>9. 0 \in B
  BY <1>5
<1>10. ASSUME NEW k \in 1 .. n, k - 1 \in B PROVE k \in B
  <2>1. k - 1 \in 0 .. n /\ k \in 0 .. n /\ k \in Stamps /\ r[k - 1] \in Running /\ AtTime(k) \in Nat
    <3>1. k - 1 \in 0 .. n /\ k \in 0 .. n
      BY <1>10
    <3> QED BY <1>1, <1>3, <1>7, <3>1
  <2>2. /\ i <= k - 1 /\ k - 1 <= j => r[k - 1].start >= 0 /\ r[k - 1].start <= AtTime(i)
        /\ j <= k - 1 => AtTime(j) - AtTime(i) <= r[k - 1].best
    BY <1>10
  <2>3. ASSUME i <= k, k <= j PROVE r[k].start >= 0 /\ r[k].start <= AtTime(i)
    <3>1. r[i].start <= AtTime(i)
      BY <1>5, <1>8
    <3>2. CASE k \in looked
      <4>1. k \in held
        BY <2>3, <3>2
      <4>2. r[k] = In(r[k - 1], AtTime(k))
        BY <1>4, <3>2, <4>1
      <4>3. r[k].start >= 0
        BY <1>6, <2>1, <4>2
      <4>4. CASE k = i
        BY <3>1, <4>3, <4>4
      <4>5. CASE k # i
        <5>1. i <= k - 1 /\ k - 1 <= j
          BY <1>5, <2>3, <4>5
        <5>2. r[k - 1].start >= 0 /\ r[k - 1].start <= AtTime(i) /\ r[k - 1].start \in Int
          BY <1>7, <2>1, <2>2, <5>1
        <5>3. r[k].start = r[k - 1].start
          <6>1. ~ (r[k - 1].start < 0)
            BY <5>2
          <6> QED BY <4>2, <6>1 DEF In
        <5> QED BY <5>2, <5>3
      <4> QED BY <4>4, <4>5
    <3>3. CASE k \notin looked
      <4>1. i <= k - 1 /\ k - 1 <= j
        <5>1. k # i
          BY <3>3
        <5> QED BY <1>5, <2>3, <5>1
      <4> QED BY <1>4, <2>2, <3>3, <4>1
    <3> QED BY <3>2, <3>3
  <2>4. ASSUME j <= k PROVE AtTime(j) - AtTime(i) <= r[k].best
    <3>1. CASE k = j
      <4>1. r[k] = In(r[k - 1], AtTime(k))
        <5>1. j \in held
          BY <1>5
        <5> QED BY <1>4, <3>1, <5>1
      <4>2. r[k].best >= AtTime(k) - r[k].start /\ r[k].start \in Int /\ r[k].best \in Int
        BY <1>6, <2>1, <4>1
      <4>3. r[k].start <= AtTime(i)
        <5>1. i <= k /\ k <= j
          BY <1>5, <3>1
        <5> QED BY <2>3, <5>1
      <4> QED BY <1>5, <3>1, <4>2, <4>3
    <3>2. CASE k # j
      <4>1. AtTime(j) - AtTime(i) <= r[k - 1].best
        BY <1>5, <2>2, <2>4, <3>2
      <4>2. r[k].best >= r[k - 1].best /\ r[k].best \in Int /\ r[k - 1].best \in Int
        <5>1. r[k - 1].best \in Int
          BY <1>7, <2>1
        <5>2. CASE k \notin looked
          BY <1>4, <5>1, <5>2
        <5>3. CASE k \in looked /\ k \in held
          <6>1. r[k] = In(r[k - 1], AtTime(k))
            BY <1>4, <5>3
          <6> QED BY <1>6, <2>1, <6>1
        <5>4. CASE k \in looked /\ k \notin held
          <6>1. r[k] = Out(r[k - 1], forgiven)
            BY <1>4, <5>4
          <6>2. Out(r[k - 1], forgiven).best = r[k - 1].best
            BY <1>6, <2>1
          <6> QED BY <5>1, <6>1, <6>2
        <5> QED BY <5>2, <5>3, <5>4
      <4> QED BY <1>5, <4>1, <4>2
    <3> QED BY <3>1, <3>2
  <2> QED BY <2>1, <2>3, <2>4
<1>11. 0 .. n \subseteq B
  <2> HIDE DEF B
  <2> QED BY <1>9, <1>10, Inductive
<1>12. AtTime(j) - AtTime(i) <= r[n].best
  <2>1. n \in B /\ j <= n
    BY <1>5, <1>11
  <2> QED BY <2>1
<1> QED BY <1>1, <1>2, <1>12 DEF Longest

LEMMA TimesHolds == Sampled => HoldsAreContiguous
<1> SUFFICES ASSUME Sampled, NEW p \in Params
    PROVE  /\ MaxDwell(p) = Max(Spans(HeldAt(p), 0) \cup {0})
           /\ MaxDwellMoving(p) = Max(Spans(HeldBy(p), 1) \cup {0})
           /\ Escort(p) => \A i, j \in Stamps :
                /\ \E k \in 1 .. i : Beside(k, p.mover, p.tol_m)
                /\ i < j /\ Seen(i, p.mover) /\ Seen(j, p.mover)
                /\ AtTime(j) - AtTime(i) > p.max_gap_s
                => \E k \in i .. j : Beside(k, p.mover, p.tol_m)
  BY DEF HoldsAreContiguous
<1>1. p \in Parameters
  BY OracleAssumption DEF Params
<1>2. PICK n \in Nat : n = Len(snaps) /\ Stamps = 1 .. n
  BY StampsAre DEF Sampled
<1>3. HeldAt(p) \in SUBSET Stamps /\ HeldBy(p) \in SUBSET Stamps
  BY DEF HeldAt, HeldBy
<1>4. MaxDwell(p) = Max(Spans(HeldAt(p), 0) \cup {0})
  BY <1>3, LongestIs DEF MaxDwell
<1>5. MaxDwellMoving(p) = Max(Spans(HeldBy(p), 1) \cup {0})
  BY <1>3, LongestIs DEF MaxDwellMoving
<1>7. ASSUME Escort(p), NEW i \in Stamps, NEW j \in Stamps,
             \E k \in 1 .. i : Beside(k, p.mover, p.tol_m),
             i < j, Seen(i, p.mover), Seen(j, p.mover), AtTime(j) - AtTime(i) > p.max_gap_s
      PROVE  \E k \in i .. j : Beside(k, p.mover, p.tol_m)
  <2>1. SUFFICES ASSUME \A k \in i .. j : ~ Beside(k, p.mover, p.tol_m) PROVE FALSE
    OBVIOUS
  <2>2. PICK joined \in HeldBy(p) : joined <= i /\ joined <= j
    <3>1. PICK k \in 1 .. i : Beside(k, p.mover, p.tol_m)
      BY <1>7
    <3>2. k \in Stamps /\ k <= i /\ k <= j
      BY <1>2, <1>7
    <3> QED BY <3>1, <3>2 DEF HeldBy
  <2>3. i \in Window(p) /\ j \in Window(p) /\ Window(p) \in SUBSET Stamps
    BY <1>7, <2>2 DEF Window, InSight
  <2>4. \A k \in Window(p) : i <= k /\ k <= j => k \in Window(p) \ HeldBy(p)
    <3>1. TAKE k \in Window(p)
    <3>2. HAVE i <= k /\ k <= j
    <3>3. k \in i .. j
      BY <1>2, <2>3, <3>2
    <3> QED BY <2>1, <3>3 DEF HeldBy
  <2>5. AtTime(j) - AtTime(i) <= WorstGap(p)
    <3>1. i <= j
      BY <1>2, <1>7
    <3>2. PICK looked, held : looked = Window(p) /\ held = Window(p) \ HeldBy(p)
      OBVIOUS
    <3>3. AtTime(j) - AtTime(i) <= Longest(looked, held, 0)
      BY <2>3, <2>4, <3>1, <3>2, LongestCovers
    <3> QED BY <3>2, <3>3 DEF WorstGap
  <2>6. WorstGap(p) <= p.max_gap_s
    BY <1>7 DEF Escort
  <2>7. WorstGap(p) \in Int
    BY LongestTyped DEF WorstGap
  <2>8. p.max_gap_s \in Nat /\ AtTime(i) \in Nat /\ AtTime(j) \in Nat
    BY <1>1, LaterIsLater DEF Parameters
  <2> QED BY <1>7, <2>5, <2>6, <2>7, <2>8
<1> QED BY <1>4, <1>5, <1>7

(* For any tolerances, gaps and tracks: what the two dwells time is         *)
(* contiguous and the most there is, and no gap of an escort that passes is *)
(* longer than it may be.                                                   *)
THEOREM HoldsAreTimed == JudgeSpec => []HoldsAreContiguous
<1>1. JudgeInv => HoldsAreContiguous
  BY JudgedSamples, TimesHolds DEF JudgeInv
<1> QED BY <1>1, AlwaysJudged, PTL

-----------------------------------------------------------------------------
(* A track and the one with one more sample: n is the length of the first.  *)

Grown(n) ==
  /\ Sampled /\ Sampled'
  /\ n = Len(snaps) /\ Stamps = 1 .. n
  /\ n + 1 = Len(snaps') /\ Stamps' = 1 .. n + 1
  /\ \A i \in 1 .. n : snaps'[i] = snaps[i]

Unfixed(n) == snaps'[n + 1].pos = Nowhere

LEMMA Grows ==
  ASSUME Sampled, NEW tick \in Ticks, NEW dt \in 1 .. 2, Sample(tick, dt)
  PROVE  \E n \in Nat : Grown(n) /\ Last(snaps') = snaps'[n + 1]
<1>1. PICK n \in Nat : n = Len(snaps) /\ Stamps = 1 .. n
  BY StampsAre DEF Sampled
<1>2. /\ snaps' \in Seq(Samples) /\ Len(snaps') = n + 1 /\ Stamps' = Stamps \cup {n + 1}
      /\ \A i \in 1 .. n : snaps'[i] = snaps[i]
      /\ Sampled'
  BY <1>1, SampleAppends
<1>3. Stamps' = 1 .. n + 1
  BY <1>1, <1>2
<1>4. Last(snaps') = snaps'[n + 1]
  BY <1>2 DEF Last
<1> QED BY <1>1, <1>2, <1>3, <1>4 DEF Grown

(* What a sample shows it goes on showing.                                  *)
LEMMA SamplesStay ==
  ASSUME NEW n \in Nat, Grown(n), NEW i \in 1 .. n
  PROVE  /\ AtTime(i)' = AtTime(i)
         /\ Fixed(i)' <=> Fixed(i)
         /\ \A place, tol : Within(i, place, tol)' <=> Within(i, place, tol)
         /\ \A mover : Seen(i, mover)' <=> Seen(i, mover)
         /\ \A mover : Sep(i, mover)' = Sep(i, mover)
         /\ \A mover, tol : Beside(i, mover, tol)' <=> Beside(i, mover, tol)
<1>1. PICK s : s = snaps[i] /\ s = snaps'[i]
  BY DEF Grown
<1>2. AtTime(i)' = AtTime(i) /\ (Fixed(i)' <=> Fixed(i))
  BY <1>1 DEF AtTime, Fixed
<1>3. \A place, tol : Within(i, place, tol)' <=> Within(i, place, tol)
  BY <1>1 DEF Within, Fixed
<1>4. \A mover : Seen(i, mover)' <=> Seen(i, mover)
  BY <1>1 DEF Seen, Fixed
<1>5. \A mover : Sep(i, mover)' = Sep(i, mover)
  BY <1>1 DEF Sep
<1>6. \A mover, tol : Beside(i, mover, tol)' <=> Beside(i, mover, tol)
  BY <1>1 DEF Beside, Sep, Seen, Fixed
<1> QED BY <1>2, <1>3, <1>4, <1>5, <1>6

LEMMA UnfixedShowsNothing ==
  ASSUME NEW n \in Nat, Grown(n), Unfixed(n), NEW i \in 1 .. n + 1, i \notin 1 .. n
  PROVE  /\ ~ Fixed(i)' /\ \A place, tol : ~ Within(i, place, tol)'
         /\ \A mover : ~ Seen(i, mover)'
         /\ \A mover, tol : ~ Beside(i, mover, tol)'
<1>1. i = n + 1
  OBVIOUS
<1>2. snaps'[i].pos = Nowhere
  BY <1>1 DEF Unfixed
<1> QED BY <1>2 DEF Fixed, Within, Seen, Beside

LEMMA VisitedStays ==
  ASSUME NEW n \in Nat, Grown(n), NEW place, NEW tol
  PROVE  /\ Visited(place, tol) => Visited(place, tol)'
         /\ Unfixed(n) => (Visited(place, tol)' <=> Visited(place, tol))
<1>1. Stamps = 1 .. n /\ Stamps' = 1 .. n + 1 /\ \A i \in 1 .. n : i \in 1 .. n + 1
  BY DEF Grown
<1>2. \A i \in 1 .. n : Within(i, place, tol)' <=> Within(i, place, tol)
  BY SamplesStay
<1>3. Visited(place, tol) => Visited(place, tol)'
  BY <1>1, <1>2 DEF Visited
<1>4. ASSUME Unfixed(n), Visited(place, tol)' PROVE Visited(place, tol)
  <2>1. PICK i \in 1 .. n + 1 : Within(i, place, tol)'
    BY <1>1, <1>4 DEF Visited
  <2>2. i \in 1 .. n
    BY <1>4, <2>1, UnfixedShowsNothing
  <2> QED BY <1>1, <1>2, <2>1, <2>2 DEF Visited
<1> QED BY <1>3, <1>4

(* The checks that ask where the track was, and where it was not.           *)
LEMMA ReachedSettles ==
  ASSUME NEW n \in Nat, Grown(n), NEW p \in Parameters
  PROVE  /\ Reached(p) => Reached(p)'
         /\ NotReached(p)' => NotReached(p)
         /\ Unfixed(n) => (Reached(p)' <=> Reached(p)) /\ (NotReached(p)' <=> NotReached(p))
BY VisitedStays DEF Reached, NotReached

LEMMA NotVisitedShrinks ==
  ASSUME NEW n \in Nat, Grown(n), NEW p \in Parameters
  PROVE  /\ NotVisited(p)' \subseteq NotVisited(p)
         /\ Unfixed(n) => NotVisited(p)' = NotVisited(p)
<1>1. \A k : /\ Visited(p.targets[k], p.tol_m) => Visited(p.targets[k], p.tol_m)'
             /\ Unfixed(n) => (Visited(p.targets[k], p.tol_m)' <=> Visited(p.targets[k], p.tol_m))
  BY VisitedStays
<1> QED BY <1>1 DEF NotVisited

LEMMA VisitedAllSettles ==
  ASSUME NEW n \in Nat, Grown(n), NEW p \in Parameters
  PROVE  /\ VisitedAll(p) => VisitedAll(p)'
         /\ MinVisited(p) => MinVisited(p)'
         /\ Unfixed(n) => (VisitedAll(p)' <=> VisitedAll(p)) /\ (MinVisited(p)' <=> MinVisited(p))
<1>1. PICK old, new : old = NotVisited(p) /\ new = NotVisited(p)'
  OBVIOUS
<1>2. new \subseteq old /\ (Unfixed(n) => new = old)
  BY <1>1, NotVisitedShrinks
<1>3. PICK m \in Nat : m = Len(p.targets) /\ DOMAIN p.targets = 1 .. m
  BY LenProperties DEF Parameters
<1>4. IsFiniteSet(old) /\ IsFiniteSet(new)
  <2>1. IsFiniteSet(1 .. m)
    BY FS_Interval
  <2>2. old \subseteq 1 .. m
    BY <1>1, <1>3 DEF NotVisited
  <2> QED BY <1>2, <2>1, <2>2, FS_Subset
<1>5. Cardinality(new) \in Nat /\ Cardinality(old) \in Nat /\ Cardinality(new) <= Cardinality(old)
  BY <1>2, <1>4, FS_Subset, FS_CardinalityType
<1>6. p.min_count \in Nat
  BY DEF Parameters
<1>7. VisitedAll(p) <=> old = {}
  BY <1>1 DEF VisitedAll
<1>8. VisitedAll(p)' <=> new = {}
  BY <1>1 DEF VisitedAll
<1>9. MinVisited(p) <=> m - Cardinality(old) >= p.min_count
  BY <1>1, <1>3 DEF MinVisited
<1>10. MinVisited(p)' <=> m - Cardinality(new) >= p.min_count
  BY <1>1, <1>3 DEF MinVisited
<1>11. MinVisited(p) => MinVisited(p)'
  BY <1>3, <1>5, <1>6, <1>9, <1>10
<1> QED BY <1>2, <1>7, <1>8, <1>9, <1>10, <1>11

LEMMA CoverageSettles ==
  ASSUME NEW n \in Nat, Grown(n), NEW p \in Parameters
  PROVE  /\ Coverage(p) => Coverage(p)'
         /\ Unfixed(n) => (Coverage(p)' <=> Coverage(p))
<1> DEFINE Covered == {c \in p.area : Visited(c, p.radius_m)}
<1>1. PICK old, new : old = Covered /\ new = Covered'
  OBVIOUS
<1>2. old \subseteq new /\ (Unfixed(n) => new = old) /\ new \subseteq p.area
  <2>1. \A c : /\ Visited(c, p.radius_m) => Visited(c, p.radius_m)'
               /\ Unfixed(n) => (Visited(c, p.radius_m)' <=> Visited(c, p.radius_m))
    BY VisitedStays
  <2> QED BY <1>1, <2>1
<1>3. IsFiniteSet(new) /\ IsFiniteSet(old)
  <2>1. p.area \subseteq Points
    BY DEF Parameters
  <2> QED BY <1>2, <2>1, FS_Subset, OracleAssumption
<1>4. Cardinality(new) \in Nat /\ Cardinality(old) \in Nat /\ Cardinality(old) <= Cardinality(new)
  BY <1>2, <1>3, FS_Subset, FS_CardinalityType
<1>5. PICK enough : enough = p.min_pct * Cardinality(p.area)
  OBVIOUS
<1>6. enough \in Int
  <2>1. p.min_pct \in Nat /\ p.area \subseteq Points
    BY DEF Parameters
  <2>2. Cardinality(p.area) \in Nat
    BY <2>1, FS_Subset, FS_CardinalityType, OracleAssumption
  <2> QED BY <1>5, <2>1, <2>2
<1>7. Coverage(p) <=> IF p.area = {} THEN p.min_pct <= 0 ELSE 100 * Cardinality(old) >= enough
  BY <1>1, <1>5 DEF Coverage
<1>8. Coverage(p)' <=> IF p.area = {} THEN p.min_pct <= 0 ELSE 100 * Cardinality(new) >= enough
  BY <1>1, <1>5 DEF Coverage
<1>9. Coverage(p) => Coverage(p)'
  <2> HIDE DEF Covered
  <2> QED BY <1>4, <1>6, <1>7, <1>8
<1>10. Unfixed(n) => (Coverage(p)' <=> Coverage(p))
  BY <1>2, <1>7, <1>8
<1> QED BY <1>9, <1>10

LEMMA InterceptSettles ==
  ASSUME NEW n \in Nat, Grown(n), NEW p \in Parameters
  PROVE  /\ Intercept(p) => Intercept(p)'
         /\ Unfixed(n) => (Intercept(p)' <=> Intercept(p))
<1> DEFINE Met(i) == /\ Beside(i, p.mover, p.tol_m)
                     /\ \/ p.zone = Nowhere
                        \/ Dist(snaps[i].mov[p.mover], p.zone) > p.zone_radius_m
<1>1. Stamps = 1 .. n /\ Stamps' = 1 .. n + 1 /\ \A i \in 1 .. n : i \in 1 .. n + 1
  BY DEF Grown
<1>2. \A i \in 1 .. n : Met(i)' <=> Met(i)
  BY SamplesStay DEF Grown
<1>3. Unfixed(n) => \A i \in 1 .. n + 1 : Met(i)' => i \in 1 .. n
  BY UnfixedShowsNothing
<1>4. Intercept(p) <=> \E i \in 1 .. n : Met(i)
  BY <1>1 DEF Intercept
<1>5. Intercept(p)' <=> \E i \in 1 .. n + 1 : Met(i)'
  BY <1>1 DEF Intercept
<1> HIDE DEF Met
<1> QED BY <1>1, <1>2, <1>3, <1>4, <1>5

(* What every sample has to satisfy.                                        *)
LEMMA EverySample ==
  ASSUME NEW n \in Nat, Grown(n), NEW p \in Parameters
  PROVE  /\ Alive(p)' => Alive(p)
         /\ AltCeiling(p)' => AltCeiling(p)
         /\ Clearance(p)' => Clearance(p)
         /\ AvoidArea(p)' => AvoidArea(p)
         /\ AvoidMoving(p)' => AvoidMoving(p)
<1>1. Stamps = 1 .. n /\ Stamps' = 1 .. n + 1 /\ \A i \in 1 .. n : i \in 1 .. n + 1
  BY DEF Grown
<1>2. \A i \in 1 .. n : snaps'[i] = snaps[i]
  BY DEF Grown
<1>3. Alive(p)' => Alive(p)
  BY <1>1, <1>2 DEF Alive, Fixed
<1>4. AltCeiling(p)' => AltCeiling(p)
  BY <1>1, <1>2 DEF AltCeiling, Fixed
<1>5. Clearance(p)' => Clearance(p)
  BY <1>1, <1>2 DEF Clearance, Fixed
<1>6. AvoidArea(p)' => AvoidArea(p)
  BY <1>1, <1>2 DEF AvoidArea, AtTime
<1>7. AvoidMoving(p)' => AvoidMoving(p)
  BY <1>1, <1>2 DEF AvoidMoving, AtTime, Seen, Fixed, Sep
<1> QED BY <1>3, <1>4, <1>5, <1>6, <1>7

LEMMA EveryFixedSample ==
  ASSUME NEW n \in Nat, Grown(n), Unfixed(n), NEW p \in Parameters
  PROVE  /\ Alive(p) => Alive(p)'
         /\ AltCeiling(p) => AltCeiling(p)'
         /\ Clearance(p) => Clearance(p)'
         /\ AvoidArea(p) => AvoidArea(p)'
         /\ AvoidMoving(p) => AvoidMoving(p)'
<1>1. Stamps = 1 .. n /\ Stamps' = 1 .. n + 1
  BY DEF Grown
<1>2. \A i \in 1 .. n : snaps'[i] = snaps[i]
  BY DEF Grown
<1>3. \A i \in 1 .. n + 1 : snaps'[i].pos # Nowhere => i \in 1 .. n
  BY DEF Unfixed
<1>4. Alive(p) => Alive(p)'
  BY <1>1, <1>2, <1>3 DEF Alive, Fixed
<1>5. AltCeiling(p) => AltCeiling(p)'
  BY <1>1, <1>2, <1>3 DEF AltCeiling, Fixed
<1>6. Clearance(p) => Clearance(p)'
  BY <1>1, <1>2, <1>3 DEF Clearance, Fixed
<1>7. AvoidArea(p) => AvoidArea(p)'
  <2>1. \A q \in p.area : q # Nowhere
    BY OracleAssumption DEF Parameters
  <2> QED BY <1>1, <1>2, <1>3, <2>1 DEF AvoidArea, AtTime
<1>8. AvoidMoving(p) => AvoidMoving(p)'
  BY <1>1, <1>2, <1>3 DEF AvoidMoving, AtTime, Seen, Fixed, Sep
<1> QED BY <1>4, <1>5, <1>6, <1>7, <1>8

OrderedByVisits == \A p \in Parameters : Ordering(p) <=> Visits(p)

LEMMA OrderingIs == Sampled => OrderedByVisits
BY ChainVisits, VisitsChain DEF OrderedByVisits

LEMMA OrderingSettles ==
  ASSUME NEW n \in Nat, Grown(n), NEW p \in Parameters
  PROVE  /\ Ordering(p) => Ordering(p)'
         /\ Unfixed(n) => (Ordering(p)' <=> Ordering(p))
<1>1. Stamps = 1 .. n /\ Stamps' = 1 .. n + 1 /\ \A i \in 1 .. n : i \in 1 .. n + 1
  BY DEF Grown
<1>2. \A i \in 1 .. n : \A place, tol : Within(i, place, tol)' <=> Within(i, place, tol)
  BY SamplesStay
<1>3. Ordering(p) <=> Visits(p)
  BY OrderingIs DEF Grown, OrderedByVisits
<1>4. Ordering(p)' <=> Visits(p)'
  <2>1. Sampled' => OrderedByVisits'
    BY OrderingIs, PTL
  <2> QED BY <2>1 DEF Grown, OrderedByVisits
<1>5. ASSUME Visits(p) PROVE Visits(p)'
  <2>1. PICK visit \in [DOMAIN p.targets -> 1 .. n] :
          /\ \A k \in DOMAIN p.targets : Within(visit[k], p.targets[k], p.tol_m)
          /\ \A k, l \in DOMAIN p.targets : k < l => visit[k] < visit[l]
    BY <1>1, <1>5 DEF Visits
  <2>2. \A k \in DOMAIN p.targets : Within(visit[k], p.targets[k], p.tol_m)'
    BY <1>2, <2>1
  <2>3. visit \in [DOMAIN p.targets -> 1 .. n + 1]
    BY <1>1, <2>1
  <2> QED BY <1>1, <2>1, <2>2, <2>3 DEF Visits
<1>6. ASSUME Unfixed(n), Visits(p)' PROVE Visits(p)
  <2>1. PICK visit \in [DOMAIN p.targets -> 1 .. n + 1] :
          /\ \A k \in DOMAIN p.targets : Within(visit[k], p.targets[k], p.tol_m)'
          /\ \A k, l \in DOMAIN p.targets : k < l => visit[k] < visit[l]
    BY <1>1, <1>6 DEF Visits
  <2>2. \A k \in DOMAIN p.targets : visit[k] \in 1 .. n
    BY <1>6, <2>1, UnfixedShowsNothing
  <2>3. \A k \in DOMAIN p.targets : Within(visit[k], p.targets[k], p.tol_m)
    BY <1>2, <2>1, <2>2
  <2>4. visit \in [DOMAIN p.targets -> 1 .. n]
    BY <2>1, <2>2
  <2> QED BY <1>1, <2>1, <2>3, <2>4 DEF Visits
<1> QED BY <1>3, <1>4, <1>5, <1>6

(* The first of the samples closest to the target.                          *)
LEMMA AltitudeSettles ==
  ASSUME NEW n \in Nat, Grown(n), Unfixed(n), NEW p \in Parameters
  PROVE  Altitude(p)' <=> Altitude(p)
<1> DEFINE Away(i) == Dist(snaps[i].pos, p.target)
           Closest(fixes) == {i \in fixes : \A j \in fixes : Away(i) <= Away(j)}
<1>1. Stamps = 1 .. n /\ Stamps' = 1 .. n + 1 /\ \A i \in 1 .. n : i \in 1 .. n + 1
  BY DEF Grown
<1>2. PICK fixes : fixes = {i \in Stamps : Fixed(i)}
  OBVIOUS
<1>3. fixes = {i \in Stamps : Fixed(i)}'
  <2>1. \A i \in 1 .. n : Fixed(i)' <=> Fixed(i)
    BY SamplesStay
  <2>2. \A i \in 1 .. n + 1 : Fixed(i)' => i \in 1 .. n
    BY UnfixedShowsNothing
  <2> QED BY <1>1, <1>2, <2>1, <2>2
<1>4. \A i \in fixes : Away(i)' = Away(i) /\ snaps'[i] = snaps[i]
  BY <1>1, <1>2 DEF Grown
<1>5. PICK closest : closest = Closest(fixes)
  OBVIOUS
<1>6. closest = Closest(fixes)'
  BY <1>4, <1>5
<1>7. Altitude(p) <=> fixes # {} /\ snaps[Min(closest)].alt \in p.min_alt .. p.max_alt
  BY <1>2, <1>5 DEF Altitude
<1>8. Altitude(p)' <=> fixes # {} /\ snaps'[Min(closest)].alt \in p.min_alt .. p.max_alt
  BY <1>3, <1>6 DEF Altitude
<1>9. ASSUME fixes # {} PROVE Min(closest) \in fixes
  <2>1. \A i \in fixes : Away(i) \in Nat
    <3>1. TAKE i \in fixes
    <3>2. snaps[i].pos \in Fixes /\ snaps[i].pos # Nowhere
      BY <1>2, StampsAre DEF Grown, Sampled, Fixed
    <3>3. snaps[i].pos \in Points /\ p.target \in Points
      BY <3>2 DEF Fixes, Parameters
    <3> QED BY <3>3, OracleAssumption
  <2> HIDE DEF Away
  <2>2. PICK d \in {Away(i) : i \in fixes} : \A e \in {Away(i) : i \in fixes} : d <= e
    <3>1. {Away(i) : i \in fixes} \in SUBSET Nat
      BY <2>1
    <3>2. {Away(i) : i \in fixes} # {}
      BY <1>9
    <3> QED BY <3>1, <3>2, LeastOf
  <2>3. closest # {}
    BY <1>5, <2>2
  <2>4. closest \in SUBSET Nat /\ closest \subseteq fixes
    BY <1>1, <1>2, <1>5
  <2>5. Min(closest) \in closest
    BY <2>3, <2>4, MinIs
  <2> QED BY <2>4, <2>5
<1> HIDE DEF Away, Closest
<1> QED BY <1>4, <1>7, <1>8, <1>9

(* Runs go on from where they were.                                         *)
EveryRun == \A looked, held : \A forgiven \in Nat :
  LET run == Runs(looked, held, forgiven)
  IN  /\ run[0] = NoRun
      /\ \A k \in 0 .. Len(snaps) : run[k] \in Running
      /\ \A k \in 1 .. Len(snaps) :
           /\ k \notin looked => run[k] = run[k - 1]
           /\ k \in looked /\ k \in held => run[k] = In(run[k - 1], AtTime(k))
           /\ k \in looked /\ k \notin held => run[k] = Out(run[k - 1], forgiven)

LEMMA EveryRunIs == Sampled => EveryRun
BY RunsAre DEF EveryRun

LEMMA LongestGrows ==
  ASSUME NEW n \in Nat, Grown(n), NEW forgiven \in Nat,
         NEW looked, NEW held, NEW nowLooked, NEW nowHeld,
         \A k \in 1 .. n : (k \in nowLooked <=> k \in looked) /\ (k \in nowHeld <=> k \in held)
  PROVE  /\ Longest(looked, held, forgiven) \in Int
         /\ Longest(nowLooked, nowHeld, forgiven)' \in Int
         /\ Longest(nowLooked, nowHeld, forgiven)' >= Longest(looked, held, forgiven)
         /\ n + 1 \notin nowHeld =>
              Longest(nowLooked, nowHeld, forgiven)' = Longest(looked, held, forgiven)
<1>1. PICK old, new : /\ old = Runs(looked, held, forgiven)
                      /\ new = Runs(nowLooked, nowHeld, forgiven)'
  OBVIOUS
<1>2. EveryRun /\ EveryRun'
  <2>1. Sampled' => EveryRun'
    BY EveryRunIs, PTL
  <2> QED BY <2>1, EveryRunIs DEF Grown
<1>3. /\ old[0] = NoRun
      /\ \A k \in 1 .. n :
           /\ k \notin looked => old[k] = old[k - 1]
           /\ k \in looked /\ k \in held => old[k] = In(old[k - 1], AtTime(k))
           /\ k \in looked /\ k \notin held => old[k] = Out(old[k - 1], forgiven)
  BY <1>1, <1>2 DEF EveryRun, Grown
<1>4. /\ new[0] = NoRun /\ \A k \in 0 .. n + 1 : new[k] \in Running
      /\ \A k \in 1 .. n + 1 :
           /\ k \notin nowLooked => new[k] = new[k - 1]
           /\ k \in nowLooked /\ k \in nowHeld => new[k] = In(new[k - 1], AtTime(k)')
           /\ k \in nowLooked /\ k \notin nowHeld => new[k] = Out(new[k - 1], forgiven)
  <2>1. n + 1 = Len(snaps)'
    BY DEF Grown
  <2>2. /\ new[0] = NoRun /\ \A k \in 0 .. Len(snaps)' : new[k] \in Running
        /\ \A k \in 1 .. Len(snaps)' :
             /\ k \notin nowLooked => new[k] = new[k - 1]
             /\ k \in nowLooked /\ k \in nowHeld => new[k] = In(new[k - 1], AtTime(k)')
             /\ k \in nowLooked /\ k \notin nowHeld => new[k] = Out(new[k - 1], forgiven)
    BY <1>1, <1>2 DEF EveryRun
  <2> QED BY <2>1, <2>2
<1> DEFINE A == {k \in 0 .. n : new[k] = old[k]}
<1>5. 0 \in A
  BY <1>3, <1>4
<1>6. ASSUME NEW k \in 1 .. n, k - 1 \in A PROVE k \in A
  <2>1. AtTime(k)' = AtTime(k)
    BY SamplesStay
  <2>2. k \in 1 .. n + 1 /\ k \in 0 .. n /\ new[k - 1] = old[k - 1]
    BY <1>6
  <2>3. CASE k \notin looked
    BY <1>3, <1>4, <2>2, <2>3
  <2>4. CASE k \in looked /\ k \in held
    BY <1>3, <1>4, <2>1, <2>2, <2>4
  <2>5. CASE k \in looked /\ k \notin held
    BY <1>3, <1>4, <2>2, <2>5
  <2> QED BY <2>3, <2>4, <2>5
<1>7. new[n] = old[n]
  <2> HIDE DEF A
  <2>1. 0 .. n \subseteq A
    BY <1>5, <1>6, Inductive
  <2>2. n \in A
    BY <2>1
  <2> QED BY <2>2 DEF A
<1>8. /\ Longest(looked, held, forgiven) = old[n].best
      /\ Longest(nowLooked, nowHeld, forgiven)' = new[n + 1].best
  <2>1. Longest(looked, held, forgiven) = old[n].best
    BY <1>1 DEF Longest, Grown
  <2>2. Longest(nowLooked, nowHeld, forgiven)' = new[Len(snaps)'].best
    BY <1>1 DEF Longest
  <2>3. Len(snaps)' = n + 1
    BY DEF Grown
  <2> QED BY <2>1, <2>2, <2>3
<1>9. new[n] \in Running /\ new[n + 1] \in Running /\ n + 1 \in 1 .. n + 1 /\ n + 1 - 1 = n
  BY <1>4
<1>10. new[n].best \in Int /\ new[n + 1].best \in Int
  BY <1>9 DEF Running
<1>11. CASE n + 1 \notin nowLooked
  <2>1. new[n + 1] = new[n]
    BY <1>4, <1>9, <1>11
  <2> QED BY <1>7, <1>8, <1>10, <2>1
<1>12. CASE n + 1 \in nowLooked /\ n + 1 \notin nowHeld
  <2>1. new[n + 1] = Out(new[n], forgiven)
    BY <1>4, <1>9, <1>12
  <2>2. new[n + 1].best = new[n].best
    BY <2>1 DEF Out
  <2> QED BY <1>7, <1>8, <1>10, <2>2
<1>13. CASE n + 1 \in nowLooked /\ n + 1 \in nowHeld
  <2>1. PICK t : t = AtTime(n + 1)'
    OBVIOUS
  <2>2. t \in Int
    <3>1. \A i \in Stamps' : AtTime(i)' \in 0 .. MaxTime
      BY DEF Grown, Sampled
    <3>2. n + 1 \in Stamps'
      BY DEF Grown
    <3>3. PICK m : m = n + 1
      OBVIOUS
    <3> QED BY <2>1, <3>1, <3>2, OracleAssumption
  <2>3. new[n + 1] = In(new[n], t)
    BY <1>4, <1>9, <1>13, <2>1
  <2>4. new[n + 1].best >= new[n].best
    <3>1. new[n].start \in Int /\ new[n].best \in Int
      BY <1>9 DEF Running
    <3> QED BY <2>2, <2>3, <3>1 DEF In
  <2> QED BY <1>7, <1>8, <1>10, <1>13, <2>4
<1> QED BY <1>11, <1>12, <1>13

LEMMA HeldStay ==
  ASSUME NEW n \in Nat, Grown(n), NEW p \in Parameters
  PROVE  /\ \A k \in 1 .. n : /\ k \in HeldAt(p)' <=> k \in HeldAt(p)
                              /\ k \in HeldBy(p)' <=> k \in HeldBy(p)
                              /\ k \in Stamps' <=> k \in Stamps
         /\ Unfixed(n) => n + 1 \notin HeldAt(p)' /\ n + 1 \notin HeldBy(p)'
<1>1. Stamps = 1 .. n /\ Stamps' = 1 .. n + 1 /\ \A i \in 1 .. n : i \in 1 .. n + 1
  BY DEF Grown
<1>2. \A k \in 1 .. n : /\ k \in HeldAt(p)' <=> k \in HeldAt(p)
                        /\ k \in HeldBy(p)' <=> k \in HeldBy(p)
  BY <1>1, SamplesStay DEF HeldAt, HeldBy
<1>3. ASSUME Unfixed(n) PROVE n + 1 \notin HeldAt(p)' /\ n + 1 \notin HeldBy(p)'
  <2>1. PICK m \in 1 .. n + 1 : m = n + 1 /\ m \notin 1 .. n
    OBVIOUS
  <2>2. ~ Within(m, p.target, p.tol_m)' /\ ~ Beside(m, p.mover, p.tol_m)'
    BY <1>3, <2>1, UnfixedShowsNothing
  <2>3. m \notin HeldAt(p)' /\ m \notin HeldBy(p)'
    BY <2>2 DEF HeldAt, HeldBy
  <2> QED BY <2>1, <2>3
<1> QED BY <1>1, <1>2, <1>3

LEMMA DwellSettles ==
  ASSUME NEW n \in Nat, Grown(n), NEW p \in Parameters
  PROVE  /\ Dwell(p) => Dwell(p)'
         /\ DwellMoving(p) => DwellMoving(p)'
         /\ Unfixed(n) => (Dwell(p)' <=> Dwell(p)) /\ (DwellMoving(p)' <=> DwellMoving(p))
<1>1. PICK all, nowAll : all = Stamps /\ nowAll = Stamps'
  OBVIOUS
<1>2. PICK there, nowThere : there = HeldAt(p) /\ nowThere = HeldAt(p)'
  OBVIOUS
<1>3. PICK beside, nowBeside : beside = HeldBy(p) /\ nowBeside = HeldBy(p)'
  OBVIOUS
<1>4. /\ \A k \in 1 .. n : /\ k \in nowAll <=> k \in all
                           /\ k \in nowThere <=> k \in there
                           /\ k \in nowBeside <=> k \in beside
      /\ Unfixed(n) => n + 1 \notin nowThere /\ n + 1 \notin nowBeside
  BY <1>1, <1>2, <1>3, HeldStay
<1>5. /\ Longest(all, there, 0) \in Int /\ Longest(nowAll, nowThere, 0)' \in Int
      /\ Longest(nowAll, nowThere, 0)' >= Longest(all, there, 0)
      /\ n + 1 \notin nowThere => Longest(nowAll, nowThere, 0)' = Longest(all, there, 0)
  BY <1>4, LongestGrows
<1>6. /\ Longest(all, beside, 1) \in Int /\ Longest(nowAll, nowBeside, 1)' \in Int
      /\ Longest(nowAll, nowBeside, 1)' >= Longest(all, beside, 1)
      /\ n + 1 \notin nowBeside => Longest(nowAll, nowBeside, 1)' = Longest(all, beside, 1)
  BY <1>4, LongestGrows
<1>7. MaxDwell(p) = Longest(all, there, 0) /\ MaxDwell(p)' = Longest(nowAll, nowThere, 0)'
  BY <1>1, <1>2 DEF MaxDwell
<1>8. MaxDwellMoving(p) = Longest(all, beside, 1) /\ MaxDwellMoving(p)' = Longest(nowAll, nowBeside, 1)'
  BY <1>1, <1>3 DEF MaxDwellMoving
<1>9. p.hold_s \in Nat
  BY DEF Parameters
<1>10. Dwell(p) => Dwell(p)'
  BY <1>5, <1>7, <1>9 DEF Dwell
<1>11. DwellMoving(p) => DwellMoving(p)'
  BY <1>6, <1>8, <1>9 DEF DwellMoving
<1>12. ASSUME Unfixed(n)
       PROVE  (Dwell(p)' <=> Dwell(p)) /\ (DwellMoving(p)' <=> DwellMoving(p))
  <2>1. MaxDwell(p)' = MaxDwell(p)
    BY <1>4, <1>5, <1>7, <1>12
  <2>2. MaxDwellMoving(p)' = MaxDwellMoving(p)
    BY <1>4, <1>6, <1>8, <1>12
  <2> QED BY <2>1, <2>2 DEF Dwell, DwellMoving
<1> QED BY <1>10, <1>11, <1>12

LEMMA EscortSettles ==
  ASSUME NEW n \in Nat, Grown(n), Unfixed(n), NEW p \in Parameters
  PROVE  Escort(p)' <=> Escort(p)
<1>1. Stamps = 1 .. n /\ Stamps' = 1 .. n + 1 /\ \A i \in 1 .. n : i \in 1 .. n + 1
  BY DEF Grown
<1>2. /\ \A k \in 1 .. n : /\ Seen(k, p.mover)' <=> Seen(k, p.mover)
                           /\ Beside(k, p.mover, p.tol_m)' <=> Beside(k, p.mover, p.tol_m)
      /\ \A k \in 1 .. n + 1 : /\ Seen(k, p.mover)' => k \in 1 .. n
                               /\ Beside(k, p.mover, p.tol_m)' => k \in 1 .. n
  BY SamplesStay, UnfixedShowsNothing
<1>3. PICK by : by = HeldBy(p)
  OBVIOUS
<1>4. HeldBy(p)' = by
  BY <1>1, <1>2, <1>3 DEF HeldBy
<1>5. PICK sight : sight = InSight(p)
  OBVIOUS
<1>6. InSight(p)' = sight
  BY <1>1, <1>2, <1>5 DEF InSight
<1>7. PICK w : w = Window(p) /\ w = Window(p)'
  <2>1. Window(p) = {i \in sight : \E k \in by : k <= i}
    BY <1>3, <1>5 DEF Window
  <2>2. Window(p)' = {i \in sight : \E k \in by : k <= i}
    BY <1>4, <1>6 DEF Window
  <2> QED BY <2>1, <2>2
<1>8. PICK apart : apart = w \ by
  OBVIOUS
<1>9. Longest(w, apart, 0)' = Longest(w, apart, 0)
  <2>1. n + 1 \notin apart
    <3>1. \A i \in w : i \in 1 .. n
      BY <1>1, <1>7 DEF Window, InSight
    <3>2. n + 1 \notin 1 .. n
      OBVIOUS
    <3> QED BY <1>8, <3>1, <3>2
  <2> QED BY <2>1, LongestGrows
<1>10. WorstGap(p)' = WorstGap(p)
  <2>1. WorstGap(p) = Longest(w, apart, 0)
    BY <1>3, <1>7, <1>8 DEF WorstGap
  <2>2. WorstGap(p)' = Longest(w, apart, 0)'
    BY <1>4, <1>7, <1>8 DEF WorstGap
  <2> QED BY <1>9, <2>1, <2>2
<1> QED BY <1>3, <1>4, <1>7, <1>10 DEF Escort

-----------------------------------------------------------------------------
(* The length of the path.                                                  *)

LEMMA LegIs ==
  ASSUME Sampled, NEW k \in Stamps
  PROVE  Leg(k) \in Nat
<1> DEFINE earlier == {i \in 1 .. k - 1 : Fixed(i)}
<1>1. PICK n \in Nat : n = Len(snaps) /\ Stamps = 1 .. n
  BY StampsAre DEF Sampled
<1>2. \A i \in Stamps : Fixed(i) => snaps[i].pos \in Points
  BY StampsAre DEF Sampled, Fixed, Fixes
<1>3. CASE Fixed(k) /\ earlier # {}
  <2>1. earlier \in SUBSET (0 .. k)
    BY <1>1
  <2>2. Max(earlier) \in earlier
    <3>1. k \in Nat
      BY <1>1
    <3> HIDE DEF earlier
    <3> QED BY <1>3, <2>1, <3>1, MaxIs
  <2>3. Max(earlier) \in Stamps /\ Fixed(Max(earlier))
    <3>1. \A i \in earlier : i \in Stamps /\ Fixed(i)
      BY <1>1
    <3> QED BY <2>2, <3>1
  <2>4. Leg(k) = Dist(snaps[Max(earlier)].pos, snaps[k].pos)
    BY <1>3 DEF Leg
  <2> HIDE DEF earlier
  <2> QED BY <1>2, <1>3, <2>3, <2>4, OracleAssumption
<1>4. CASE ~ (Fixed(k) /\ earlier # {})
  <2>1. Leg(k) = 0
    BY <1>4 DEF Leg
  <2> QED BY <2>1
<1> QED BY <1>3, <1>4

FlownAdds ==
  /\ Flown[0] = 0
  /\ \A k \in 0 .. Len(snaps) : Flown[k] \in Nat
  /\ \A k \in 1 .. Len(snaps) : Leg(k) \in Nat /\ Flown[k] = Flown[k - 1] + Leg(k)

LEMMA FlownIs == Sampled => FlownAdds
<1> SUFFICES ASSUME Sampled PROVE FlownAdds
  OBVIOUS
<1>1. PICK n \in Nat : n = Len(snaps) /\ Stamps = 1 .. n
  BY StampsAre DEF Sampled
<1> DEFINE Next1(total) == [k \in 0 .. n |-> IF k = 0 THEN 0 ELSE total[k - 1] + Leg(k)]
           step == [k \in 1 .. n |-> [total \in Nat |-> total + Leg(k)]]
<1>2. \A k \in 1 .. n : Leg(k) \in Nat
  BY <1>1, LegIs
<1>3. step \in [1 .. n -> [Nat -> Nat]]
  BY <1>2
<1>4. PICK g \in [0 .. n -> Nat] : g[0] = 0 /\ \A k \in 1 .. n : g[k] = step[k][g[k - 1]]
  <2>1. PICK S, b, st : S = Nat /\ b = 0 /\ st = step
    OBVIOUS
  <2> HIDE DEF step
  <2>2. st \in [1 .. n -> [S -> S]]
    BY <1>3, <2>1
  <2>3. b \in S
    BY <2>1
  <2>4. \E g \in [0 .. n -> S] : g[0] = b /\ \A k \in 1 .. n : g[k] = st[k][g[k - 1]]
    BY <1>1, <2>2, <2>3, Recursion
  <2> QED BY <2>1, <2>4
<1>5. \A k \in 1 .. n : g[k] = g[k - 1] + Leg(k)
  <2>1. TAKE k \in 1 .. n
  <2>2. g[k - 1] \in Nat
    BY <1>1
  <2> QED BY <1>4, <2>2
<1>6. g = Next1(g)
  <2> HIDE DEF step
  <2> QED BY <1>1, <1>4, <1>5
<1>7. PICK c : c = Flown /\ c = Next1(c)
  <2>1. Flown = CHOOSE c : c = Next1(c)
    BY <1>1 DEF Flown
  <2> HIDE DEF Next1
  <2> QED BY <1>6, <2>1
<1>8. c[0] = 0 /\ \A k \in 1 .. n : c[k] = c[k - 1] + Leg(k)
  <2>1. c = [k \in 0 .. n |-> IF k = 0 THEN 0 ELSE c[k - 1] + Leg(k)]
    BY <1>7
  <2> HIDE DEF Next1
  <2>2. 0 \in 0 .. n /\ \A k \in 1 .. n : k \in 0 .. n /\ k # 0
    BY <1>1
  <2> QED BY <2>1, <2>2
<1>9. \A k \in 0 .. n : c[k] \in Nat
  <2> DEFINE A == {k \in 0 .. n : c[k] \in Nat}
  <2>1. 0 \in A
    BY <1>8
  <2>2. ASSUME NEW k \in 1 .. n, k - 1 \in A PROVE k \in A
    <3>1. c[k - 1] \in Nat /\ Leg(k) \in Nat /\ c[k] = c[k - 1] + Leg(k) /\ k \in 0 .. n
      BY <1>2, <1>8, <2>2
    <3> QED BY <3>1
  <2>3. 0 .. n \subseteq A
    <3> HIDE DEF A
    <3> QED BY <2>1, <2>2, Inductive
  <2> QED BY <2>3
<1> HIDE DEF Next1
<1> QED BY <1>1, <1>2, <1>7, <1>8, <1>9 DEF FlownAdds

LEMMA PathSettles ==
  ASSUME NEW n \in Nat, Grown(n), NEW p \in Parameters
  PROVE  /\ PathLength(p)' => PathLength(p)
         /\ Unfixed(n) => (PathLength(p)' <=> PathLength(p))
<1>1. FlownAdds /\ FlownAdds'
  <2>1. Sampled' => FlownAdds'
    BY FlownIs, PTL
  <2> QED BY <2>1, FlownIs DEF Grown
<1>2. PICK old, new : old = Flown /\ new = Flown'
  OBVIOUS
<1>3. /\ old[0] = 0 /\ \A k \in 0 .. n : old[k] \in Nat
      /\ \A k \in 1 .. n : old[k] = old[k - 1] + Leg(k)
  BY <1>1, <1>2 DEF FlownAdds, Grown
<1>4. /\ new[0] = 0 /\ \A k \in 0 .. n + 1 : new[k] \in Nat
      /\ \A k \in 1 .. n + 1 : Leg(k)' \in Nat /\ new[k] = new[k - 1] + Leg(k)'
  <2>1. n + 1 = Len(snaps)'
    BY DEF Grown
  <2>2. /\ new[0] = 0 /\ \A k \in 0 .. Len(snaps)' : new[k] \in Nat
        /\ \A k \in 1 .. Len(snaps)' : Leg(k)' \in Nat /\ new[k] = new[k - 1] + Leg(k)'
    BY <1>1, <1>2 DEF FlownAdds
  <2> QED BY <2>1, <2>2
<1>5. \A k \in 1 .. n : Leg(k)' = Leg(k)
  <2>1. TAKE k \in 1 .. n
  <2>2. PICK e : e = {i \in 1 .. k - 1 : Fixed(i)}
    OBVIOUS
  <2>3. \A i \in 1 .. n : (Fixed(i)' <=> Fixed(i)) /\ snaps'[i] = snaps[i]
    BY SamplesStay DEF Grown
  <2>4. e = {i \in 1 .. k - 1 : Fixed(i)'} /\ e \subseteq 1 .. n
    BY <2>2, <2>3
  <2>5. e # {} => Max(e) \in 1 .. n
    <3>1. e \in SUBSET (0 .. n)
      BY <2>4
    <3>2. e # {} => Max(e) \in e
      BY <3>1, MaxIs
    <3> QED BY <2>4, <3>2
  <2>6. Leg(k) = IF ~ Fixed(k) \/ e = {} THEN 0 ELSE Dist(snaps[Max(e)].pos, snaps[k].pos)
    BY <2>2 DEF Leg
  <2>7. Leg(k)' = IF ~ Fixed(k)' \/ e = {} THEN 0 ELSE Dist(snaps'[Max(e)].pos, snaps'[k].pos)
    BY <2>4 DEF Leg
  <2> QED BY <2>3, <2>5, <2>6, <2>7
<1> DEFINE A == {k \in 0 .. n : new[k] = old[k]}
<1>6. 0 \in A
  BY <1>3, <1>4
<1>7. ASSUME NEW k \in 1 .. n, k - 1 \in A PROVE k \in A
  <2>1. new[k] = new[k - 1] + Leg(k)'
    BY <1>4
  <2> QED BY <1>3, <1>5, <1>7, <2>1
<1>8. new[n] = old[n]
  <2> HIDE DEF A
  <2>1. 0 .. n \subseteq A
    BY <1>6, <1>7, Inductive
  <2>2. n \in A
    BY <2>1
  <2> QED BY <2>2 DEF A
<1>9. PICK m : m = n + 1 /\ m \in 1 .. n + 1 /\ m \notin 1 .. n /\ m - 1 = n
  OBVIOUS
<1>10. Leg(m)' \in Nat /\ new[m] = old[n] + Leg(m)' /\ old[n] \in Nat
  BY <1>3, <1>4, <1>8, <1>9
<1>11. PathLength(p) <=> old[n] <= p.max_path
  BY <1>2 DEF PathLength, Grown
<1>12. PathLength(p)' <=> new[m] <= p.max_path
  <2>1. PathLength(p)' <=> new[Len(snaps)'] <= p.max_path
    BY <1>2 DEF PathLength
  <2> QED BY <1>9, <2>1 DEF Grown
<1>13. p.max_path \in Nat
  BY DEF Parameters
<1>14. PathLength(p)' => PathLength(p)
  <2>1. new[m] >= old[n] /\ new[m] \in Int
    BY <1>10
  <2> QED BY <1>10, <1>11, <1>12, <1>13, <2>1
<1>15. ASSUME Unfixed(n) PROVE PathLength(p)' <=> PathLength(p)
  <2>1. ~ Fixed(m)'
    BY <1>9, <1>15, UnfixedShowsNothing
  <2>2. Leg(m)' = 0
    BY <2>1 DEF Leg
  <2> QED BY <1>10, <1>11, <1>12, <2>2
<1> QED BY <1>14, <1>15

-----------------------------------------------------------------------------
(* What each name stands for.                                               *)
ByName(p) ==
  /\ Passes("reached", p) <=> Reached(p)
  /\ Passes("coverage", p) <=> Coverage(p)
  /\ Passes("alive", p) <=> Alive(p)
  /\ Passes("visited_all", p) <=> VisitedAll(p)
  /\ Passes("ordering", p) <=> Ordering(p)
  /\ Passes("altitude", p) <=> Altitude(p)
  /\ Passes("dwell", p) <=> Dwell(p)
  /\ Passes("clearance", p) <=> Clearance(p)
  /\ Passes("not_reached", p) <=> NotReached(p)
  /\ Passes("avoid_area", p) <=> AvoidArea(p)
  /\ Passes("path_length", p) <=> PathLength(p)
  /\ Passes("alt_ceiling", p) <=> AltCeiling(p)
  /\ Passes("min_visited", p) <=> MinVisited(p)
  /\ Passes("intercept", p) <=> Intercept(p)
  /\ Passes("dwell_moving", p) <=> DwellMoving(p)
  /\ Passes("avoid_moving", p) <=> AvoidMoving(p)
  /\ Passes("escort", p) <=> Escort(p)

LEMMA PassesAre == ASSUME NEW p PROVE ByName(p) /\ ByName(p)'
<1>1. ByName(p)
  BY DEF ByName, Passes
<1>2. ByName(p)'
  BY DEF ByName, Passes
<1> QED BY <1>1, <1>2

LEMMA Settles ==
  ASSUME NEW n \in Nat, Grown(n), NEW p \in Parameters
  PROVE  /\ \A check \in Earned : Passes(check, p) => Passes(check, p)'
         /\ \A check \in Spoilt : Passes(check, p)' => Passes(check, p)
<1>1. ByName(p) /\ ByName(p)'
  BY PassesAre
<1>2. ASSUME NEW check \in Earned PROVE Passes(check, p) => Passes(check, p)'
  BY <1>1, ReachedSettles, CoverageSettles, VisitedAllSettles, OrderingSettles,
     DwellSettles, InterceptSettles DEF Earned, ByName
<1>3. ASSUME NEW check \in Spoilt PROVE Passes(check, p)' => Passes(check, p)
  BY <1>1, EverySample, ReachedSettles, PathSettles DEF Spoilt, ByName
<1> QED BY <1>2, <1>3

LEMMA FixlessSettles ==
  ASSUME NEW n \in Nat, Grown(n), Unfixed(n), NEW p \in Parameters, NEW check \in Held
  PROVE  Passes(check, p)' <=> Passes(check, p)
<1>1. ByName(p) /\ ByName(p)'
  BY PassesAre
<1>2. CASE check \in Earned
  BY <1>1, <1>2, ReachedSettles, CoverageSettles, VisitedAllSettles, OrderingSettles,
     DwellSettles, InterceptSettles DEF Earned, ByName
<1>3. CASE check \in Spoilt
  BY <1>1, <1>3, EverySample, EveryFixedSample, ReachedSettles, PathSettles DEF Spoilt, ByName
<1>4. CASE check \in {"altitude", "escort"}
  BY <1>1, <1>4, AltitudeSettles, EscortSettles DEF ByName
<1>5. check \in Earned \/ check \in Spoilt \/ check \in {"altitude", "escort"}
  BY DEF Held, Checks, Earned, Spoilt
<1> QED BY <1>2, <1>3, <1>4, <1>5

(* For any tasks, points and tolerances and a track of any length: a sample *)
(* more takes no check that was earned away and makes none good that was    *)
(* spoilt, and one that comes last without a fix leaves every verdict but   *)
(* that of where it ended as the sample before it left it.                  *)
THEOREM VerdictsAreSettled == JudgeSpec => VerdictsSettle
<1> DEFINE Stays == \A p \in Params :
             /\ \A check \in Earned : Passes(check, p) => Passes(check, p)'
             /\ \A check \in Spoilt : Passes(check, p)' => Passes(check, p)
             /\ snaps' # snaps /\ Last(snaps').pos = Nowhere =>
                  \A check \in Held : (Passes(check, p)' <=> Passes(check, p))
<1>1. ASSUME Sampled, [JudgeNext]_judgeVars, snaps' # snaps, NEW p \in Params
      PROVE  /\ \A check \in Earned : Passes(check, p) => Passes(check, p)'
             /\ \A check \in Spoilt : Passes(check, p)' => Passes(check, p)
             /\ snaps' # snaps /\ Last(snaps').pos = Nowhere =>
                  \A check \in Held : (Passes(check, p)' <=> Passes(check, p))
  <2>1. PICK tick \in Ticks, dt \in 1 .. 2 : Sample(tick, dt)
    BY <1>1 DEF JudgeNext, judgeVars, LoadTask, PlainCall, TargetCall, GradeTrack
  <2>2. PICK n \in Nat : Grown(n) /\ Last(snaps') = snaps'[n + 1]
    BY <1>1, <2>1, Grows
  <2>3. p \in Parameters
    BY OracleAssumption DEF Params
  <2>4. Last(snaps').pos = Nowhere => Unfixed(n)
    BY <2>2 DEF Unfixed
  <2>5. /\ \A check \in Earned : Passes(check, p) => Passes(check, p)'
        /\ \A check \in Spoilt : Passes(check, p)' => Passes(check, p)
    BY <2>2, <2>3, Settles
  <2>6. Last(snaps').pos = Nowhere =>
          \A check \in Held : (Passes(check, p)' <=> Passes(check, p))
    BY <2>2, <2>3, <2>4, FixlessSettles
  <2> QED BY <2>5, <2>6
<1>2. JudgeInv /\ [JudgeNext]_judgeVars => [Stays]_snaps
  <2> SUFFICES ASSUME JudgeInv, [JudgeNext]_judgeVars, snaps' # snaps PROVE Stays
    OBVIOUS
  <2>1. Sampled
    BY JudgedSamples DEF JudgeInv
  <2> QED BY <1>1, <2>1
<1> QED BY <1>2, AlwaysJudged, PTL DEF JudgeSpec, VerdictsSettle
=============================================================================
