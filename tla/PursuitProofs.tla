--------------------------- MODULE PursuitProofs ---------------------------
(* Theorems of Pursuit, for any names, roofs, budgets and durations.        *)
EXTENDS Pursuit, TLAPS

(* Every step is one of these.                                              *)
LEMMA Steps ==
  ASSUME [Next]_vars
  PROVE  \/ \E n \in Names, m \in Modes, h \in BOOLEAN : Call(n, m, h)
         \/ Engage \/ Acquire \/ Release \/ Tune \/ Start
         \/ \E n \in Names : Follow(n)
         \/ \E sim \in 0 .. 2 : Miss(sim)
         \/ TimeUp \/ Breaks \/ StopFails \/ Stop
         \/ Cancel \/ CancelStart \/ CancelStop \/ StrayEnds
         \/ \E n \in Names, s \in Knowledge : Perceive(n, s)
         \/ UNCHANGED vars
BY DEF Next, Proceed

-----------------------------------------------------------------------------
(* Leaving offboard.                                                        *)
LEMMA OffboardStep == OffboardHeld /\ [Next]_vars => OffboardHeld'
<1> SUFFICES ASSUME OffboardHeld, [Next]_vars
             PROVE  OffboardHeld'
  OBVIOUS
<1> USE DEF OffboardHeld, vehicle, call, cleanup
<1>1. ASSUME NEW n \in Names, NEW m \in Modes, NEW h \in BOOLEAN, Call(n, m, h)
      PROVE  OffboardHeld'
  BY <1>1 DEF Call
<1>2. CASE Engage
  BY <1>2 DEF Engage, Raise
<1>3. CASE Acquire
  BY <1>3 DEF Acquire, Raise
<1>4. CASE Release
  BY <1>4 DEF Release, LeftOffboard
<1>5. CASE Tune
  BY <1>5 DEF Tune
<1>6. CASE Start
  <2>1. CASE StartRefused /\ (phase' = "prime" \/ (phase' = "done" /\ ending' = "refused"))
    BY <1>6, <2>1 DEF Start, StartRefused
  <2>2. CASE phase' = "chase" \/ (phase' = "done" /\ ending' = "cut")
    BY <2>2
  <2> QED BY <1>6, <2>1, <2>2 DEF Start
<1>7. ASSUME NEW n \in Names, Follow(n)
      PROVE  OffboardHeld'
  BY <1>7 DEF Follow, Leave, Stay
<1>8. ASSUME NEW sim \in 0 .. 2, Miss(sim)
      PROVE  OffboardHeld'
  BY <1>8 DEF Miss, Leave, Stay
<1>9. CASE TimeUp \/ Breaks
  BY <1>9 DEF TimeUp, Breaks, Leave
<1>10. CASE StopFails \/ Stop
  BY <1>10 DEF StopFails, Stop, LeftOffboard
<1>11. CASE Cancel
  BY <1>11 DEF Cancel, Unwind, Raise, Leave
<1>12. CASE CancelStart \/ CancelStop
  BY <1>12 DEF CancelStart, CancelStop
<1>13. CASE StrayEnds
  BY <1>13 DEF StrayEnds
<1>14. ASSUME NEW n \in Names, NEW s \in Knowledge, Perceive(n, s)
       PROVE  OffboardHeld'
  BY <1>14 DEF Perceive
<1>15. CASE UNCHANGED vars
  BY <1>15 DEF vars
<1> QED BY <1>1, <1>2, <1>3, <1>4, <1>5, <1>6, <1>7, <1>8, <1>9, <1>10, <1>11,
           <1>12, <1>13, <1>14, <1>15, Steps

(* Whatever ends a call, also where stop fails and hold stands in for it,   *)
(* PX4 is out of offboard mode after it, unless that hold fails too, a      *)
(* start that came back as failed was obeyed, or the call was cut inside    *)
(* the offboard start or cancelled inside the finally clause.               *)
THEOREM CallLeavesOffboard == Spec => []LeavesOffboard
<1>1. Init => OffboardHeld
  BY DEF Init, OffboardHeld
<1>2. OffboardHeld => LeavesOffboard
  BY DEF OffboardHeld, LeavesOffboard
<1> QED BY <1>1, <1>2, OffboardStep, PTL DEF Spec

-----------------------------------------------------------------------------
(* The designation.                                                         *)
LEMMA DesignationStep == DesignationHeld /\ [Next]_vars => DesignationHeld'
<1> SUFFICES ASSUME DesignationHeld, [Next]_vars
             PROVE  DesignationHeld'
  OBVIOUS
<1> USE DEF DesignationHeld, provider, call
<1>1. ASSUME NEW n \in Names, NEW m \in Modes, NEW h \in BOOLEAN, Call(n, m, h)
      PROVE  DesignationHeld'
  BY <1>1 DEF Call, Designate
<1>2. CASE Engage
  BY <1>2 DEF Engage, Raise
<1>3. CASE Acquire
  BY <1>3 DEF Acquire, Raise
<1>4. CASE Release
  <2>1. CASE phase' = "done"
    BY <2>1
  <2>2. CASE phase' # "done"
    BY <1>4, <2>2 DEF Release, Designate
  <2> QED BY <2>1, <2>2
<1>5. CASE Tune
  BY <1>5 DEF Tune
<1>6. CASE Start
  BY <1>6 DEF Start
<1>7. ASSUME NEW n \in Names, Follow(n)
      PROVE  DesignationHeld'
  <2>1. /\ phase = "chase" /\ name' = n
        /\ designated' = IF n = name THEN designated ELSE n
    BY <1>7 DEF Follow, Target, Designate
  <2> QED BY <2>1
<1>8. ASSUME NEW sim \in 0 .. 2, Miss(sim)
      PROVE  DesignationHeld'
  BY <1>8 DEF Miss, Leave, Stay
<1>9. CASE TimeUp \/ Breaks
  BY <1>9 DEF TimeUp, Breaks, Leave
<1>10. CASE StopFails \/ Stop
  BY <1>10 DEF StopFails, Stop
<1>11. CASE Cancel
  BY <1>11 DEF Cancel, Unwind, Raise, Leave
<1>12. CASE CancelStart \/ CancelStop
  BY <1>12 DEF CancelStart, CancelStop
<1>13. CASE StrayEnds
  BY <1>13 DEF StrayEnds
<1>14. ASSUME NEW n \in Names, NEW s \in Knowledge, Perceive(n, s)
       PROVE  DesignationHeld'
  BY <1>14 DEF Perceive
<1>15. CASE UNCHANGED vars
  BY <1>15 DEF vars
<1> QED BY <1>1, <1>2, <1>3, <1>4, <1>5, <1>6, <1>7, <1>8, <1>9, <1>10, <1>11,
           <1>12, <1>13, <1>14, <1>15, Steps

(* Through acquisition, start and pursuit, and every adoption of a reborn   *)
(* contact, the designation is on the contact pursued.                      *)
THEOREM BeamStaysOnTarget == Spec => []DesignationFollows
<1>1. Init => DesignationHeld
  BY DEF Init, DesignationHeld
<1>2. DesignationHeld => DesignationFollows
  BY DEF DesignationHeld, DesignationFollows
<1> QED BY <1>1, <1>2, DesignationStep, PTL DEF Spec

-----------------------------------------------------------------------------
(* The loss.                                                                *)

(* A missed tick keeps the clocks numbers, and while they have not expired  *)
(* the wall's is within the bound.                                          *)
LEMMA MissedTick ==
  ASSUME NEW c \in [sim : Nat, wall : Nat], NEW sim \in 0 .. 2
  PROVE  /\ Missed(c, sim) \in [sim : Nat, wall : Nat]
         /\ ~ Expired(Missed(c, sim)) => Missed(c, sim).wall <= LostS + 1
<1>1. LostS \in Nat /\ c.sim \in Nat /\ c.wall \in Nat
  BY PursuitAssumption
<1>2. Lower(c.wall + 1, LostS + 2) \in Nat
  BY <1>1 DEF Lower
<1>3. (IF c.wall = 0 THEN 0 ELSE UpTo(c.sim + sim)) \in Nat
  BY <1>1 DEF UpTo, Lower
<1>4. Missed(c, sim) \in [sim : Nat, wall : Nat]
  BY <1>2, <1>3 DEF Missed
<1>5. Missed(c, sim).wall \in Nat
  BY <1>4
<1>6. ~ Expired(Missed(c, sim)) => ~ (Missed(c, sim).wall - 1 > LostS)
  BY DEF Expired
<1> QED BY <1>1, <1>4, <1>5, <1>6

LEMMA LossStep == LossTimed /\ [Next]_vars => LossTimed'
<1> SUFFICES ASSUME LossTimed, [Next]_vars
             PROVE  LossTimed'
  OBVIOUS
<1> USE DEF LossTimed, call
<1>0. /\ LostS \in Nat
      /\ Present \in [sim : Nat, wall : Nat] /\ Present.wall = 0
  BY PursuitAssumption DEF Present
<1>a. ASSUME lost' = lost, gone' = gone,
             phase' = "chase" => phase = "chase",
             phase' \in {"ready", "engage", "acquire", "release", "tune", "prime"}
               => phase \in {"ready", "engage", "acquire", "release", "tune", "prime"},
             ending' = "lost" => ending = "lost" /\ phase' \in {"leave", "done"}
      PROVE  LossTimed'
  BY <1>a DEF Expired
<1>1. ASSUME NEW n \in Names, NEW m \in Modes, NEW h \in BOOLEAN, Call(n, m, h)
      PROVE  LossTimed'
  BY <1>1, <1>a DEF Call
<1>2. CASE Engage
  BY <1>2, <1>a DEF Engage, Raise
<1>3. CASE Acquire
  BY <1>3, <1>a DEF Acquire, Raise
<1>4. CASE Release
  BY <1>4, <1>a DEF Release
<1>5. CASE Tune
  BY <1>5, <1>a DEF Tune
<1>6. CASE Start
  <2>1. CASE phase' = "chase"
    BY <1>0, <1>6, <2>1 DEF Start, Expired
  <2>2. CASE phase' # "chase"
    BY <1>6, <1>a, <2>2 DEF Start
  <2> QED BY <2>1, <2>2
<1>7. ASSUME NEW n \in Names, Follow(n)
      PROVE  LossTimed'
  <2>1. /\ lost' = Present /\ gone' = Present /\ phase = "chase"
        /\ phase' \in {"chase", "leave"}
        /\ ending' \in {ending, "hit"}
    BY <1>7 DEF Follow, Found, Leave, Stay
  <2>2. ending' # "lost"
    BY <2>1
  <2> QED BY <1>0, <2>1, <2>2
<1>8. ASSUME NEW sim \in 0 .. 2, Miss(sim)
      PROVE  LossTimed'
  <2>1. /\ lost' = Missed(lost, sim) /\ gone' = lost'
        /\ phase = "chase" /\ ending # "lost"
    BY <1>8 DEF Miss
  <2>2. /\ lost' \in [sim : Nat, wall : Nat]
        /\ ~ Expired(lost') => lost'.wall <= LostS + 1
    BY <2>1, MissedTick
  <2>3. CASE Expired(lost')
    <3>1. phase' = "leave"
      BY <1>8, <2>3 DEF Miss, Leave
    <3> QED BY <2>1, <2>2, <2>3, <3>1 DEF Expired
  <2>4. CASE ~ Expired(lost')
    <3>1. phase' = "chase" /\ ending' = ending
      BY <1>8, <2>1, <2>4 DEF Miss, Stay
    <3> QED BY <2>1, <2>2, <2>4, <3>1
  <2> QED BY <2>3, <2>4
<1>9. CASE TimeUp \/ Breaks
  BY <1>9, <1>a DEF TimeUp, Breaks, Leave
<1>10. CASE StopFails \/ Stop
  BY <1>10, <1>a DEF StopFails, Stop
<1>11. CASE Cancel
  BY <1>11, <1>a DEF Cancel, Unwind, Raise, Leave
<1>12. CASE CancelStart \/ CancelStop
  BY <1>12, <1>a DEF CancelStart, CancelStop
<1>13. CASE StrayEnds
  BY <1>13, <1>a DEF StrayEnds
<1>14. ASSUME NEW n \in Names, NEW s \in Knowledge, Perceive(n, s)
       PROVE  LossTimed'
  BY <1>14, <1>a DEF Perceive
<1>15. CASE UNCHANGED vars
  BY <1>15, <1>a DEF vars
<1> QED BY <1>1, <1>2, <1>3, <1>4, <1>5, <1>6, <1>7, <1>8, <1>9, <1>10, <1>11,
           <1>12, <1>13, <1>14, <1>15, Steps

LEMMA LossInit == Init => LossTimed
<1>1. Present \in [sim : Nat, wall : Nat]
  BY DEF Present
<1> QED BY <1>1 DEF Init, LossTimed

(* A contact that stays away ends the pursuit lost_s after it was first     *)
(* missed, whatever the simulator's clock does.                             *)
THEOREM LossIsBounded == Spec => []LostBounded
<1>1. LossTimed => LostBounded
  BY DEF LossTimed, LostBounded
<1> QED BY <1>1, LossInit, LossStep, PTL DEF Spec

(* LOST is said only of a contact missing without a break for longer than   *)
(* lost_s, on one of the two clocks.                                        *)
THEOREM LossIsReal == Spec => []LostOnlyWhenGone
<1>1. ASSUME LossTimed
      PROVE  LostOnlyWhenGone
  <2>1. LostS \in Nat /\ gone.wall \in Nat /\ gone.sim \in Nat
    BY <1>1, PursuitAssumption DEF LossTimed
  <2>2. ending = "lost" => gone.sim > LostS \/ gone.wall - 1 > LostS
    BY <1>1 DEF LossTimed, Expired
  <2> QED BY <2>1, <2>2 DEF LostOnlyWhenGone
<1> QED BY <1>1, LossInit, LossStep, PTL DEF Spec

-----------------------------------------------------------------------------
(* The types.                                                               *)

Clocks == [sim : 0 .. LostS + 1, wall : 0 .. LostS + 2]

LEMMA MissedIsTyped ==
  ASSUME NEW c \in Clocks, NEW sim \in 0 .. 2
  PROVE  Missed(c, sim) \in Clocks
<1>1. LostS \in Nat /\ c.sim \in 0 .. LostS + 1 /\ c.wall \in 0 .. LostS + 2
  BY PursuitAssumption DEF Clocks
<1>2. Lower(c.wall + 1, LostS + 2) \in 0 .. LostS + 2
  BY <1>1 DEF Lower
<1>3. (IF c.wall = 0 THEN 0 ELSE UpTo(c.sim + sim)) \in 0 .. LostS + 1
  BY <1>1 DEF UpTo, Lower
<1> QED BY <1>2, <1>3 DEF Missed, Clocks

(* What the loop streams is a height.                                       *)
LEMMA AltitudesAreHeights ==
  ASSUME NEW roof \in Roofs, NEW up \in Altitudes(roof)
  PROVE  up \in Nat
<1>1. Clamp(roof) \in Nat
  BY PursuitAssumption DEF Clamp
<1>2. \A p \in Profile : p \in Nat /\ Lower(Clamp(roof), p) \in Nat
  BY <1>1, PursuitAssumption DEF Profile, Lower
<1> QED BY <1>1, <1>2 DEF Altitudes

(* Before the loop there is an offboard start left to try.                  *)
TriesLeft == phase \in {"ready", "engage", "acquire", "release", "tune", "prime"}
               => tries < Attempts

(* The parts of TypeOK by whose they are.                                   *)
CallTyped ==
  /\ phase \in {"ready", "engage", "acquire", "release", "tune", "prime", "chase",
                "leave", "done"}
  /\ ending \in Endings
  /\ name \in Names \cup {None}
  /\ mode \in Modes /\ hold \in BOOLEAN
  /\ left \in 0 .. Budget + Duration /\ tries \in 0 .. Attempts
  /\ TriesLeft

ClocksTyped == lost \in Clocks /\ gone \in Clocks

ProviderTyped ==
  /\ contact \in [Names -> Knowledge]
  /\ designated \in Names \cup {None}
  /\ locked \in BOOLEAN

VehicleTyped ==
  /\ px4 \in {"hold", "offboard"} /\ stray \in BOOLEAN
  /\ over \in Roofs
  /\ setpoint.roof \in Roofs /\ setpoint.up \in Nat

CleanupTyped == fallback \in BOOLEAN /\ unheard \subseteq {"start", "cleanup"}

LEMMA CallTypedStep == ASSUME CallTyped, [Next]_vars PROVE CallTyped'
<1> USE PursuitAssumption DEF CallTyped, TriesLeft, Endings, call
<1>1. ASSUME NEW n \in Names, NEW m \in Modes, NEW h \in BOOLEAN, Call(n, m, h)
      PROVE  CallTyped'
  BY <1>1 DEF Call
<1>2. CASE Engage
  BY <1>2 DEF Engage, Raise
<1>3. CASE Acquire
  BY <1>3 DEF Acquire, Raise
<1>4. CASE Release
  BY <1>4 DEF Release
<1>5. CASE Tune
  BY <1>5 DEF Tune
<1>6. CASE Start
  BY <1>6 DEF Start, StartRefused
<1>7. ASSUME NEW n \in Names, Follow(n)
      PROVE  CallTyped'
  <2>1. /\ phase = "chase" /\ phase' \in {"chase", "leave"} /\ ending' \in {ending, "hit"}
        /\ name' = n /\ left > 0 /\ left' = left - 1 /\ UNCHANGED <<mode, hold, tries>>
    BY <1>7 DEF Follow, Target, Leave, Stay
  <2> QED BY <2>1
<1>8. ASSUME NEW sim \in 0 .. 2, Miss(sim)
      PROVE  CallTyped'
  <2>1. /\ phase = "chase" /\ phase' \in {"chase", "leave"} /\ ending' \in {ending, "lost"}
        /\ left > 0 /\ left' = left - 1 /\ UNCHANGED <<name, mode, hold, tries>>
    BY <1>8 DEF Miss, Leave, Stay
  <2> QED BY <2>1
<1>9. CASE TimeUp \/ Breaks
  BY <1>9 DEF TimeUp, Breaks, Leave
<1>10. CASE StopFails \/ Stop
  BY <1>10 DEF StopFails, Stop
<1>11. CASE Cancel
  BY <1>11 DEF Cancel, Unwind, Raise, Leave
<1>12. CASE CancelStart \/ CancelStop
  BY <1>12 DEF CancelStart, CancelStop
<1>13. CASE StrayEnds
  BY <1>13 DEF StrayEnds
<1>14. ASSUME NEW n \in Names, NEW s \in Knowledge, Perceive(n, s)
       PROVE  CallTyped'
  BY <1>14 DEF Perceive
<1>15. CASE UNCHANGED vars
  BY <1>15 DEF vars
<1> QED BY <1>1, <1>2, <1>3, <1>4, <1>5, <1>6, <1>7, <1>8, <1>9, <1>10, <1>11,
           <1>12, <1>13, <1>14, <1>15, Steps

LEMMA ClocksTypedStep == ASSUME ClocksTyped, [Next]_vars PROVE ClocksTyped'
<1> USE DEF ClocksTyped, call
<1>1. Present \in Clocks
  BY PursuitAssumption DEF Present, Clocks
<1>2. ASSUME NEW n \in Names, Follow(n)
      PROVE  ClocksTyped'
  BY <1>1, <1>2 DEF Follow, Found
<1>3. ASSUME NEW sim \in 0 .. 2, Miss(sim)
      PROVE  ClocksTyped'
  BY <1>3, MissedIsTyped DEF Miss
<1>4. CASE UNCHANGED <<lost, gone>>
  BY <1>4
<1> QED BY <1>2, <1>3, <1>4, Steps
        DEF Call, Engage, Acquire, Release, Tune, Start, TimeUp, Breaks,
            StopFails, Stop, Cancel, CancelStart, CancelStop, StrayEnds, Perceive, vars

LEMMA ProviderTypedStep == ASSUME ProviderTyped, CallTyped, [Next]_vars PROVE ProviderTyped'
<1> USE DEF ProviderTyped, provider, Designate
<1>1. ASSUME NEW n \in Names, NEW m \in Modes, NEW h \in BOOLEAN, Call(n, m, h)
      PROVE  ProviderTyped'
  BY <1>1 DEF Call
<1>2. CASE Release
  BY <1>2 DEF Release, ClearUnlessPositioned, CallTyped
<1>3. ASSUME NEW n \in Names, Follow(n)
      PROVE  ProviderTyped'
  BY <1>3 DEF Follow, Target
<1>4. ASSUME NEW n \in Names, NEW s \in Knowledge, Perceive(n, s)
      PROVE  ProviderTyped'
  BY <1>4 DEF Perceive
<1>5. CASE UNCHANGED provider
  BY <1>5
<1> QED BY <1>1, <1>2, <1>3, <1>4, <1>5, Steps
        DEF Engage, Acquire, Tune, Start, Miss, TimeUp, Breaks,
            StopFails, Stop, Cancel, CancelStart, CancelStop, StrayEnds, vars

LEMMA VehicleTypedStep == ASSUME VehicleTyped, [Next]_vars PROVE VehicleTyped'
<1> USE DEF VehicleTyped, vehicle
<1>1. ASSUME over' = over, setpoint' = setpoint, stray' \in BOOLEAN,
             px4' \in {px4, "hold", "offboard"}
      PROVE  VehicleTyped'
  BY <1>1
<1>2. ASSUME NEW n \in Names, Follow(n)
      PROVE  VehicleTyped'
  <2>1. px4' = px4 /\ stray' = stray
    BY <1>2 DEF Follow
  <2>2. \/ over' = over /\ setpoint' = setpoint
        \/ Stream(over, Alt) /\ over' = over
        \/ \E roof \in Roofs : \E up \in Altitudes(roof) : Stream(roof, up) /\ over' = roof
    BY <1>2 DEF Follow
  <2>3. CASE \E roof \in Roofs : \E up \in Altitudes(roof) : Stream(roof, up) /\ over' = roof
    BY <2>1, <2>3, AltitudesAreHeights DEF Stream
  <2>4. CASE Stream(over, Alt) /\ over' = over
    BY <2>1, <2>4, PursuitAssumption DEF Stream
  <2> QED BY <2>1, <2>2, <2>3, <2>4
<1>3. ASSUME NEW sim \in 0 .. 2, Miss(sim)
      PROVE  VehicleTyped'
  BY <1>3, PursuitAssumption DEF Miss, Stream
<1>4. CASE UNCHANGED vehicle
  BY <1>4
<1> QED BY <1>1, <1>2, <1>3, <1>4, Steps
        DEF Call, Engage, Acquire, Release, LeftOffboard, Tune, Start, StartRefused,
            TimeUp, Breaks, StopFails, Stop, Cancel, CancelStart, CancelStop, StrayEnds,
            Perceive, vars

LEMMA CleanupTypedStep == ASSUME CleanupTyped, [Next]_vars PROVE CleanupTyped'
<1> USE DEF CleanupTyped, cleanup
<1>1. CASE StopFails
  BY <1>1 DEF StopFails
<1>2. CASE LeftOffboard
  BY <1>2 DEF LeftOffboard
<1>3. CASE Start
  BY <1>3 DEF Start, StartRefused
<1>4. CASE UNCHANGED cleanup
  BY <1>4
<1> QED BY <1>1, <1>2, <1>3, <1>4, Steps
        DEF Call, Engage, Acquire, Release, Tune, Follow, Miss, TimeUp, Breaks, Stop,
            Cancel, CancelStart, CancelStop, StrayEnds, Perceive, vars

(* The values of the call's state, the provider's and the vehicle's; in     *)
(* particular the offboard starts tried never pass their limit and what is  *)
(* streamed is a height.                                                    *)
THEOREM PursuitTyped == Spec => []TypeOK
<1> DEFINE Typed == CallTyped /\ ClocksTyped /\ ProviderTyped /\ VehicleTyped /\ CleanupTyped
<1>1. Init => Typed
  <2>1. Init => CallTyped
    <3>1. Init => hold \in BOOLEAN
      BY DEF Init
    <3>2. 0 \in 0 .. Budget + Duration /\ 0 \in 0 .. Attempts /\ 0 < Attempts
      BY PursuitAssumption
    <3> QED BY <3>1, <3>2 DEF Init, CallTyped, TriesLeft, Endings, Modes
  <2>2. Init => ClocksTyped
    BY PursuitAssumption DEF Init, ClocksTyped, Clocks, Present
  <2>3. Init => ProviderTyped /\ VehicleTyped
    <3>1. Init => locked \in BOOLEAN /\ stray \in BOOLEAN
      BY DEF Init
    <3>2. Init => setpoint.roof = 0 /\ setpoint.up = Alt
      BY DEF Init
    <3> QED BY <3>1, <3>2, PursuitAssumption DEF Init, ProviderTyped, VehicleTyped
  <2>4. Init => CleanupTyped
    BY DEF Init, CleanupTyped
  <2> QED BY <2>1, <2>2, <2>3, <2>4
<1>2. Typed /\ [Next]_vars => Typed'
  BY CallTypedStep, ClocksTypedStep, ProviderTypedStep, VehicleTypedStep, CleanupTypedStep
<1>3. Typed => TypeOK
  BY DEF CallTyped, ClocksTyped, Clocks, ProviderTyped, VehicleTyped, CleanupTyped,
         TypeOK
<1> QED BY <1>1, <1>2, <1>3, PTL DEF Spec
=============================================================================
