------------------------------ MODULE Pursuit ------------------------------
(***************************************************************************)
(* One call of FlightOps.track (flight/ops.py): the acquisition servo, the  *)
(* offboard start, the 10 Hz pursuit loop and the clean-up, against the     *)
(* contacts the vision pipeline changes, the simulator's clock, a PX4 that  *)
(* may refuse, and a cancellation at any await.  How calls take turns is    *)
(* the business of CommandAuthority; this call is alone.                    *)
(* A control tick is one step.  Altitudes are whole metres; where things    *)
(* are in the plane is kept only as the roof, if any, beneath a point.      *)
(***************************************************************************)
EXTENDS Integers

CONSTANTS
  Names,     \* contact names of one class
  Roofs,     \* the roof heights a point may have beneath it; 0: no building
  Alt,       \* the commanded altitude
  Budget,    \* acquire_budget_s, in ticks
  Duration,  \* duration_s, in ticks
  LostS,     \* the provider's lost_s, in ticks
  Attempts,  \* offboard starts tried
  None

ASSUME PursuitAssumption ==
  /\ Roofs \subseteq Nat /\ 0 \in Roofs
  /\ Alt \in Nat \ {0}
  /\ Budget \in Nat /\ Duration \in Nat /\ LostS \in Nat
  /\ Attempts \in Nat \ {0}
  /\ None \notin Names

VARIABLES
  phase,      \* where the call is, "ready" before it and "done" after
  ending,     \* how it ended, or is about to
  name,       \* the contact pursued
  mode,       \* the call's mode
  hold,       \* the call's hold_altitude
  left,       \* ticks left of the acquisition budget or of the duration
  tries,      \* offboard starts refused
  lost,       \* lost_since and lost_wall: the ticks missed, 0 when None
  contact,    \* what the provider knows of each name
  designated, \* the provider's designation
  locked,     \* does its state machine say RANGE_LOCKED or WORLD_TRACKED?
  px4,        \* the autopilot's mode
  stray,      \* is a shielded offboard.stop in flight that nobody waits for?
  over,       \* the roof beneath the vehicle
  setpoint,   \* the last pursuit setpoint: the roof beneath it, its altitude
  gone,       \* the ticks since the loop last had a position, kept apart
  fallback,   \* has offboard.stop failed, is the finally awaiting action.hold?
  unheard     \* kept apart, what has left PX4 in offboard unknown to the call:
              \* a "start" that failed, a "cleanup" whose stop and hold failed

call == <<phase, ending, name, mode, hold, left, tries, lost>>
provider == <<contact, designated, locked>>
vehicle == <<px4, stray, over, setpoint>>
cleanup == <<fallback, unheard>>
vars == <<call, provider, vehicle, gone, cleanup>>

Positioned == {n \in Names : contact[n] \in {"measured", "coasting"}}
Present == [sim |-> 0, wall |-> 0]

-----------------------------------------------------------------------------
(* VisionContacts.designate: the state machine starts over, also when the   *)
(* name is the one designated already.                                      *)
Designate(n) == designated' = n /\ locked' = FALSE

(* The start of the call, up to its first await.                            *)
Call(n, m, h) ==
  /\ phase = "ready"
  /\ name' = n /\ mode' = m /\ hold' = h
  /\ \/ n \in Positioned /\ phase' = "tune" /\ ending' = ending /\ Designate(n)
     \/ contact[n] = "bearing" /\ phase' = "engage" /\ ending' = ending
        /\ Designate(n)
     \/ contact[n] = "absent" /\ phase' = "done" /\ ending' = "unknown"
        /\ UNCHANGED <<designated, locked>>
  /\ left' = Budget
  /\ UNCHANGED <<tries, lost, contact, vehicle, gone, cleanup>>

Raise(e) == phase' = "release" /\ ending' = e

(* _acquire: prime and start offboard; a refusal is swallowed, a missing    *)
(* fix raises.                                                              *)
Engage ==
  /\ phase = "engage"
  /\ \/ phase' = "acquire" /\ ending' = ending /\ px4' \in {px4, "offboard"}
     \/ Raise("error") /\ px4' = px4
  /\ UNCHANGED <<name, mode, hold, left, tries, lost, provider, stray, over, setpoint, gone, cleanup>>

(* Mutant of Acquire: the servo goes on past its budget until it has a lock.*)
AcquireForever ==
  /\ phase = "acquire"
  /\ \/ locked /\ Raise("acquired") /\ left' = left
     \/ left > 0 /\ ~ locked /\ left' = left - 1 /\ UNCHANGED <<phase, ending>>
     \/ left > 0 /\ Raise("error") /\ left' = left
  /\ UNCHANGED <<name, mode, hold, tries, lost, provider, vehicle, gone, cleanup>>

(* One turn of the acquisition servo.                                       *)
Acquire ==
  /\ phase = "acquire"
  /\ \/ left > 0 /\ locked /\ Raise("acquired") /\ left' = left
     \/ left > 0 /\ ~ locked /\ left' = left - 1 /\ UNCHANGED <<phase, ending>>
     \/ left = 0 /\ Raise("budget") /\ left' = left
     \/ left > 0 /\ Raise("error") /\ left' = left
  /\ UNCHANGED <<name, mode, hold, tries, lost, provider, vehicle, gone, cleanup>>

(* The finally clause of the acquisition and of the loop: the shielded      *)
(* offboard.stop raises (what it asked for may be done all the same) ...    *)
StopFails ==
  /\ phase \in {"release", "leave"} /\ ~ fallback
  /\ fallback' = TRUE
  /\ px4' \in {px4, "hold"}
  /\ UNCHANGED <<call, provider, stray, over, setpoint, gone, unheard>>

(* Mutant of LeftOffboard: what stop raises is swallowed, without a hold.   *)
LeftWithoutHold ==
  /\ fallback' = FALSE
  /\ px4' \in IF fallback THEN {px4} ELSE {"hold"}
  /\ UNCHANGED unheard

(* ... and then action.hold does its work or raises too, which is swallowed.*)
LeftOffboard ==
  /\ fallback' = FALSE
  /\ \/ px4' = "hold" /\ unheard' = {}
     \/ /\ fallback /\ px4 = "offboard" /\ UNCHANGED px4
        /\ unheard' = unheard \cup {"cleanup"}

(* The end of _acquire's finally: a designation that won no position goes.  *)
ClearUnlessPositioned ==
  IF name \in Positioned THEN UNCHANGED <<designated, locked>>
  ELSE designated' = None /\ locked' = FALSE

(* The end of _acquire's finally clause and what its caller makes of the    *)
(* result; a lock won after the budget counts.  Before a pursuit the name   *)
(* is designated anew, which drops the lock just won.                       *)
Release ==
  /\ phase = "release"
  /\ LeftOffboard
  /\ \/ /\ ending \in {"error", "cancelled"}
        /\ phase' = "done" /\ ending' = ending
        /\ ClearUnlessPositioned
     \/ /\ ending = "acquired" /\ name \notin Positioned
        /\ phase' = "done" /\ ending' = "no_position"
        /\ ClearUnlessPositioned
     \/ /\ ending = "budget" /\ ~ (locked /\ name \in Positioned)
        /\ phase' = "done" /\ ending' = "not_acquired"
        /\ ClearUnlessPositioned
     \/ /\ ending = "acquired" \/ (ending = "budget" /\ locked)
        /\ name \in Positioned
        /\ phase' = "tune" /\ ending' = "none"
        /\ Designate(name)
  /\ UNCHANGED <<name, mode, hold, left, tries, lost, contact, stray, over, setpoint, gone>>

(* tune_pursuit_params, then the frame offset, which needs a fix.           *)
Tune ==
  /\ phase = "tune"
  /\ \/ phase' = "prime" /\ ending' = ending
     \/ phase' = "done" /\ ending' = "no_fix"
  /\ UNCHANGED <<name, mode, hold, left, tries, lost, provider, vehicle, gone, cleanup>>

(* Mutant of Start: a refused start is tried again without a limit.         *)
StartForever ==
  /\ phase = "prime"
  /\ \/ /\ phase' = "chase" /\ ending' = ending /\ px4' = "offboard"
        /\ left' = Duration /\ tries' = tries
     \/ /\ tries' = tries + 1
        /\ UNCHANGED <<phase, ending, px4, left>>
  /\ UNCHANGED <<name, mode, hold, lost, provider, stray, over, setpoint, gone, cleanup>>

(* An OffboardError: PX4 refuses, or its answer is lost or late and it may  *)
(* have changed its mode.                                                   *)
StartRefused ==
  /\ tries' = tries + 1
  /\ px4' \in {px4, "offboard"}
  /\ unheard' = IF px4' = px4 THEN unheard ELSE unheard \cup {"start"}

(* The offboard start: PX4 may refuse the first ones.  Any other exception  *)
(* leaves the call from outside the try of the loop, as the last refusal.   *)
Start ==
  /\ phase = "prime"
  /\ \/ /\ phase' = "chase" /\ ending' = ending /\ px4' = "offboard"
        /\ left' = Duration /\ unheard' = {} /\ UNCHANGED tries
     \/ /\ tries + 1 < Attempts /\ StartRefused
        /\ UNCHANGED <<phase, ending, left>>
     \/ /\ tries + 1 >= Attempts /\ StartRefused
        /\ phase' = "done" /\ ending' = "refused"
        /\ UNCHANGED left
     \/ /\ phase' = "done" /\ ending' = "cut" /\ px4' \in {px4, "offboard"}
        /\ UNCHANGED <<left, tries, unheard>>
  /\ UNCHANGED <<name, mode, hold, lost, provider, stray, over, setpoint, gone, fallback>>

-----------------------------------------------------------------------------
(* The pursuit loop.                                                        *)
Leave(e) == phase' = "leave" /\ ending' = e
Stay == UNCHANGED <<phase, ending>>

(* clamp_ref_alt: over a building, never lower than 3 m above its roof.     *)
Clamp(roof) == IF roof > 0 /\ Alt < roof + 3 THEN roof + 3 ELSE Alt

(* Orbit and the held shadow stream control_ref's reference as it is; the   *)
(* shaper's altitude profile is capped by the acquired altitude plus one,   *)
(* and `min` puts it under the clamp.                                       *)
Direct == mode = "orbit" \/ (mode = "shadow" /\ hold)
Profile == IF hold THEN {Alt} ELSE 1 .. Alt + 1
Lower(x, y) == IF x < y THEN x ELSE y
Altitudes(roof) == IF Direct THEN {Clamp(roof)}
                   ELSE {Lower(Clamp(roof), p) : p \in Profile}

Stream(roof, up) == setpoint' = [roof |-> roof, up |-> up]

(* Mutant of Target: the adopted contact is not designated.                 *)
TargetOnly(n) ==
  /\ IF name \in Positioned THEN n = name ELSE n \in Positioned
  /\ name' = n
  /\ UNCHANGED <<designated, locked>>

(* The contact of this tick: the one pursued or, when it has no position,   *)
(* one _readopt_contact finds alone in its gate; the designation follows.   *)
Target(n) ==
  /\ IF name \in Positioned THEN n = name ELSE n \in Positioned
  /\ name' = n
  /\ IF n = name THEN UNCHANGED <<designated, locked>> ELSE Designate(n)

Found == lost' = Present /\ gone' = Present

(* A tick with a contact.  Without a fix nothing is streamed; a coasting    *)
(* contact is not approached and cannot be hit; else the gap decides an     *)
(* intercept, or a reference is streamed and the vehicle follows it.        *)
Follow(n) ==
  /\ phase = "chase" /\ left > 0
  /\ Target(n) /\ Found
  /\ left' = left - 1
  /\ \/ UNCHANGED <<phase, ending, over, setpoint>>
     \/ contact[n] = "coasting" /\ Stream(over, Alt) /\ Stay /\ UNCHANGED over
     \/ /\ contact[n] = "measured" /\ mode = "intercept"
        /\ Leave("hit") /\ UNCHANGED <<over, setpoint>>
     \/ /\ contact[n] = "measured"
        /\ Stay
        /\ \E roof \in Roofs : \E up \in Altitudes(roof) : Stream(roof, up) /\ over' = roof
  /\ UNCHANGED <<mode, hold, tries, contact, px4, stray, cleanup>>

(* One more missed tick: the first starts both clocks, sim time may stand   *)
(* still or run ahead of the wall's.                                        *)
UpTo(n) == Lower(n, LostS + 1)
Missed(c, sim) == [sim |-> IF c.wall = 0 THEN 0 ELSE UpTo(c.sim + sim),
                   wall |-> Lower(c.wall + 1, LostS + 2)]

(* Mutant of Expired: the loss is timed on the simulator's clock only.      *)
ExpiredInSim(c) == c.sim > LostS

Expired(c) == c.sim > LostS \/ c.wall - 1 > LostS

(* A tick without a contact: hold where the vehicle is, or over the last    *)
(* estimate when there is no fix, until lost_s has passed on either clock.  *)
Miss(sim) ==
  /\ phase = "chase" /\ left > 0
  /\ name \notin Positioned
  /\ lost' = Missed(lost, sim) /\ gone' = Missed(gone, sim)
  /\ left' = left - 1
  /\ IF Expired(lost') THEN Leave("lost") /\ UNCHANGED setpoint
     ELSE Stay /\ \E roof \in Roofs : Stream(roof, Alt)
  /\ UNCHANGED <<name, mode, hold, tries, provider, px4, stray, over, cleanup>>

TimeUp ==
  /\ phase = "chase" /\ left = 0
  /\ Leave("over")
  /\ UNCHANGED <<name, mode, hold, left, tries, lost, provider, vehicle, gone, cleanup>>

(* A setpoint RPC raises.                                                   *)
Breaks ==
  /\ phase = "chase" /\ left > 0
  /\ Leave("error")
  /\ UNCHANGED <<name, mode, hold, left, tries, lost, provider, vehicle, gone, cleanup>>

(* The end of the loop's finally clause.                                    *)
Stop ==
  /\ phase = "leave"
  /\ LeftOffboard
  /\ phase' = "done"
  /\ UNCHANGED <<ending, name, mode, hold, left, tries, lost, provider, stray, over, setpoint, gone>>

-----------------------------------------------------------------------------
(* The cancellation of the call's task, at whichever await it is.           *)

(* Where the cancelled await is inside a try, its finally runs.             *)
Unwind ==
  \/ phase \in {"engage", "acquire"} /\ Raise("cancelled")
  \/ phase = "chase" /\ Leave("cancelled")
  \/ phase = "tune" /\ phase' = "done" /\ ending' = "cancelled"

Cancel ==
  /\ phase \in {"engage", "acquire", "tune", "chase"}
  /\ Unwind
  /\ px4' \in IF phase = "engage" THEN {px4, "offboard"} ELSE {px4}
  /\ UNCHANGED <<name, mode, hold, left, tries, lost, provider, stray, over, setpoint, gone, cleanup>>

(* During the offboard start no try is open yet: what was sent may arrive.  *)
CancelStart ==
  /\ phase = "prime"
  /\ phase' = "done" /\ ending' = "cut"
  /\ px4' \in {px4, "offboard"}
  /\ UNCHANGED <<name, mode, hold, left, tries, lost, provider, stray, over, setpoint, gone, cleanup>>

(* In the finally clause: the rest of it is skipped.  The shielded stop     *)
(* goes on without anyone to fall back to hold; the hold has no shield.     *)
CancelStop ==
  /\ phase \in {"release", "leave"}
  /\ phase' = "done" /\ ending' = "torn"
  /\ stray' = ~ fallback
  /\ px4' \in IF fallback THEN {px4, "hold"} ELSE {px4}
  /\ UNCHANGED <<name, mode, hold, left, tries, lost, provider, over, setpoint, gone, cleanup>>

StrayEnds ==
  /\ stray
  /\ stray' = FALSE
  /\ px4' \in {px4, "hold"}
  /\ UNCHANGED <<call, provider, over, setpoint, gone, cleanup>>

(* The vision pipeline's task; what it does after the call is left out.     *)
Perceive(n, s) ==
  /\ phase # "done"
  /\ contact' = [contact EXCEPT ![n] = s]
  /\ locked' \in BOOLEAN
  /\ locked' => designated \in Names /\ contact'[designated] \in {"measured", "coasting"}
  /\ UNCHANGED <<call, designated, vehicle, gone, cleanup>>

Modes == {"shadow", "intercept", "orbit"}
Knowledge == {"absent", "bearing", "measured", "coasting"}

Init ==
  /\ phase = "ready" /\ ending = "none"
  /\ name = None /\ mode = "shadow" /\ hold = FALSE
  /\ left = 0 /\ tries = 0
  /\ lost = Present /\ gone = Present
  /\ contact \in [Names -> Knowledge]
  /\ designated \in Names \cup {None}
  /\ locked = FALSE
  /\ px4 = "hold" /\ stray = FALSE
  /\ over = 0 /\ setpoint = [roof |-> 0, up |-> Alt]
  /\ fallback = FALSE /\ unheard = {}

Proceed == \/ Engage \/ Acquire \/ Release \/ Tune \/ Start
           \/ \E n \in Names : Follow(n)
           \/ \E sim \in 0 .. 2 : Miss(sim)
           \/ TimeUp \/ Breaks \/ StopFails \/ Stop

Next == \/ Proceed
        \/ \E n \in Names, m \in Modes, h \in BOOLEAN : Call(n, m, h)
        \/ Cancel \/ CancelStart \/ CancelStop \/ StrayEnds
        \/ \E n \in Names, s \in Knowledge : Perceive(n, s)

(* Sleeps end and RPCs are answered; nothing else is owed.                  *)
Spec == Init /\ [][Next]_vars
FairSpec == Spec /\ WF_vars(Proceed)

-----------------------------------------------------------------------------
Endings == {"none", "unknown", "acquired", "budget", "not_acquired", "no_position",
            "no_fix", "refused", "cut", "torn", "cancelled", "error", "lost",
            "hit", "over"}

(* The values of the call's state, the provider's and the vehicle's.        *)
TypeOK ==
  /\ phase \in {"ready", "engage", "acquire", "release", "tune", "prime", "chase",
                "leave", "done"}
  /\ ending \in Endings
  /\ name \in Names \cup {None}
  /\ mode \in Modes /\ hold \in BOOLEAN
  /\ left \in 0 .. Budget + Duration /\ tries \in 0 .. Attempts
  /\ lost \in [sim : 0 .. LostS + 1, wall : 0 .. LostS + 2]
  /\ gone \in [sim : 0 .. LostS + 1, wall : 0 .. LostS + 2]
  /\ contact \in [Names -> Knowledge]
  /\ designated \in Names \cup {None}
  /\ locked \in BOOLEAN
  /\ px4 \in {"hold", "offboard"} /\ stray \in BOOLEAN
  /\ over \in Roofs
  /\ setpoint.roof \in Roofs /\ setpoint.up \in Nat
  /\ fallback \in BOOLEAN /\ unheard \subseteq {"start", "cleanup"}

(* However a call ends, by its clock, a hit, a loss, a failing RPC or a     *)
(* cancellation, PX4 is out of offboard mode, unless stop and the hold      *)
(* behind it both failed, a start PX4 obeyed came back as failed four times *)
(* over, or the call was cut inside the offboard start or cancelled inside  *)
(* the finally clause: each of these the code lets happen, and no other     *)
(* (ops.py:352 and 1023, "leave offboard cleanly even on cancellation").    *)
LeavesOffboard ==
  (phase = "done" /\ px4 = "offboard") =>
    \/ "cleanup" \in unheard
    \/ ending = "refused" /\ "start" \in unheard
    \/ ending \in {"cut", "torn"}

(* From the first tick of a pursuit to its last, through every rebirth of   *)
(* the contact's name, the designation is on the contact pursued: a beam on *)
(* another name would starve the fusion the pursuit flies on                *)
(* (ops.py:707-716).                                                        *)
DesignationFollows ==
  phase \in {"engage", "acquire", "tune", "prime", "chase"} => designated = name

(* A contact that stays away ends the pursuit lost_s after it was first     *)
(* missed, also when the simulator's clock stands still (ops.py:721-722).   *)
LostBounded == phase = "chase" => gone.wall <= LostS + 1

(* LOST is reported of a contact that has been missing for more than lost_s *)
(* without a break: an earlier absence does not count (ops.py:735-736).     *)
LostOnlyWhenGone ==
  ending = "lost" => gone.sim > LostS \/ gone.wall > LostS + 1

(* An acquisition that wins no position does not leave its contact          *)
(* designated, which would reserve the beam for it (ops.py:360-365).        *)
AcquireReleases ==
  (phase = "done" /\ ending \in {"not_acquired", "no_position"})
    => designated \in Positioned \cup {None}

(* A call that was made ends, whatever PX4 refuses and the sensors miss.    *)
CallEnds == phase # "ready" ~> phase = "done"

(* What the comment on the altitude profile says: the building clamp wins,  *)
(* no pursuit setpoint over a building is below its roof plus 3 m           *)
(* (ops.py:993, track.py:clamp_ref_alt).                                    *)
AboveRoof == setpoint.roof > 0 => setpoint.up >= setpoint.roof + 3

(* What the comment on the second designation says: after an acquisition it *)
(* is a no-op, so the lock just won is kept (ops.py:597).                   *)
RedesignateIsNoop ==
  [][phase = "release" /\ phase' = "tune" => locked' = locked]_vars

-----------------------------------------------------------------------------
(* The inductive form of LeavesOffboard: PX4 is in offboard mode only where *)
(* a finally clause is still to come, or after one of the four exceptions.  *)
OffboardHeld ==
  px4 = "offboard" =>
    \/ phase \in {"acquire", "release", "chase", "leave"}
    \/ "cleanup" \in unheard
    \/ "start" \in unheard /\ (phase = "prime" \/ (phase = "done" /\ ending = "refused"))
    \/ phase = "done" /\ ending \in {"cut", "torn"}

(* The inductive form of DesignationFollows: the finally clause of the      *)
(* acquisition is reached, and left for a pursuit, with it.                 *)
DesignationHeld == phase \in {"engage", "acquire", "release", "tune", "prime", "chase"}
                     => designated = name

(* The inductive form of the two properties of a loss: the loop's clocks    *)
(* are the true ones, are clear before the loop, and have not expired while *)
(* it runs; LOST is said after they have.                                   *)
LossTimed ==
  /\ lost \in [sim : Nat, wall : Nat]
  /\ gone = lost
  /\ phase \in {"ready", "engage", "acquire", "release", "tune", "prime"} => lost = Present
  /\ phase = "chase" => lost.wall <= LostS + 1
  /\ ending = "lost" => phase \in {"leave", "done"} /\ Expired(lost)
=============================================================================
