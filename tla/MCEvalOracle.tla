---------------------------- MODULE MCEvalOracle ----------------------------
(* A street of three places, a mover at its ends and one in the middle, and *)
(* four samples of a flight along it.                                       *)
EXTENDS EvalOracle

CONSTANTS car, van

MCPoints == 0 .. 2
MCDist(p, q) == IF p < q THEN q - p ELSE p - q

Tick(pos, at) ==
  [pos |-> pos, alt |-> IF pos = 1 THEN 2 ELSE 1, mov |-> car :> at @@ van :> 1]

MCTicks == {Tick(0, 0), Tick(1, 0), Tick(1, 2), Tick(2, 2), Tick(2, Nowhere), Tick(Nowhere, 2)}

Near == [target |-> 0, tol_m |-> 0, targets |-> <<0, 1, 0>>, min_count |-> 2,
         area |-> {1}, radius_m |-> 0, min_pct |-> 100, geofence_m |-> 1,
         max_steps |-> 0, min_alt |-> 1, max_alt |-> 1, buildings |-> {2},
         margin_m |-> 1, grace_s |-> 1, max_path |-> 2, hold_s |-> 2,
         mover |-> car, zone |-> Nowhere, zone_radius_m |-> 0,
         min_fraction |-> 50, max_gap_s |-> 1, truth |-> car, max_assoc_m |-> 0]

Wide == [Near EXCEPT !.target = 2, !.tol_m = 1, !.targets = <<0, 2>>,
                     !.area = {0, 2}, !.min_pct = 50, !.geofence_m = 2, !.max_steps = 1,
                     !.max_alt = 2, !.buildings = {}, !.grace_s = 0, !.max_path = 3,
                     !.hold_s = 3, !.zone = 2, !.max_assoc_m = 1]

MCTasks ==
  {[fields |-> TRUE, checks |-> {"ordering", "escort"}, params |-> TRUE, p |-> Near],
   [fields |-> TRUE, checks |-> {"landed", "dwell_moving"}, params |-> FALSE, p |-> Wide],
   [fields |-> TRUE, checks |-> {"orbited"}, params |-> TRUE, p |-> Near],
   [fields |-> FALSE, checks |-> {"alive"}, params |-> TRUE, p |-> Near]}
-----------------------------------------------------------------------------
(* The checks over another track, and the tracks without the samples in     *)
(* which the drone, or one of it and the mover, had no fix.                 *)
On(track) == INSTANCE EvalOracle WITH snaps <- track

WithFix == SelectSeq(snaps, LAMBDA s : s.pos # Nowhere)
WithBoth(mover) == SelectSeq(snaps, LAMBDA s : s.pos # Nowhere /\ s.mov[mover] # Nowhere)

(* sampler.py "tolerates the brief windows" without a fix: wherever in the  *)
(* track they lie, every check but three passes exactly if it passes on the *)
(* track without those samples, the checks on a mover also where it was the *)
(* mover that was not seen.  The two dwells and the final position may lose *)
(* by them what they would otherwise have held, and never gain.             *)
LostFixForgiven == \A p \in Params :
  /\ WithFix # snaps =>
       /\ \A check \in Checks \ {"dwell", "dwell_moving", "final_pos"} :
            Passes(check, p) <=> On(WithFix)!Passes(check, p)
       /\ MaxDwell(p) <= On(WithFix)!MaxDwell(p)
       /\ FinalPos(p) => On(WithFix)!FinalPos(p)
  /\ WithBoth(p.mover) # snaps =>
       /\ \A check \in {"intercept", "avoid_moving", "escort"} :
            Passes(check, p) <=> On(WithBoth(p.mover))!Passes(check, p)
       /\ MaxDwellMoving(p) <= On(WithBoth(p.mover))!MaxDwellMoving(p)

(* sampler.py taken at its word: a drone that was at the place in every     *)
(* sample with a fix for as long as the task asks has dwelt there.  It      *)
(* fails, a single poll without a fix ends _max_dwell's run.                *)
HoldOutlastsLostFix == \A p \in Params : \A i, j \in HeldAt(p) :
  /\ \A k \in i .. j : Fixed(k) => k \in HeldAt(p)
  /\ AtTime(j) - AtTime(i) >= p.hold_s
  => Dwell(p)
=============================================================================
