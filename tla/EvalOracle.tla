----------------------------- MODULE EvalOracle -----------------------------
(***************************************************************************)
(* How a cell of the evaluation is judged: the sampler that polls the       *)
(* simulator's truth while the model flies (evals/sampler.py), the lock     *)
(* that the first targeting call leaves (evals/perceive_eval.py), and the   *)
(* checks over the finished track (evals/oracle.py) for a task whose file   *)
(* was validated before the flight (evals/spec.py).                         *)
(*                                                                          *)
(* A sample holds one drone (the sampler's only one) and its movers, each   *)
(* at a place or, in a brief loss of its fix, nowhere.                      *)
(***************************************************************************)
EXTENDS Integers, Sequences, FiniteSets, SequencesExt, FiniteSetsExt

CONSTANTS
  Points,      \* the places there are
  Dist(_, _),  \* the distance of two of them
  Nowhere,     \* no fix
  Origin,      \* where the geofence is centred
  Movers,
  Ticks,       \* what a poll may find: [pos, alt, mov]
  Tasks,       \* task files: [fields, checks, params, p]
  MaxAssoc,    \* MAX_ASSOC_M
  MaxSamples,  \* bound: samples in a track
  MaxTime,     \* bound: the time of the last of them
  MaxCalls     \* bound: tool calls

Fixes == Points \cup {Nowhere}
Scenes == [pos : Fixes, alt : Nat, mov : [Movers -> Fixes]]
Samples == [t : Nat, pos : Fixes, alt : Nat, mov : [Movers -> Fixes]]

(* What the checks read of a task's file; a point stands for its name.      *)
Parameters ==
  [target : Points, tol_m : Nat, targets : Seq(Points), min_count : Nat,
   area : SUBSET Points, radius_m : Nat, min_pct : Nat, geofence_m : Nat,
   max_steps : Nat, min_alt : Nat, max_alt : Nat, buildings : SUBSET Points,
   margin_m : Nat, grace_s : Nat, max_path : Nat, hold_s : Nat,
   mover : Movers, zone : Fixes, zone_radius_m : Nat,
   min_fraction : Nat, max_gap_s : Nat, truth : Movers, max_assoc_m : Nat]

ASSUME OracleAssumption ==
  /\ IsFiniteSet(Points)
  /\ \A p, q \in Points : Dist(p, q) \in Nat /\ Dist(p, q) = Dist(q, p)
  /\ Nowhere \notin Points /\ Nowhere \notin Movers /\ Origin \in Points
  /\ Ticks \subseteq Scenes
  /\ \A file \in Tasks : file.p \in Parameters
  /\ MaxSamples \in Nat /\ MaxTime \in Nat /\ MaxCalls \in Nat /\ MaxAssoc \in Nat

VARIABLES
  phase,  \* "loading", "refused", "flying", "graded", "raised"
  task,   \* the task file
  snaps,  \* Sampler._snaps
  steps,  \* trace.steps
  lock,   \* trace.meta["target_lock"]: [truth, err], or Nowhere
  disarmed, \* run_meta["landed"]
  verdict \* GradeResult.passed

judgeVars == <<phase, task, snaps, steps, lock, disarmed, verdict>>

Stamps == DOMAIN snaps
AtTime(i) == snaps[i].t
Fixed(i) == snaps[i].pos # Nowhere
Within(i, place, tol) == Fixed(i) /\ Dist(snaps[i].pos, place) <= tol

(* min_dist_to(place) <= tol, over the whole track.                         *)
Visited(place, tol) == \E i \in Stamps : Within(i, place, tol)

(* _mover_sep: whether both were seen in one sample, and how far apart.     *)
Seen(i, mover) == Fixed(i) /\ snaps[i].mov[mover] # Nowhere
Sep(i, mover) == Dist(snaps[i].pos, snaps[i].mov[mover])
Beside(i, mover, tol) == Seen(i, mover) /\ Sep(i, mover) <= tol

-----------------------------------------------------------------------------
(* The checks, with the parameters p of the task's file.                    *)
Reached(p) == Visited(p.target, p.tol_m)
NotReached(p) == ~ Visited(p.target, p.tol_m)
NotVisited(p) == {k \in DOMAIN p.targets : ~ Visited(p.targets[k], p.tol_m)}
VisitedAll(p) == NotVisited(p) = {}
MinVisited(p) == Len(p.targets) - Cardinality(NotVisited(p)) >= p.min_count

(* coverage: the cells of the area are the places in it.                    *)
Coverage(p) ==
  LET covered == {c \in p.area : Visited(c, p.radius_m)}
  IN IF p.area = {} THEN p.min_pct <= 0
     ELSE 100 * Cardinality(covered) >= p.min_pct * Cardinality(p.area)

Alive(p) == \A i \in Stamps : Fixed(i) => Dist(snaps[i].pos, Origin) <= p.geofence_m
WithinStepBudget(p) == steps <= p.max_steps
Landed(p) == disarmed

(* Mutant of FirstReach: a sample may stand for two stops of the route.     *)
FirstReachFrom(place, tol, after) ==
  LET hits == {AtTime(i) : i \in {j \in Stamps : AtTime(j) >= after /\ Within(j, place, tol)}}
  IN IF hits = {} THEN MaxTime + 1 ELSE Min(hits)

(* _first_reach_time; a time beyond every sample's where there is none.     *)
FirstReach(place, tol, after) ==
  LET hits == {AtTime(i) : i \in {j \in Stamps : AtTime(j) > after /\ Within(j, place, tol)}}
  IN IF hits = {} THEN MaxTime + 1 ELSE Min(hits)

(* ordering: each stop is chained to its first visit behind the last one.   *)
Chain(p) ==
  LET chain[k \in 0 .. Len(p.targets)] ==
        IF k = 0 THEN -1 ELSE FirstReach(p.targets[k], p.tol_m, chain[k - 1])
  IN chain

Ordering(p) == Chain(p)[Len(p.targets)] <= MaxTime

(* altitude: at the first of the samples closest to the target.             *)
Altitude(p) ==
  LET fixes == {i \in Stamps : Fixed(i)}
      closest == {i \in fixes : \A j \in fixes :
                    Dist(snaps[i].pos, p.target) <= Dist(snaps[j].pos, p.target)}
  IN fixes # {} /\ snaps[Min(closest)].alt \in p.min_alt .. p.max_alt

AltCeiling(p) == \A i \in Stamps : Fixed(i) => snaps[i].alt <= p.max_alt
Clearance(p) == \A i \in Stamps : \A b \in p.buildings :
  Fixed(i) => Dist(snaps[i].pos, b) >= p.margin_m
AvoidArea(p) == \A i \in Stamps : ~ (AtTime(i) >= p.grace_s /\ snaps[i].pos \in p.area)

(* path_length: the legs between one fix and the next.                      *)
Leg(k) ==
  LET earlier == {i \in 1 .. k - 1 : Fixed(i)}
  IN IF ~ Fixed(k) \/ earlier = {} THEN 0
     ELSE Dist(snaps[Max(earlier)].pos, snaps[k].pos)

Flown ==
  LET total[k \in 0 .. Len(snaps)] == IF k = 0 THEN 0 ELSE total[k - 1] + Leg(k)
  IN total

PathLength(p) == Flown[Len(snaps)] <= p.max_path

(* final_pos: a last sample without a fix is infinitely far off.            *)
FinalPos(p) == snaps # <<>> /\ Within(Len(snaps), p.target, p.tol_m)

-----------------------------------------------------------------------------
(* The runs of samples that dwell, dwell_moving and escort time: when this  *)
(* one began, how many samples it has missed in a row, the longest so far.  *)
NoRun == [start |-> -1, gap |-> 0, best |-> 0]

(* Mutant of Out: a run survives any number of single misses in a row.      *)
OutForgiven(run, forgiven) == [run EXCEPT !.gap = 1]

Out(run, forgiven) ==
  [start |-> IF run.gap >= forgiven THEN -1 ELSE run.start,
   gap |-> run.gap + 1, best |-> run.best]

In(run, t) ==
  LET start == IF run.start < 0 THEN t ELSE run.start
  IN [start |-> start, gap |-> 0,
      best |-> IF t - start > run.best THEN t - start ELSE run.best]

(* Of the samples looked at, some are held.                                 *)
Runs(looked, held, forgiven) ==
  LET run[k \in 0 .. Len(snaps)] ==
        IF k = 0 THEN NoRun
        ELSE IF k \notin looked THEN run[k - 1]
        ELSE IF k \in held THEN In(run[k - 1], AtTime(k)) ELSE Out(run[k - 1], forgiven)
  IN run

Longest(looked, held, forgiven) == Runs(looked, held, forgiven)[Len(snaps)].best

(* _max_dwell breaks at the first miss, dwell_moving at two in a row.       *)
HeldAt(p) == {i \in Stamps : Within(i, p.target, p.tol_m)}
HeldBy(p) == {i \in Stamps : Beside(i, p.mover, p.tol_m)}
MaxDwell(p) == Longest(Stamps, HeldAt(p), 0)
MaxDwellMoving(p) == Longest(Stamps, HeldBy(p), 1)
Dwell(p) == MaxDwell(p) >= p.hold_s
DwellMoving(p) == MaxDwellMoving(p) >= p.hold_s

(* intercept: a contact while the mover is still outside the zone.          *)
Intercept(p) == \E i \in Stamps :
  /\ Beside(i, p.mover, p.tol_m)
  /\ p.zone = Nowhere \/ Dist(snaps[i].mov[p.mover], p.zone) > p.zone_radius_m

AvoidMoving(p) == \A i \in Stamps :
  AtTime(i) >= p.grace_s /\ Seen(i, p.mover) => Sep(i, p.mover) >= p.margin_m

(* Mutant of Window: a sample that did not see both counts as one apart.    *)
WindowOfAll(p) == {i \in Stamps : \E k \in HeldBy(p) : k <= i}

(* escort: of the samples that saw both, those from the first join on.  A   *)
(* gap is a run of samples apart.                                           *)
InSight(p) == {i \in Stamps : Seen(i, p.mover)}
Window(p) == {i \in InSight(p) : \E k \in HeldBy(p) : k <= i}
WorstGap(p) == Longest(Window(p), Window(p) \ HeldBy(p), 0)

Escort(p) ==
  /\ Window(p) # {}
  /\ 100 * Cardinality(HeldBy(p)) >= p.min_fraction * Cardinality(Window(p))
  /\ WorstGap(p) <= p.max_gap_s

IdentifiedTarget(p) ==
  lock # Nowhere /\ lock.truth = p.truth /\ lock.err <= p.max_assoc_m

(* CHECKS                                                                   *)
Checks == {"reached", "coverage", "alive", "within_step_budget", "landed",
           "visited_all", "ordering", "altitude", "dwell", "clearance",
           "not_reached", "avoid_area", "path_length", "alt_ceiling", "final_pos",
           "min_visited", "intercept", "dwell_moving", "avoid_moving", "escort",
           "identified_target"}

Passes(check, p) ==
  CASE check = "reached" -> Reached(p)
    [] check = "coverage" -> Coverage(p)
    [] check = "alive" -> Alive(p)
    [] check = "within_step_budget" -> WithinStepBudget(p)
    [] check = "landed" -> Landed(p)
    [] check = "visited_all" -> VisitedAll(p)
    [] check = "ordering" -> Ordering(p)
    [] check = "altitude" -> Altitude(p)
    [] check = "dwell" -> Dwell(p)
    [] check = "clearance" -> Clearance(p)
    [] check = "not_reached" -> NotReached(p)
    [] check = "avoid_area" -> AvoidArea(p)
    [] check = "path_length" -> PathLength(p)
    [] check = "alt_ceiling" -> AltCeiling(p)
    [] check = "final_pos" -> FinalPos(p)
    [] check = "min_visited" -> MinVisited(p)
    [] check = "intercept" -> Intercept(p)
    [] check = "dwell_moving" -> DwellMoving(p)
    [] check = "avoid_moving" -> AvoidMoving(p)
    [] check = "escort" -> Escort(p)
    [] check = "identified_target" -> IdentifiedTarget(p)

-----------------------------------------------------------------------------
(* Mutant of LoadTask: the fields are not looked at.                        *)
LoadAnything ==
  /\ phase = "loading"
  /\ phase' = IF task.checks \subseteq Checks THEN "flying" ELSE "refused"
  /\ UNCHANGED <<task, snaps, steps, lock, disarmed, verdict>>

(* load_task: the fields of the file and the names of its checks, none of   *)
(* the parameters behind them.                                              *)
LoadTask ==
  /\ phase = "loading"
  /\ phase' = IF task.fields /\ task.checks # {} /\ task.checks \subseteq Checks
              THEN "flying" ELSE "refused"
  /\ UNCHANGED <<task, snaps, steps, lock, disarmed, verdict>>

(* Sampler.run: snapshot_now, and half a second's sleep or more.            *)
Sample(tick, dt) ==
  LET t == IF snaps = <<>> THEN 0 ELSE Last(snaps).t + dt
  IN /\ phase = "flying" /\ Len(snaps) < MaxSamples /\ t <= MaxTime
     /\ snaps' = Append(snaps, [t |-> t, pos |-> tick.pos, alt |-> tick.alt, mov |-> tick.mov])
     /\ UNCHANGED <<phase, task, steps, lock, disarmed, verdict>>

(* associate_to_truth: the nearest mover in the gate.                       *)
InGate(xy, tick) ==
  {m \in Movers : tick.mov[m] # Nowhere /\ Dist(xy, tick.mov[m]) <= MaxAssoc}

Associate(xy, tick, m) ==
  IF xy = Nowhere \/ InGate(xy, tick) = {} THEN m = Nowhere
  ELSE /\ m \in InGate(xy, tick)
       /\ \A n \in InGate(xy, tick) : Dist(xy, tick.mov[m]) <= Dist(xy, tick.mov[n])

(* A tool call that targets no contact.                                     *)
PlainCall ==
  /\ phase = "flying" /\ steps < MaxCalls
  /\ steps' = steps + 1
  /\ UNCHANGED <<phase, task, snaps, lock, disarmed, verdict>>

(* note_target_lock, behind a track or goto at a contact measured at xy:    *)
(* the first one stays.                                                     *)
TargetCall(xy, tick, m) ==
  /\ phase = "flying" /\ steps < MaxCalls
  /\ Associate(xy, tick, m)
  /\ steps' = steps + 1
  /\ lock' = IF lock # Nowhere THEN lock
             ELSE [truth |-> m, err |-> IF m = Nowhere THEN 0 ELSE Dist(xy, tick.mov[m])]
  /\ UNCHANGED <<phase, task, snaps, disarmed, verdict>>

(* The turn is over and settled: sampler.stop(), and grade() over its       *)
(* track.  A parameter that is missing raises there, out of run_cell.       *)
GradeTrack(down) ==
  /\ phase = "flying" /\ snaps # <<>>
  /\ disarmed' = down /\ UNCHANGED <<task, snaps, steps, lock>>
  /\ IF task.params
     THEN /\ phase' = "graded"
          /\ verdict' = \A check \in task.checks : Passes(check, task.p)'
     ELSE phase' = "raised" /\ UNCHANGED verdict

JudgeInit ==
  /\ phase = "loading" /\ task \in Tasks /\ snaps = <<>>
  /\ steps = 0 /\ lock = Nowhere /\ disarmed = FALSE /\ verdict = FALSE

JudgeNext ==
  \/ LoadTask
  \/ \E tick \in Ticks, dt \in 1 .. 2 : Sample(tick, dt)
  \/ PlainCall
  \/ \E xy \in Fixes, tick \in Ticks, m \in Movers \cup {Nowhere} :
       TargetCall(xy, tick, m)
  \/ \E down \in BOOLEAN : GradeTrack(down)

JudgeSpec == JudgeInit /\ [][JudgeNext]_judgeVars

-----------------------------------------------------------------------------
(* The tasks' parameters: each check is looked at with each of them.        *)
Params == {file.p : file \in Tasks}

(* Every variable keeps its type; samples come in the order of their times, *)
(* and nothing flies whose file lacks a field or names an unknown check.    *)
JudgeTypeOK ==
  /\ phase \in {"loading", "refused", "flying", "graded", "raised"}
  /\ task \in Tasks /\ steps \in 0 .. MaxCalls /\ disarmed \in BOOLEAN /\ verdict \in BOOLEAN
  /\ lock = Nowhere \/ (lock.truth \in Movers \cup {Nowhere} /\ lock.err \in 0 .. MaxAssoc)
  /\ snaps \in Seq(Samples) /\ Len(snaps) <= MaxSamples
  /\ \A i \in Stamps : AtTime(i) \in 0 .. MaxTime /\ \A j \in Stamps : i < j => AtTime(i) < AtTime(j)
  /\ ~ (task.fields /\ task.checks \subseteq Checks) => snaps = <<>> /\ lock = Nowhere

(* The greedy chain of ordering misses no way of visiting the stops in that *)
(* order, each behind the last (oracle.py: "doesn't false-fail when a       *)
(* waypoint coincides with an earlier position"), and invents none.         *)
OrderingIsExact == \A p \in Params :
  Ordering(p) <=>
    \E visit \in [DOMAIN p.targets -> Stamps] :
      /\ \A k \in DOMAIN p.targets : Within(visit[k], p.targets[k], p.tol_m)
      /\ \A k, l \in DOMAIN p.targets : k < l => visit[k] < visit[l]

(* The time between two samples held, with no sample missed between them,   *)
(* or no two in a row.                                                      *)
Unbroken(i, j, held, forgiven) ==
  /\ i <= j /\ {i, j} \subseteq held
  /\ \A k \in i .. j - forgiven : held \cap (k .. k + forgiven) # {}

Spans(held, forgiven) ==
  {AtTime(ij[2]) - AtTime(ij[1]) :
     ij \in {pair \in Stamps \X Stamps : Unbroken(pair[1], pair[2], held, forgiven)}}

(* What the two dwells time is contiguous and the most there is: "one       *)
(* missing sample doesn't break the run; two consecutive do" for a mover,   *)
(* none for a place.  No gap of an escort is longer than it may be.         *)
HoldsAreContiguous == \A p \in Params :
  /\ MaxDwell(p) = Max(Spans(HeldAt(p), 0) \cup {0})
  /\ MaxDwellMoving(p) = Max(Spans(HeldBy(p), 1) \cup {0})
  /\ Escort(p) => \A i, j \in Stamps :
       /\ \E k \in 1 .. i : Beside(k, p.mover, p.tol_m)
       /\ i < j /\ Seen(i, p.mover) /\ Seen(j, p.mover)
       /\ AtTime(j) - AtTime(i) > p.max_gap_s
       => \E k \in i .. j : Beside(k, p.mover, p.tol_m)

Earned == {"reached", "coverage", "visited_all", "ordering", "dwell", "min_visited",
           "intercept", "dwell_moving"}
Spoilt == {"alive", "clearance", "not_reached", "avoid_area", "path_length",
           "alt_ceiling", "avoid_moving"}
Held == Checks \ {"final_pos", "within_step_budget", "landed", "identified_target"}

(* What the model has achieved no later sample takes away, what it has      *)
(* spoilt none makes good, and a last sample without a fix leaves every     *)
(* verdict but that of where the flight ended as the one before left it.    *)
(* Samples behind it may find that it broke a hold: LostFixForgiven of      *)
(* MCEvalOracle says what a fix lost anywhere in the track may change.      *)
VerdictsSettle == [][\A p \in Params :
  /\ \A check \in Earned : Passes(check, p) => Passes(check, p)'
  /\ \A check \in Spoilt : Passes(check, p)' => Passes(check, p)
  /\ snaps' # snaps /\ Last(snaps').pos = Nowhere =>
       \A check \in Held : (Passes(check, p)' <=> Passes(check, p))]_snaps
=============================================================================
