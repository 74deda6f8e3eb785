-------------------------- MODULE ContactTracker --------------------------
(***************************************************************************)
(* The vision-fed contact tracker (vision/contacts.py) and the acquisition  *)
(* state machine of its one designated contact.  The detector thread        *)
(* (vision/detector.py) publishes its newest inference in a single slot and *)
(* matches a lock request against the next one; the pipeline task           *)
(* (vision/pipeline.py) hands the newest inference to update(), which runs  *)
(* under the tracker's lock and is one step here.                           *)
(* A detection is abstracted to the object it shows, a frame to the set of  *)
(* its detections: they come in any order, so that an index kept from an    *)
(* earlier frame denotes any detection of this one.  What the distance and  *)
(* NIS gates can tell apart is the relation Near; what they reject is left  *)
(* open, since an object may always manoeuvre out of a gate.  One class,    *)
(* birth_hits = 2, and the mover profile (no maneuver mode).                *)
(* Time is counted in ticks of simulated time, as ages.                     *)
(***************************************************************************)
EXTENDS Naturals, FiniteSets, Functions

CONSTANTS
  Objects,      \* the things the camera may see
  Near,         \* pairs <<o, p>> of objects no gate tells apart
  MaxNames,     \* bound on the names vis_<class>_0, _1, ... given out
  Coast,        \* coast_s, in ticks
  Lost,         \* lost_s
  RebindWindow, \* rebind_window_s
  MaxGap,       \* bound on the ticks between two inferences update() sees
  ConfirmHits,  \* confirm_hits
  SlipN,        \* slip_n
  Steady,       \* TRUE: a dead track's prediction stays within the gate of
                \* its object for the whole rebind window
  None

Names == 0..(MaxNames - 1)

ASSUME TrackerAssumption ==
  /\ IsFiniteSet(Objects)
  /\ Near \subseteq Objects \X Objects
  /\ {MaxNames, Coast, Lost, RebindWindow, MaxGap} \subseteq Nat
  /\ ConfirmHits \in Nat \ {0}
  /\ SlipN \in Nat \ {0}
  /\ Steady \in BOOLEAN
  /\ None \notin Nat \cup Objects

VARIABLES
  tracks,     \* _tracks: name -> [obj, pos, age]; obj is what its last
              \* accepted detection showed, pos whether it has an EKF (a
              \* position), age the ticks since t_seen
  graveyard,  \* _graveyard: name -> [obj, age since t_drop]
  cands,      \* _candidates after one hit: [obj, pos, rebind]
  next,       \* _counters: the next fresh name
  designated, \* _designated, a name or None
  acq,        \* _sm_state, _lock_hits (to ConfirmHits), _slip_count (to SlipN)
  seed,       \* Detector._lock_request names an index and a pixel
  result,     \* Detector._latest, [dets, hit], until update() has seen it
  streak,     \* history: fused ranges in a row since the last slip, dropout
              \* or designation (to ConfirmHits)
  stray       \* history: the last step fused a range off the detection of
              \* another object

table == <<tracks, graveyard, cands, next>>
detector == <<seed, result>>
vars == <<table, designated, acq, detector, streak, stray>>

Locked == {"RANGE_LOCKED", "WORLD_TRACKED"}
Tracks == [obj : Objects, pos : BOOLEAN, age : 0..Lost]
Results == [dets : SUBSET Objects, hit : Objects \cup {None}]

NoTracks == [n \in {} |-> None]
Idle == [state |-> "none", hits |-> 0, slips |-> 0]
Designation == [state |-> "DESIGNATED", hits |-> 0, slips |-> 0]

UpTo(bound, n) == IF n > bound THEN bound ELSE n
Confusable(o, p) == o = p \/ <<o, p>> \in Near \/ <<p, o>> \in Near

-----------------------------------------------------------------------------
(* The detector thread: one more inference, overwriting the last.           *)

(* _consume_lock_request: the requested index if the frame is long enough,  *)
(* else the detection nearest to the requested pixel.                       *)
Hits(f) == IF seed /\ f # {} THEN f ELSE {None}

Infer(f) ==
  /\ \E h \in Hits(f) : result' = [dets |-> f, hit |-> h]
  /\ seed' = FALSE
  /\ stray' = FALSE
  /\ UNCHANGED <<table, designated, acq, streak>>

-----------------------------------------------------------------------------
(* _feed_tof: at most one range sample per update, for the designated track *)

(* The detection reserved for the beam: the lock request's, else the one at *)
(* the index the track's last detection had in its own, earlier, frame.     *)
Reserved == IF result.hit # None THEN {result.hit} ELSE result.dets

(* _beam_outcome, a range associated and fused.                             *)
LockStep(a) ==
  [a EXCEPT !.slips = 0,
            !.hits = UpTo(ConfirmHits, @ + 1),
            !.state = CASE a.state = "ACQUIRING" /\ a.hits + 1 >= ConfirmHits
                             -> "RANGE_LOCKED"
                        [] a.state = "RANGE_LOCKED" -> "WORLD_TRACKED"
                        [] a.state = "COASTING" -> "ACQUIRING"
                        [] OTHER -> a.state]

(* Mutant of SlipStep: one more slip than slip_n is tolerated.              *)
SlipStepLate(a) ==
  [a EXCEPT !.hits = 0,
            !.slips = UpTo(SlipN, @ + 1),
            !.state = IF a.slips >= SlipN /\ @ \in Locked
                      THEN "COASTING" ELSE @]

(* _beam_outcome, any other verdict than a declined (out of envelope) one.  *)
SlipStep(a) ==
  [a EXCEPT !.hits = 0,
            !.slips = UpTo(SlipN, @ + 1),
            !.state = IF a.slips + 1 >= SlipN /\ @ \in Locked
                      THEN "COASTING" ELSE @]

(* What the cycle may make of the aged tracks T: nothing (no pose, or the   *)
(* sample is declined), a slip, or a fused range.  A positioned track fuses *)
(* only what its consistency and NIS gates let through; a bearing-only one  *)
(* is born from the range.                                                  *)
BeamCycles(T) ==
  IF designated \notin DOMAIN T
  THEN {[T |-> T, acq |-> acq, streak |-> streak, stray |-> FALSE]}
  ELSE LET a == [acq EXCEPT !.state = IF @ = "DESIGNATED" THEN "ACQUIRING" ELSE @]
           tr == T[designated]
       IN  {[T |-> T, acq |-> a, streak |-> streak, stray |-> FALSE],
            [T |-> T, acq |-> SlipStep(a), streak |-> 0, stray |-> FALSE]}
           \cup {[T |-> [T EXCEPT ![designated].pos = TRUE,
                                  ![designated].age = 0],
                  acq |-> LockStep(a),
                  streak |-> UpTo(ConfirmHits, streak + 1),
                  stray |-> d # tr.obj] :
                    d \in {o \in Reserved : tr.pos => Confusable(o, tr.obj)}}

-----------------------------------------------------------------------------
(* _associate: the frame's measurements update tracks, the rest gather into *)
(* candidates.                                                              *)

(* _measure: the designated hit's detection is measured for the designated  *)
(* track alone, and for nothing when that track is gone.                    *)
Measured(T) == IF designated \in DOMAIN T THEN result.dets
               ELSE result.dets \ {result.hit}

(* Mutant of HitGate: the designated hit is not gated at all.               *)
HitUngated(tr, o) == TRUE

(* _apply_to_track on the designated hit: NIS-gated against a position.     *)
HitGate(tr, o) == tr.pos => Confusable(o, tr.obj)

(* Which track each measurement updates.  The designated hit goes to the    *)
(* designated track; every other measurement to a track the gates allow, no *)
(* two to the same.                                                         *)
Matches(T) ==
  {f \in [Measured(T) -> DOMAIN T \cup {None}] :
     \A o \in Measured(T) :
       IF o = result.hit
       THEN \/ f[o] = designated /\ HitGate(T[designated], o)
            \/ f[o] = None /\ T[designated].pos
       ELSE \/ f[o] = None
            \/ /\ Confusable(o, T[f[o]].obj)
               /\ \A p \in Measured(T) \ {o, result.hit} : f[p] # f[o]}

(* Mutant of Fuse: a bearing alone costs a track its position.              *)
FuseAnew(T, f, geom) ==
  [n \in DOMAIN T |->
     LET os == {o \in DOMAIN f : f[o] = n}
     IN  IF os = {} THEN T[n]
         ELSE [obj |-> IF os = {result.hit} THEN result.hit
                       ELSE CHOOSE o \in os \ {result.hit} : TRUE,
               pos |-> os \cap geom # {},
               age |-> 0]]

(* Fused measurements: geom ones also give a position.  The designated      *)
(* track may take a nearest-neighbour measurement after its hit.            *)
Fuse(T, f, geom) ==
  [n \in DOMAIN T |->
     LET os == {o \in DOMAIN f : f[o] = n}
     IN  IF os = {} THEN T[n]
         ELSE [obj |-> IF os = {result.hit} THEN result.hit
                       ELSE CHOOSE o \in os \ {result.hit} : TRUE,
               pos |-> T[n].pos \/ os \cap geom # {},
               age |-> 0]]

(* _graveyard_match for a new candidate: the dead track whose predicted     *)
(* position it fits, none when there is none or the best two are too close. *)
Lineages(G, o) ==
  LET fits == {n \in DOMAIN G :
                 G[n].age <= RebindWindow /\ Confusable(o, G[n].obj)}
  IN  IF Steady /\ Cardinality(fits) = 1 THEN fits ELSE fits \cup {None}

(* _candidate_hit: which earlier candidate each unmatched measurement hits. *)
Rehits(U) ==
  {p \in [U -> cands \cup {None}] :
     \A o \in U : p[o] # None =>
       /\ Confusable(o, p[o].obj)
       /\ \A q \in U \ {o} : p[q] # p[o]}

(* A second consecutive hit is a birth, under the lineage's name or a fresh *)
(* one (which of several fresh ones is a matter of order).                  *)
Namings(p) ==
  LET B == {o \in DOMAIN p : p[o] # None}
      F == {o \in B : p[o].rebind = None}
  IN  {q \in [B -> Names] :
         \A o \in B :
           IF o \in F
           THEN /\ q[o] \in next..(next + Cardinality(F) - 1)
                /\ \A x \in F \ {o} : q[x] # q[o]
           ELSE q[o] = p[o].rebind}

(* Of two births under one name the later replaces the earlier.             *)
Newborns(p, q, geom) ==
  LET names == {q[o] : o \in DOMAIN q} IN
  {[n \in names |-> [obj |-> last[n], pos |-> last[n] \in geom \/ p[last[n]].pos,
                     age |-> 0]] :
     last \in {l \in [names -> DOMAIN q] : \A n \in names : q[l[n]] = n}}

(* Mutant of Unburied: a birth leaves its lineage in the graveyard.         *)
UnburiedNever(G, names) == G

(* _birth takes the resumed name out of the graveyard.                      *)
Unburied(G, names) == Restrict(G, DOMAIN G \ names)

-----------------------------------------------------------------------------
(* _drop_stale and _tick_sm_dropout, which end the update.                  *)

(* A newborn replaces a track that has its name.                            *)
Overlaid(T, born) == [n \in DOMAIN T \cup DOMAIN born |->
                        IF n \in DOMAIN born THEN born[n] ELSE T[n]]

Stale(T) == {n \in DOMAIN T : T[n].age > Lost}

Buried(T, G) ==
  LET dropped == {n \in Stale(T) : T[n].pos}
      kept == {n \in DOMAIN G : G[n].age <= RebindWindow} \ dropped
  IN  [n \in dropped \cup kept |->
         IF n \in dropped THEN [obj |-> T[n].obj, age |-> 0] ELSE G[n]]

(* Mutant of Dropout: the dropout is due only once the track is lost.       *)
DropoutLate(T, a) == /\ a.state \notin {"none", "DESIGNATED", "COASTING"}
                     /\ designated \in DOMAIN T
                     /\ T[designated].age > Lost

Dropout(T, a) == /\ a.state \notin {"none", "DESIGNATED", "COASTING"}
                 /\ designated \in DOMAIN T
                 /\ T[designated].age > Coast

Older(T, ticks) == [n \in DOMAIN T |-> [T[n] EXCEPT !.age = @ + ticks]]

EndUpdate(beam, all) ==
  LET live == Restrict(all, DOMAIN all \ Stale(all))
      drop == Dropout(live, beam.acq)
  IN  /\ tracks' = live
      /\ acq' = IF drop THEN [beam.acq EXCEPT !.state = "COASTING"] ELSE beam.acq
      /\ streak' = IF drop THEN 0 ELSE beam.streak
      /\ stray' = beam.stray

Unmatched(f) == {o \in DOMAIN f : f[o] = None}

(* One inference, stamped some ticks after the previous one it was given.   *)
Update(ticks) ==
  /\ result # None
  /\ \E beam \in BeamCycles(Older(tracks, ticks)) :
     \E f \in Matches(beam.T), geom \in SUBSET Measured(beam.T) :
     \E p \in Rehits(Unmatched(f)) :
     \E q \in Namings(p) :
     \E born \in Newborns(p, q, geom) :
     LET G == Older(graveyard, ticks)
         all == Overlaid(Fuse(beam.T, f, geom), born)
         firsts == {o \in Unmatched(f) : p[o] = None}
     IN  /\ EndUpdate(beam, all)
         /\ graveyard' = Buried(all, Unburied(G, DOMAIN born))
         /\ next' = next + Cardinality({n \in DOMAIN born : n >= next})
         /\ \E lineage \in [firsts -> DOMAIN G \cup {None}] :
              /\ \A o \in firsts : lineage[o] \in Lineages(G, o)
              /\ cands' = {[obj |-> o, pos |-> o \in geom, rebind |-> lineage[o]] :
                              o \in firsts}
  /\ result' = None
  /\ UNCHANGED <<designated, seed>>

-----------------------------------------------------------------------------
(* TargetDesignator, called by the flight ops, and the evals' reset.        *)

(* A contact that is not tracked (any more) may be designated: the lock     *)
(* request then carries neither pixel nor index.                            *)
Designate(n) ==
  /\ designated' = n
  /\ acq' = Designation
  /\ streak' = 0
  /\ seed' = (n \in DOMAIN tracks)
  /\ stray' = FALSE
  /\ UNCHANGED <<table, result>>

ClearDesignation ==
  /\ designated # None
  /\ designated' = None
  /\ acq' = Idle
  /\ streak' = 0
  /\ seed' = FALSE
  /\ stray' = FALSE
  /\ UNCHANGED <<table, result>>

(* The detector is not told: a request or an inference may outlive a reset. *)
Reset ==
  /\ tracks' = NoTracks /\ graveyard' = NoTracks /\ cands' = {} /\ next' = 0
  /\ designated' = None
  /\ acq' = Idle
  /\ streak' = 0
  /\ stray' = FALSE
  /\ UNCHANGED detector

Init ==
  /\ tracks = NoTracks /\ graveyard = NoTracks /\ cands = {} /\ next = 0
  /\ designated = None /\ acq = Idle
  /\ seed = FALSE /\ result = None
  /\ streak = 0 /\ stray = FALSE

Next ==
  \/ \E f \in SUBSET Objects : Infer(f)
  \/ \E ticks \in 0..MaxGap : Update(ticks)
  \/ \E n \in 0..(next - 1) : Designate(n)
  \/ ClearDesignation
  \/ Reset

Spec == Init /\ [][Next]_vars

-----------------------------------------------------------------------------
(* track_state(): what the flight layer reads.                              *)
TrackState(n) == IF n # designated
                 THEN IF n \in DOMAIN tracks THEN "IDLE" ELSE "LOST"
                 ELSE IF n \in DOMAIN tracks THEN acq.state ELSE "LOST"

-----------------------------------------------------------------------------
(* Every variable has its type: the acquisition machine is off exactly      *)
(* while nothing is designated, names in use have been given out, and no    *)
(* name is tracked and in the graveyard at once, from where a later         *)
(* candidate would bring it back beside its own track.                      *)
TypeOK ==
  /\ next \in 0..MaxNames
  /\ DOMAIN tracks \subseteq 0..(next - 1)
  /\ tracks \in [DOMAIN tracks -> Tracks]
  /\ DOMAIN graveyard \subseteq 0..(next - 1)
  /\ graveyard \in [DOMAIN graveyard -> [obj : Objects, age : 0..RebindWindow]]
  /\ \A c \in cands : /\ c.obj \in Objects /\ c.pos \in BOOLEAN
                      /\ c.rebind \in 0..(next - 1) \cup {None}
  /\ designated \in Names \cup {None}
  /\ acq.state \in Locked \cup {"none", "DESIGNATED", "ACQUIRING", "COASTING"}
  /\ acq.state = "none" <=> designated = None
  /\ acq.hits \in 0..ConfirmHits /\ acq.slips \in 0..SlipN
  /\ seed \in BOOLEAN
  /\ result # None => /\ result \in Results
                       /\ result.hit \in result.dets \cup {None}
  /\ streak \in 0..ConfirmHits /\ stray \in BOOLEAN
  /\ DOMAIN tracks \cap DOMAIN graveyard = {}

(* A locked state is never kept through slip_n slips in a row: the beam     *)
(* that lost its contact drops the ladder to COASTING (_beam_outcome).      *)
BeamLockHeld == acq.state \in Locked => acq.slips < SlipN

(* What reads locked has a position to fly to: neither a rebirth from a     *)
(* bearing alone, nor the second birth of a lineage that replaces a track   *)
(* (a candidate may name a track that another has just brought back), comes *)
(* between a lock and its flight (the flight layer's answer "beam-locked    *)
(* but has no position yet", ops.py:581, is for a contact lost meanwhile).  *)
(* Needs inferences at most lost_s - coast_s apart, confirm_hits over 1.    *)
LockHasPosition ==
  \A n \in Names : TrackState(n) \in Locked => tracks[n].pos

(* A lock is entered on confirm_hits fused ranges in a row, none of them    *)
(* from before a slip, a dropout or another designation, although the       *)
(* dropout leaves _lock_hits as it was ("re-lock: confirm again").  True of *)
(* the default confirm_hits = 2.                                            *)
LockConfirmed ==
  [][acq.state \notin Locked /\ acq'.state \in Locked
       => streak' >= ConfirmHits]_vars

(* For the contact it flies on the flight layer reads a lock ladder: no     *)
(* lock but on confirm_hits ranges in a row, however silences, slips, drops *)
(* and rebirths interleave, none kept through slip_n slips in a row, none   *)
(* that outlives the contact ("dropout -> COASTING -> LOST"), and none left *)
(* but through COASTING.  Needs inferences at most lost_s - coast_s apart   *)
(* and confirm_hits of at most 2.                                           *)
Rung == IF designated = None THEN "none" ELSE TrackState(designated)

Ladder == INSTANCE LockLadder WITH
            Contacts <- Names, Confirm <- ConfirmHits, Slips <- SlipN,
            target <- designated, rung <- Rung,
            ranges <- streak, misses <- acq.slips

ImplementsLadder == Ladder!Spec

(* Lost is lost: a contact whose track is gone does not come back locked    *)
(* ("dropout -> COASTING -> LOST"); a reborn one has to be ranged again.    *)
(* Needs inferences at most lost_s - coast_s apart.                         *)
LockIsReearned ==
  [][\A n \in Names : TrackState(n) = "LOST" => TrackState(n)' \notin Locked]_vars

(* On the way down a lock always passes through COASTING, from which the    *)
(* flight layer starts its search, before it reads LOST.                    *)
LostOnlyAfterCoasting ==
  [][\A n \in Names : TrackState(n) \in Locked /\ designated' = n
       => TrackState(n)' # "LOST"]_vars

(* With objects the gates can tell apart, a name that has a position stands *)
(* for one object: through association, the designated hit's path around    *)
(* the nearest-neighbour gate, the graveyard and rebirth.                   *)
IdentityKept ==
  [][\A n \in Names :
       /\ n \in DOMAIN tracks /\ tracks[n].pos /\ n \in DOMAIN tracks'
            => tracks'[n].obj = tracks[n].obj
       /\ n \in DOMAIN graveyard /\ n \in DOMAIN tracks'
            => tracks'[n].obj = graveyard[n].obj]_vars

(* contacts.py, _feed_tof: "the designated detection is RESERVED (a beam on *)
(* any other det is OFF_TARGET, never a fallback)": no range is fused into  *)
(* the designated track off a detection of something else.                  *)
BeamOnDesignated == ~ stray

(* contacts.py, _candidate_hit: "re-evaluate rebind on EVERY candidate hit":*)
(* nothing is born under a fresh name while exactly one dead track, its     *)
(* own, fits it within the rebind window.                                   *)
RebindReevaluated ==
  [][\A n \in next..(next' - 1), d \in DOMAIN graveyard :
       LET o == tracks'[n].obj
           fits == {x \in DOMAIN graveyard :
                      /\ graveyard[x].age + MaxGap <= RebindWindow
                      /\ Confusable(o, graveyard[x].obj)}
       IN  n \in DOMAIN tracks' => fits # {d}]_vars

-----------------------------------------------------------------------------
(* The inductive invariants behind the theorems of ContactTrackerProofs.    *)

(* The ladder: an acquisition with a hit to its name has a range behind it  *)
(* that no dropout has come after.                                          *)
LadderInv ==
  /\ acq \in [state : Locked \cup {"none", "DESIGNATED", "ACQUIRING", "COASTING"},
              hits : Nat, slips : Nat]
  /\ streak \in Nat
  /\ acq.state = "DESIGNATED" => acq.hits = 0
  /\ acq.state = "ACQUIRING" /\ acq.hits > 0 => streak > 0
  /\ BeamLockHeld

(* What tracks are made of.                                                 *)
TableInv ==
  /\ \A n \in DOMAIN tracks : tracks[n] \in [obj : Objects, pos : BOOLEAN, age : Nat]
  /\ result # None => result \in Results

(* Silence: a locked contact is tracked, and was seen within coast_s.       *)
SilenceInv ==
  acq.state \in Locked => /\ designated \in DOMAIN tracks
                          /\ tracks[designated].age <= Coast

(* Behind the refinement: ranges in a row are ranges of a tracked contact   *)
(* that is being ranged, each with its hit, and such a contact was seen     *)
(* within coast_s; a machine that is off counts nothing.                    *)
RangingInv ==
  /\ acq.state = "none" => acq.slips = 0
  /\ acq.state \in {"DESIGNATED", "ACQUIRING"} => acq.hits >= streak
  /\ acq.state \in {"none", "DESIGNATED", "COASTING"} => streak = 0
  /\ designated \notin DOMAIN tracks => streak = 0
  /\ designated \in DOMAIN tracks /\ acq.state \in Locked \cup {"ACQUIRING"}
       => tracks[designated].age <= Coast

(* Behind LockHasPosition: what the machine calls locked has its position,  *)
(* and a candidate that names the designated contact while it is tracked,   *)
(* and will replace its track, was seen when there was no such track, so    *)
(* that no range stands behind the machine yet.                             *)
PositionInv ==
  /\ acq.state \in Locked => tracks[designated].pos
  /\ \A c \in cands : c.rebind = designated /\ designated \in DOMAIN tracks
                        => streak = 0 /\ acq.state \notin Locked
=============================================================================
