----------------------- MODULE ContactTrackerProofs -----------------------
(* Theorems of ContactTracker: what its acquisition machine may claim, for  *)
(* any objects, any gates and any number of names.                          *)
EXTENDS ContactTracker, FiniteSetTheorems, TLAPS

States == Locked \cup {"none", "DESIGNATED", "ACQUIRING", "COASTING"}
Acquisitions == [state : States, hits : Nat, slips : Nat]

-----------------------------------------------------------------------------
(* The machine's steps, one fused range, one slip.                          *)

(* A fused range: a lock entered has one before it, and clears the slips.   *)
LEMMA LockStepEffect ==
  ASSUME NEW a \in Acquisitions
  PROVE  /\ LockStep(a) \in Acquisitions
         /\ LockStep(a).slips = 0
         /\ LockStep(a).state = "DESIGNATED" => a.state = "DESIGNATED"
         /\ LockStep(a).state \in Locked => a.state \in Locked \/ a.state = "ACQUIRING"
         /\ LockStep(a).state \in Locked /\ a.state \notin Locked
              => a.hits + 1 >= ConfirmHits
<1>1. ConfirmHits \in Nat \ {0}
  BY TrackerAssumption
<1>2. UpTo(ConfirmHits, a.hits + 1) \in Nat
  BY <1>1 DEF UpTo, Acquisitions
<1>3. CASE a.state = "ACQUIRING" /\ a.hits + 1 >= ConfirmHits
  BY <1>2, <1>3 DEF LockStep, Acquisitions, States, Locked
<1>4. CASE a.state = "RANGE_LOCKED"
  BY <1>2, <1>4 DEF LockStep, Acquisitions, States, Locked
<1>5. CASE a.state = "COASTING"
  BY <1>2, <1>5 DEF LockStep, Acquisitions, States, Locked
<1>6. CASE /\ ~ (a.state = "ACQUIRING" /\ a.hits + 1 >= ConfirmHits)
           /\ a.state \notin {"RANGE_LOCKED", "COASTING"}
  BY <1>2, <1>6 DEF LockStep, Acquisitions, States, Locked
<1> QED BY <1>3, <1>4, <1>5, <1>6

(* A slip: it costs the hits, and the last tolerated one costs the lock.    *)
LEMMA SlipStepEffect ==
  ASSUME NEW a \in Acquisitions
  PROVE  /\ SlipStep(a) \in Acquisitions
         /\ SlipStep(a).hits = 0
         /\ SlipStep(a).state = "DESIGNATED" => a.state = "DESIGNATED"
         /\ SlipStep(a).state \in Locked
              => a.state \in Locked /\ SlipStep(a).slips < SlipN
<1>1. SlipN \in Nat \ {0}
  BY TrackerAssumption
<1>2. UpTo(SlipN, a.slips + 1) \in Nat
  BY <1>1 DEF UpTo, Acquisitions
<1>3. a.slips + 1 < SlipN => UpTo(SlipN, a.slips + 1) < SlipN
  BY <1>1 DEF UpTo, Acquisitions
<1>4. CASE a.slips + 1 >= SlipN
  BY <1>1, <1>2, <1>4 DEF SlipStep, Acquisitions, States, Locked
<1>5. CASE ~ (a.slips + 1 >= SlipN)
  <2>1. a.slips + 1 < SlipN
    BY <1>1, <1>5 DEF Acquisitions
  <2>2. SlipStep(a) = [state |-> a.state, hits |-> 0,
                       slips |-> UpTo(SlipN, a.slips + 1)]
    <3>1. ~ (a.slips + 1 >= SlipN /\ a.state \in Locked)
      BY <1>5
    <3>2. SlipStep(a) = [a EXCEPT !.hits = 0, !.slips = UpTo(SlipN, a.slips + 1),
                                  !.state = a.state]
      BY <3>1 DEF SlipStep
    <3> QED BY <3>2 DEF Acquisitions
  <2>3. /\ SlipStep(a).state = a.state
        /\ SlipStep(a).hits = 0
        /\ SlipStep(a).slips < SlipN
    BY <1>3, <2>1, <2>2
  <2>4. SlipStep(a) \in Acquisitions
    BY <1>2, <2>2 DEF Acquisitions
  <2> QED BY <2>3, <2>4
<1> QED BY <1>4, <1>5
-----------------------------------------------------------------------------
(* One cycle of the beam over the aged tracks.                              *)

DesignatedAcq == [acq EXCEPT !.state = IF @ = "DESIGNATED" THEN "ACQUIRING" ELSE @]

(* What a cycle's outcome is: nothing, a slip, or a fused range that makes  *)
(* the designated track positioned and fresh.                               *)
LEMMA BeamCases ==
  ASSUME NEW T, NEW beam \in BeamCycles(T)
  PROVE  \/ designated \notin DOMAIN T /\ beam.T = T
            /\ beam.acq = acq /\ beam.streak = streak
         \/ designated \in DOMAIN T /\ beam.T = T
            /\ beam.acq = DesignatedAcq /\ beam.streak = streak
         \/ designated \in DOMAIN T /\ beam.T = T
            /\ beam.acq = SlipStep(DesignatedAcq) /\ beam.streak = 0
         \/ designated \in DOMAIN T
            /\ beam.T = [T EXCEPT ![designated].pos = TRUE, ![designated].age = 0]
            /\ beam.acq = LockStep(DesignatedAcq)
            /\ beam.streak = UpTo(ConfirmHits, streak + 1)
<1>1. CASE designated \notin DOMAIN T
  BY <1>1 DEF BeamCycles
<1>2. CASE designated \in DOMAIN T
  BY <1>2 DEF BeamCycles, DesignatedAcq
<1> QED BY <1>1, <1>2

Cells == [obj : Objects, pos : BOOLEAN, age : Nat]

(* The beam leaves every track but the designated one alone, and makes that *)
(* one no older.                                                            *)
LEMMA BeamTracks ==
  ASSUME NEW T, \A n \in DOMAIN T : T[n] \in Cells, NEW beam \in BeamCycles(T)
  PROVE  /\ DOMAIN beam.T = DOMAIN T
         /\ \A n \in DOMAIN T : beam.T[n] \in Cells /\ beam.T[n].age <= T[n].age
<1>1. CASE beam.T = T
  BY <1>1 DEF Cells
<1>2. CASE /\ designated \in DOMAIN T
           /\ beam.T = [T EXCEPT ![designated].pos = TRUE, ![designated].age = 0]
  <2>1. DOMAIN beam.T = DOMAIN T
    BY <1>2
  <2>2. ASSUME NEW n \in DOMAIN T
        PROVE  beam.T[n] \in Cells /\ beam.T[n].age <= T[n].age
    <3>1. CASE n = designated
      <4>1. beam.T[n] = [obj |-> T[n].obj, pos |-> TRUE, age |-> 0]
        BY <1>2, <3>1 DEF Cells
      <4> QED BY <4>1 DEF Cells
    <3>2. CASE n # designated
      BY <1>2, <3>2 DEF Cells
    <3> QED BY <3>1, <3>2
  <2> QED BY <2>1, <2>2
<1> QED BY <1>1, <1>2, BeamCases

(* A cycle keeps the ladder's invariant.                                    *)
LEMMA BeamLadder ==
  ASSUME LadderInv, NEW T, NEW beam \in BeamCycles(T)
  PROVE  /\ beam.acq \in Acquisitions
         /\ beam.streak \in Nat
         /\ beam.acq.state = "DESIGNATED" => beam.acq.hits = 0
         /\ beam.acq.state = "ACQUIRING" /\ beam.acq.hits > 0 => beam.streak > 0
         /\ beam.acq.state \in Locked => beam.acq.slips < SlipN
         /\ ConfirmHits <= 2 /\ beam.acq.state \in Locked /\ acq.state \notin Locked
              => beam.streak >= ConfirmHits
         /\ beam.acq.state \in Locked /\ designated \notin DOMAIN T
              => acq.state \in Locked
<1> DEFINE d == DesignatedAcq
<1>1. /\ d \in Acquisitions
      /\ d.hits = acq.hits /\ d.slips = acq.slips
      /\ d.state = IF acq.state = "DESIGNATED" THEN "ACQUIRING" ELSE acq.state
  BY DEF LadderInv, Acquisitions, States, DesignatedAcq, Locked
<1>2. /\ d.state # "DESIGNATED"
      /\ d.state \in Locked <=> acq.state \in Locked
      /\ d.state = "ACQUIRING" /\ d.hits > 0 => streak > 0
      /\ d.state \in Locked => d.slips < SlipN
  BY <1>1 DEF LadderInv, BeamLockHeld, Locked
<1>3. streak \in Nat /\ ConfirmHits \in Nat \ {0} /\ SlipN \in Nat \ {0}
  BY TrackerAssumption DEF LadderInv
<1>4. CASE beam.acq = acq /\ beam.streak = streak
  BY <1>3, <1>4 DEF LadderInv, BeamLockHeld, Acquisitions, States
<1>5. CASE designated \in DOMAIN T /\ beam.acq = d /\ beam.streak = streak
  BY <1>1, <1>2, <1>3, <1>5
<1>6. CASE designated \in DOMAIN T /\ beam.acq = SlipStep(d) /\ beam.streak = 0
  <2> HIDE DEF d
  <2>1. /\ SlipStep(d) \in Acquisitions
        /\ SlipStep(d).hits = 0
        /\ SlipStep(d).state = "DESIGNATED" => d.state = "DESIGNATED"
        /\ SlipStep(d).state \in Locked => d.state \in Locked /\ SlipStep(d).slips < SlipN
    BY <1>1, SlipStepEffect
  <2> QED BY <1>2, <1>3, <1>6, <2>1
<1>7. CASE /\ designated \in DOMAIN T
           /\ beam.acq = LockStep(d)
           /\ beam.streak = UpTo(ConfirmHits, streak + 1)
  <2> HIDE DEF d
  <2>1. /\ LockStep(d) \in Acquisitions
        /\ LockStep(d).slips = 0
        /\ LockStep(d).state = "DESIGNATED" => d.state = "DESIGNATED"
        /\ LockStep(d).state \in Locked => d.state \in Locked \/ d.state = "ACQUIRING"
        /\ LockStep(d).state \in Locked /\ d.state \notin Locked
             => d.hits + 1 >= ConfirmHits
    BY <1>1, LockStepEffect
  <2>2. beam.streak \in Nat /\ beam.streak > 0
    BY <1>3, <1>7 DEF UpTo
  <2>3. ASSUME ConfirmHits <= 2, LockStep(d).state \in Locked, d.state \notin Locked
        PROVE  beam.streak >= ConfirmHits
    <3>1. d.state = "ACQUIRING" /\ d.hits + 1 >= ConfirmHits
      BY <2>1, <2>3
    <3>2. CASE d.hits > 0
      BY <1>2, <1>3, <1>7, <2>3, <3>1, <3>2 DEF UpTo
    <3>3. CASE ~ (d.hits > 0)
      BY <1>1, <1>3, <2>2, <2>3, <3>1, <3>3 DEF Acquisitions
    <3> QED BY <3>2, <3>3
  <2> QED BY <1>2, <1>3, <1>7, <2>1, <2>2, <2>3
<1> QED BY <1>4, <1>5, <1>6, <1>7, BeamCases
(* A cycle that enters a lock leaves the designated track just seen.        *)
LEMMA BeamFresh ==
  ASSUME LadderInv, NEW T, \A n \in DOMAIN T : T[n] \in Cells,
         NEW beam \in BeamCycles(T),
         beam.acq.state \in Locked, acq.state \notin Locked
  PROVE  /\ designated \in DOMAIN T
         /\ beam.T[designated].age = 0 /\ beam.T[designated].pos
<1>1. /\ DesignatedAcq \in Acquisitions
      /\ DesignatedAcq.state \notin Locked
  BY DEF LadderInv, Acquisitions, States, DesignatedAcq, Locked
<1>2. SlipStep(DesignatedAcq).state \notin Locked
  BY <1>1, SlipStepEffect
<1>3. /\ designated \in DOMAIN T
      /\ beam.T = [T EXCEPT ![designated].pos = TRUE, ![designated].age = 0]
  BY <1>1, <1>2, BeamCases
<1>4. beam.T[designated] = [obj |-> T[designated].obj, pos |-> TRUE, age |-> 0]
  BY <1>3 DEF Cells
<1> QED BY <1>3, <1>4

-----------------------------------------------------------------------------
(* The rest of the update: association and births never age a track, and    *)
(* only a track not seen for lost_s is dropped.                             *)

LEMMA OlderTracks ==
  ASSUME NEW T, \A n \in DOMAIN T : T[n] \in Cells, NEW ticks \in Nat
  PROVE  /\ DOMAIN Older(T, ticks) = DOMAIN T
         /\ \A n \in DOMAIN T : /\ Older(T, ticks)[n] \in Cells
                                /\ Older(T, ticks)[n].age = T[n].age + ticks
<1>1. ASSUME NEW n \in DOMAIN T
      PROVE  /\ Older(T, ticks)[n] \in Cells
             /\ Older(T, ticks)[n].age = T[n].age + ticks
  <2>1. Older(T, ticks)[n] = [T[n] EXCEPT !.age = T[n].age + ticks]
    BY DEF Older
  <2> QED BY <2>1 DEF Cells
<1> QED BY <1>1 DEF Older

LEMMA FusedTracks ==
  ASSUME TableInv, result # None,
         NEW T, \A n \in DOMAIN T : T[n] \in Cells,
         NEW f \in Matches(T), NEW geom
  PROVE  /\ DOMAIN Fuse(T, f, geom) = DOMAIN T
         /\ \A n \in DOMAIN T : /\ Fuse(T, f, geom)[n] \in Cells
                                /\ Fuse(T, f, geom)[n].age <= T[n].age
<1>1. DOMAIN f \subseteq Objects
  BY DEF Matches, Measured, TableInv, Results
<1>2. ASSUME NEW n \in DOMAIN T
      PROVE  /\ Fuse(T, f, geom)[n] \in Cells
             /\ Fuse(T, f, geom)[n].age <= T[n].age
  <2> DEFINE os == {o \in DOMAIN f : f[o] = n}
             x == IF os = {result.hit} THEN result.hit
                  ELSE CHOOSE o \in os \ {result.hit} : TRUE
  <2>1. CASE os = {}
    <3>1. Fuse(T, f, geom)[n] = T[n]
      BY <2>1 DEF Fuse
    <3> QED BY <3>1 DEF Cells
  <2>2. CASE os # {}
    <3>1. Fuse(T, f, geom)[n] = [obj |-> x, pos |-> T[n].pos \/ os \cap geom # {},
                                 age |-> 0]
      BY <2>2 DEF Fuse
    <3>2. x \in Objects
      BY <1>1, <2>2
    <3> HIDE DEF x, os
    <3>3. (T[n].pos \/ os \cap geom # {}) \in BOOLEAN
      OBVIOUS
    <3> QED BY <3>1, <3>2, <3>3 DEF Cells
  <2> QED BY <2>1, <2>2
<1> QED BY <1>2 DEF Fuse

LEMMA NewbornTracks ==
  ASSUME TableInv, result # None,
         NEW T, NEW U, U \subseteq Measured(T), NEW p \in Rehits(U),
         NEW q \in Namings(p), NEW geom, NEW born \in Newborns(p, q, geom)
  PROVE  \A n \in DOMAIN born : born[n] \in Cells /\ born[n].age = 0
<1>1. Measured(T) \subseteq Objects
  BY DEF Measured, TableInv, Results
<1>2. DOMAIN q \subseteq Objects
  BY <1>1 DEF Namings, Rehits
<1> DEFINE names == {q[o] : o \in DOMAIN q}
<1>3. PICK last \in [names -> DOMAIN q] :
        born = [n \in names |-> [obj |-> last[n],
                                 pos |-> last[n] \in geom \/ p[last[n]].pos,
                                 age |-> 0]]
  BY DEF Newborns
<1>4. ASSUME NEW n \in DOMAIN born
      PROVE  born[n] \in Cells /\ born[n].age = 0
  <2>1. /\ n \in names
        /\ born[n] = [obj |-> last[n], pos |-> last[n] \in geom \/ p[last[n]].pos,
                      age |-> 0]
    BY <1>3
  <2>2. last[n] \in Objects
    BY <1>2, <1>3, <2>1
  <2>3. (last[n] \in geom \/ p[last[n]].pos) \in BOOLEAN
    OBVIOUS
  <2> QED BY <2>1, <2>2, <2>3 DEF Cells
<1> QED BY <1>4

(* An update, as far as the machine is concerned: a beam cycle, then the    *)
(* dropout test on what is still tracked.                                   *)
LEMMA UpdateEffect ==
  ASSUME TableInv, NEW ticks \in Nat, Update(ticks)
  PROVE  \E beam \in BeamCycles(Older(tracks, ticks)) :
           /\ \A n \in DOMAIN tracks' : tracks'[n] \in Cells
           /\ \A n \in DOMAIN tracks :
                /\ beam.T[n].age \in Nat
                /\ beam.T[n].age <= tracks[n].age + ticks
                /\ beam.T[n].age <= Lost => n \in DOMAIN tracks'
                /\ n \in DOMAIN tracks' => tracks'[n].age <= beam.T[n].age
           /\ acq' = IF Dropout(tracks', beam.acq)
                     THEN [beam.acq EXCEPT !.state = "COASTING"] ELSE beam.acq
           /\ streak' = IF Dropout(tracks', beam.acq) THEN 0 ELSE beam.streak
<1> DEFINE A == Older(tracks, ticks)
<1>1. /\ DOMAIN A = DOMAIN tracks
      /\ \A n \in DOMAIN tracks : A[n] \in Cells /\ A[n].age = tracks[n].age + ticks
  BY OlderTracks DEF TableInv, Cells
<1>2. PICK beam \in BeamCycles(A) :
        \E f \in Matches(beam.T), geom \in SUBSET Measured(beam.T) :
        \E p \in Rehits(Unmatched(f)) : \E q \in Namings(p) :
        \E born \in Newborns(p, q, geom) :
           EndUpdate(beam, Overlaid(Fuse(beam.T, f, geom), born))
  BY SMT DEF Update
<1>3. PICK f \in Matches(beam.T), geom \in SUBSET Measured(beam.T) :
        \E p \in Rehits(Unmatched(f)) : \E q \in Namings(p) :
        \E born \in Newborns(p, q, geom) :
           EndUpdate(beam, Overlaid(Fuse(beam.T, f, geom), born))
  BY <1>2
<1>41. PICK p \in Rehits(Unmatched(f)) : \E q \in Namings(p) :
        \E born \in Newborns(p, q, geom) :
           EndUpdate(beam, Overlaid(Fuse(beam.T, f, geom), born))
  BY <1>3
<1>42. PICK q \in Namings(p) : \E born \in Newborns(p, q, geom) :
           EndUpdate(beam, Overlaid(Fuse(beam.T, f, geom), born))
  BY <1>41
<1>4. PICK born \in Newborns(p, q, geom) :
           EndUpdate(beam, Overlaid(Fuse(beam.T, f, geom), born))
  BY <1>42
<1> DEFINE U == Unmatched(f)
           T == Fuse(beam.T, f, geom)
           all == Overlaid(T, born)
<1>5. /\ DOMAIN beam.T = DOMAIN tracks
      /\ \A n \in DOMAIN tracks : beam.T[n] \in Cells /\ beam.T[n].age <= A[n].age
  BY <1>1, BeamTracks
<1>6. result # None
  BY DEF Update
<1>7. /\ DOMAIN T = DOMAIN tracks
      /\ \A n \in DOMAIN tracks : T[n] \in Cells /\ T[n].age <= beam.T[n].age
  BY <1>5, <1>6, FusedTracks
<1>8. U \subseteq Measured(beam.T)
  BY DEF Matches, Unmatched
<1>9. \A n \in DOMAIN born : born[n] \in Cells /\ born[n].age = 0
  BY <1>6, <1>8, NewbornTracks
<1> HIDE DEF A, T, U
<1>10. \A n \in DOMAIN all : all[n] \in Cells
  BY <1>7, <1>9 DEF Overlaid
<1>11. /\ DOMAIN tracks' = DOMAIN all \ Stale(all)
       /\ \A n \in DOMAIN tracks' : tracks'[n] = all[n]
  <2> HIDE DEF all
  <2>1. tracks' = [n \in DOMAIN all \ Stale(all) |-> all[n]]
    BY <1>4 DEF EndUpdate, Restrict, all, T
  <2> QED BY <2>1
<1>12. \A n \in DOMAIN tracks' : tracks'[n] \in Cells
  BY <1>10, <1>11
<1>13. ASSUME NEW n \in DOMAIN tracks
       PROVE  /\ beam.T[n].age \in Nat
              /\ beam.T[n].age <= tracks[n].age + ticks
              /\ beam.T[n].age <= Lost => n \in DOMAIN tracks'
              /\ n \in DOMAIN tracks' => tracks'[n].age <= beam.T[n].age
  <2>1. n \in DOMAIN all
    BY <1>7 DEF Overlaid
  <2>2. /\ beam.T[n].age \in Nat
        /\ beam.T[n].age <= tracks[n].age + ticks
    BY <1>1, <1>5 DEF Cells
  <2>3. all[n].age <= beam.T[n].age
    <3>1. CASE n \in DOMAIN born
      <4>1. all[n].age = 0
        BY <1>9, <3>1 DEF Overlaid
      <4> HIDE DEF all
      <4> QED BY <2>2, <4>1
    <3>2. CASE n \notin DOMAIN born
      <4>1. all[n] = T[n]
        BY <1>7, <3>2 DEF Overlaid
      <4> HIDE DEF all
      <4> QED BY <1>7, <4>1
    <3> QED BY <3>1, <3>2
  <2> HIDE DEF all
  <2>4. Lost \in Nat /\ all[n].age \in Nat
    BY <1>10, <2>1, TrackerAssumption DEF Cells
  <2>5. ASSUME beam.T[n].age <= Lost PROVE n \notin Stale(all)
    BY <2>2, <2>3, <2>4, <2>5 DEF Stale
  <2> QED BY <1>11, <2>1, <2>2, <2>3, <2>5
<1>14. /\ acq' = IF Dropout(tracks', beam.acq)
                 THEN [beam.acq EXCEPT !.state = "COASTING"] ELSE beam.acq
       /\ streak' = IF Dropout(tracks', beam.acq) THEN 0 ELSE beam.streak
  BY <1>4 DEF EndUpdate
<1> QED BY <1>12, <1>13, <1>14 DEF A
-----------------------------------------------------------------------------
(* The table.                                                               *)

LEMMA TableStep == TableInv /\ [Next]_vars => TableInv'
<1> SUFFICES ASSUME TableInv, [Next]_vars PROVE TableInv'
  OBVIOUS
<1>1. ASSUME NEW f \in SUBSET Objects, Infer(f) PROVE TableInv'
  <2>1. PICK h \in Hits(f) : result' = [dets |-> f, hit |-> h]
    BY <1>1 DEF Infer
  <2>2. h \in Objects \cup {None}
    BY DEF Hits
  <2> QED BY <1>1, <2>1, <2>2 DEF Infer, table, TableInv, Results
<1>2. ASSUME NEW ticks \in 0..MaxGap, Update(ticks) PROVE TableInv'
  <2>1. ticks \in Nat
    BY TrackerAssumption
  <2>2. \A n \in DOMAIN tracks' : tracks'[n] \in Cells
    BY <1>2, <2>1, UpdateEffect
  <2> QED BY <1>2, <2>2 DEF Update, TableInv, Cells
<1>3. ASSUME NEW n \in 0..(next - 1), Designate(n) PROVE TableInv'
  BY <1>3 DEF Designate, table, TableInv
<1>4. CASE ClearDesignation
  BY <1>4 DEF ClearDesignation, table, TableInv
<1>5. CASE Reset
  BY <1>5 DEF Reset, detector, NoTracks, TableInv
<1>6. CASE UNCHANGED vars
  BY <1>6 DEF vars, table, detector, TableInv
<1> QED BY <1>1, <1>2, <1>3, <1>4, <1>5, <1>6 DEF Next

(* Only Update, Designate, ClearDesignation and Reset touch the machine.    *)
LEMMA LadderUpdate ==
  ASSUME TableInv, LadderInv, NEW ticks \in Nat, Update(ticks)
  PROVE  /\ LadderInv'
         /\ ConfirmHits <= 2 /\ acq.state \notin Locked /\ acq'.state \in Locked
              => streak' >= ConfirmHits
<1>1. PICK beam \in BeamCycles(Older(tracks, ticks)) :
        /\ acq' = IF Dropout(tracks', beam.acq)
                  THEN [beam.acq EXCEPT !.state = "COASTING"] ELSE beam.acq
        /\ streak' = IF Dropout(tracks', beam.acq) THEN 0 ELSE beam.streak
  BY UpdateEffect
<1>2. /\ beam.acq \in Acquisitions
      /\ beam.streak \in Nat
      /\ beam.acq.state = "DESIGNATED" => beam.acq.hits = 0
      /\ beam.acq.state = "ACQUIRING" /\ beam.acq.hits > 0 => beam.streak > 0
      /\ beam.acq.state \in Locked => beam.acq.slips < SlipN
      /\ ConfirmHits <= 2 /\ beam.acq.state \in Locked /\ acq.state \notin Locked
           => beam.streak >= ConfirmHits
  BY BeamLadder
<1>3. CASE Dropout(tracks', beam.acq)
  <2>1. /\ acq' \in Acquisitions
        /\ acq'.state = "COASTING"
        /\ streak' = 0
    BY <1>1, <1>2, <1>3 DEF Acquisitions, States
  <2> QED BY <2>1 DEF LadderInv, BeamLockHeld, Acquisitions, States, Locked
<1>4. CASE ~ Dropout(tracks', beam.acq)
  BY <1>1, <1>2, <1>4 DEF LadderInv, BeamLockHeld, Acquisitions, States
<1> QED BY <1>3, <1>4

LEMMA LadderStep ==
  ASSUME TableInv, LadderInv, [Next]_vars
  PROVE  /\ LadderInv'
         /\ ConfirmHits <= 2 /\ acq.state \notin Locked /\ acq'.state \in Locked
              => streak' >= ConfirmHits
<1>1. ASSUME NEW f \in SUBSET Objects, Infer(f)
      PROVE  acq' = acq /\ streak' = streak
  BY <1>1 DEF Infer
<1>2. CASE \E ticks \in 0..MaxGap : Update(ticks)
  <2>1. \E ticks \in Nat : Update(ticks)
    BY <1>2, TrackerAssumption
  <2> QED BY <2>1, LadderUpdate
<1>3. CASE \E n \in 0..(next - 1) : Designate(n)
  <2>1. acq' = Designation /\ streak' = 0
    BY <1>3 DEF Designate
  <2> QED BY <2>1 DEF Designation, LadderInv, BeamLockHeld, Locked
<1>4. CASE ClearDesignation \/ Reset
  <2>1. acq' = Idle /\ streak' = 0
    BY <1>4 DEF ClearDesignation, Reset
  <2> QED BY <2>1 DEF Idle, LadderInv, BeamLockHeld, Locked
<1>5. CASE acq' = acq /\ streak' = streak
  BY <1>5 DEF LadderInv, BeamLockHeld
<1>6. CASE UNCHANGED vars
  BY <1>5, <1>6 DEF vars
<1> QED BY <1>1, <1>2, <1>3, <1>4, <1>5, <1>6 DEF Next

LEMMA InitLadder == Init => TableInv /\ LadderInv /\ SilenceInv
  BY DEF Init, NoTracks, Idle, TableInv, LadderInv, SilenceInv, BeamLockHeld, Locked

LEMMA LadderInvariant == Spec => [](TableInv /\ LadderInv)
<1>1. Init => TableInv /\ LadderInv
  BY InitLadder
<1>2. TableInv /\ LadderInv /\ [Next]_vars => (TableInv /\ LadderInv)'
  BY TableStep, LadderStep
<1> QED BY <1>1, <1>2, PTL DEF Spec

(* A beam that slips slip_n times in a row is never still locked: for any   *)
(* slip_n, any confirm_hits and any gates.                                  *)
THEOREM SlippingBeamUnlocks == Spec => []BeamLockHeld
<1>1. LadderInv => BeamLockHeld
  BY DEF LadderInv
<1> QED BY <1>1, LadderInvariant, PTL

(* A lock is entered on confirm_hits uninterrupted fused ranges.  The bound *)
(* is needed: _tick_sm_dropout keeps _lock_hits, so that with confirm_hits  *)
(* of 3 a contact that comes back needs one range fewer.                    *)
THEOREM LockIsConfirmed ==
  ASSUME ConfirmHits <= 2 PROVE Spec => LockConfirmed
<1>1. TableInv /\ LadderInv /\ [Next]_vars
        => [acq.state \notin Locked /\ acq'.state \in Locked
              => streak' >= ConfirmHits]_vars
  BY LadderStep
<1> QED BY <1>1, LadderInvariant, PTL DEF Spec, LockConfirmed

-----------------------------------------------------------------------------
(* Silence.                                                                 *)

(* A locked contact outlives the next update: it was seen within coast_s.   *)
LEMMA LockedSurvives ==
  ASSUME MaxGap + Coast <= Lost, TableInv, SilenceInv, acq.state \in Locked,
         NEW ticks \in 0..MaxGap, Update(ticks)
  PROVE  designated \in DOMAIN tracks'
<1>1. ticks \in Nat /\ ticks <= MaxGap /\ {MaxGap, Coast, Lost} \subseteq Nat
  BY TrackerAssumption
<1>2. PICK beam \in BeamCycles(Older(tracks, ticks)) :
        \A n \in DOMAIN tracks :
          /\ beam.T[n].age \in Nat
          /\ beam.T[n].age <= tracks[n].age + ticks
          /\ beam.T[n].age <= Lost => n \in DOMAIN tracks'
  BY <1>1, UpdateEffect
<1>3. /\ designated \in DOMAIN tracks /\ tracks[designated].age <= Coast
      /\ tracks[designated].age \in Nat
  BY DEF SilenceInv, TableInv
<1>4. beam.T[designated].age <= Lost
  BY <1>1, <1>2, <1>3
<1> QED BY <1>2, <1>3, <1>4

(* Only a tracked contact is locked by an update.                           *)
LEMMA LockedIsTracked ==
  ASSUME TableInv, LadderInv, SilenceInv,
         NEW ticks \in 0..MaxGap, Update(ticks), acq'.state \in Locked
  PROVE  designated \in DOMAIN tracks
<1>1. ticks \in Nat
  BY TrackerAssumption
<1>2. PICK beam \in BeamCycles(Older(tracks, ticks)) :
        acq' = IF Dropout(tracks', beam.acq)
               THEN [beam.acq EXCEPT !.state = "COASTING"] ELSE beam.acq
  BY <1>1, UpdateEffect
<1>3. /\ beam.acq \in Acquisitions
      /\ beam.acq.state \in Locked /\ designated \notin DOMAIN Older(tracks, ticks)
           => acq.state \in Locked
  BY BeamLadder
<1>4. beam.acq.state \in Locked
  BY <1>2, <1>3 DEF Acquisitions, Locked
<1> QED BY <1>3, <1>4 DEF SilenceInv, Older

LEMMA SilenceStep ==
  ASSUME MaxGap + Coast <= Lost,
         TableInv, LadderInv, SilenceInv, [Next]_vars
  PROVE  SilenceInv'
<1>1. ASSUME NEW ticks \in 0..MaxGap, Update(ticks) PROVE SilenceInv'
  <2>1. ticks \in Nat /\ ticks <= MaxGap /\ {MaxGap, Coast, Lost} \subseteq Nat
    BY TrackerAssumption
  <2> DEFINE A == Older(tracks, ticks)
  <2>2. PICK beam \in BeamCycles(A) :
          /\ \A n \in DOMAIN tracks' : tracks'[n] \in Cells
          /\ \A n \in DOMAIN tracks :
               /\ beam.T[n].age \in Nat
               /\ beam.T[n].age <= tracks[n].age + ticks
               /\ beam.T[n].age <= Lost => n \in DOMAIN tracks'
          /\ acq' = IF Dropout(tracks', beam.acq)
                    THEN [beam.acq EXCEPT !.state = "COASTING"] ELSE beam.acq
    BY <1>1, <2>1, UpdateEffect
  <2>3. beam.acq \in Acquisitions
    BY BeamLadder
  <2>4. DOMAIN A = DOMAIN tracks /\ \A n \in DOMAIN A : A[n] \in Cells
    BY <2>1, OlderTracks DEF TableInv, Cells
  <2> HIDE DEF A
  <2>5. designated' = designated
    BY <1>1 DEF Update
  <2> SUFFICES ASSUME acq'.state \in Locked
               PROVE  designated \in DOMAIN tracks' /\ tracks'[designated].age <= Coast
    BY <2>5 DEF SilenceInv
  <2>6. ~ Dropout(tracks', beam.acq) /\ beam.acq.state \in Locked
    BY <2>2, <2>3 DEF Acquisitions, Locked
  <2>7. designated \in DOMAIN tracks'
    <3>1. CASE acq.state \in Locked
      BY <1>1, <3>1, LockedSurvives
    <3>2. CASE acq.state \notin Locked
      <4>1. designated \in DOMAIN tracks /\ beam.T[designated].age = 0
        BY <2>4, <2>6, <3>2, BeamFresh
      <4> QED BY <2>1, <2>2, <4>1
    <3> QED BY <3>1, <3>2
  <2>8. ~ (tracks'[designated].age > Coast)
    BY <2>6, <2>7 DEF Dropout, Locked
  <2>9. tracks'[designated].age \in Nat
    BY <2>2, <2>7 DEF Cells
  <2> QED BY <2>1, <2>7, <2>8, <2>9
<1>2. CASE /\ UNCHANGED <<tracks, designated, acq>>
  BY <1>2 DEF SilenceInv
<1>3. CASE acq' \in {Idle, Designation}
  BY <1>3 DEF Idle, Designation, SilenceInv, Locked
<1>4. ASSUME NEW f \in SUBSET Objects, Infer(f)
      PROVE  UNCHANGED <<tracks, designated, acq>>
  BY <1>4 DEF Infer, table
<1>5. ASSUME NEW n \in 0..(next - 1), Designate(n) PROVE acq' \in {Idle, Designation}
  BY <1>5 DEF Designate
<1>6. CASE ClearDesignation \/ Reset
  BY <1>3, <1>6 DEF ClearDesignation, Reset
<1>7. CASE UNCHANGED vars
  BY <1>2, <1>7 DEF vars, table
<1> QED BY <1>1, <1>2, <1>3, <1>4, <1>5, <1>6, <1>7 DEF Next

LEMMA SilenceInvariant ==
  ASSUME MaxGap + Coast <= Lost
  PROVE  Spec => [](TableInv /\ LadderInv /\ SilenceInv)
<1>1. Init => TableInv /\ LadderInv /\ SilenceInv
  BY InitLadder
<1>2. TableInv /\ LadderInv /\ SilenceInv /\ [Next]_vars
        => (TableInv /\ LadderInv /\ SilenceInv)'
  BY TableStep, LadderStep, SilenceStep
<1> QED BY <1>1, <1>2, PTL DEF Spec

(* A lost contact that comes back has to be ranged again: with inferences   *)
(* at most lost_s - coast_s apart, LOST never turns into a locked state.    *)
THEOREM LostIsLost ==
  ASSUME MaxGap + Coast <= Lost
  PROVE  Spec => LockIsReearned
<1>1. ASSUME TableInv, LadderInv, SilenceInv, [Next]_vars, NEW n \in Names,
             TrackState(n) = "LOST"
      PROVE  TrackState(n)' \notin Locked
  <2>1. n \notin DOMAIN tracks
    BY <1>1 DEF TrackState, LadderInv, Locked
  <2> SUFFICES ASSUME TrackState(n)' \in Locked PROVE FALSE
    OBVIOUS
  <2>2. n = designated' /\ n \in DOMAIN tracks' /\ acq'.state \in Locked
    BY DEF TrackState, Locked
  <2>3. ASSUME NEW f \in SUBSET Objects, Infer(f) PROVE FALSE
    BY <2>1, <2>2, <2>3 DEF Infer, table
  <2>4. ASSUME NEW ticks \in 0..MaxGap, Update(ticks) PROVE FALSE
    <3>1. designated \in DOMAIN tracks
      BY <1>1, <2>2, <2>4, LockedIsTracked
    <3> QED BY <2>1, <2>2, <2>4, <3>1 DEF Update
  <2>5. ASSUME NEW m \in 0..(next - 1), Designate(m) PROVE FALSE
    BY <2>2, <2>5 DEF Designate, Designation, Locked
  <2>6. CASE ClearDesignation \/ Reset
    BY <2>2, <2>6 DEF ClearDesignation, Reset, Idle, Locked
  <2>7. CASE UNCHANGED vars
    BY <2>1, <2>2, <2>7 DEF vars, table
  <2> QED BY <1>1, <2>3, <2>4, <2>5, <2>6, <2>7 DEF Next
<1>2. TableInv /\ LadderInv /\ SilenceInv /\ [Next]_vars
        => [\A n \in Names : TrackState(n) = "LOST"
              => TrackState(n)' \notin Locked]_vars
  BY <1>1
<1> QED BY <1>2, SilenceInvariant, PTL DEF Spec, LockIsReearned

(* The way down leads through COASTING: under the same bound no update      *)
(* takes a locked contact straight to LOST.                                 *)
THEOREM DropoutCoastsFirst ==
  ASSUME MaxGap + Coast <= Lost
  PROVE  Spec => LostOnlyAfterCoasting
<1>1. ASSUME TableInv, LadderInv, SilenceInv, LadderInv', [Next]_vars, NEW n \in Names,
             TrackState(n) \in Locked, designated' = n
      PROVE  TrackState(n)' # "LOST"
  <2>1. n = designated /\ n \in DOMAIN tracks /\ acq.state \in Locked
    BY <1>1 DEF TrackState, Locked
  <2>2. acq'.state # "LOST"
    BY <1>1 DEF LadderInv, Locked
  <2>3. SUFFICES n \in DOMAIN tracks'
    BY <1>1, <2>2 DEF TrackState
  <2>4. ASSUME NEW f \in SUBSET Objects, Infer(f) PROVE n \in DOMAIN tracks'
    BY <2>1, <2>4 DEF Infer, table
  <2>5. ASSUME NEW ticks \in 0..MaxGap, Update(ticks) PROVE n \in DOMAIN tracks'
    BY <1>1, <2>1, <2>5, LockedSurvives
  <2>6. ASSUME NEW m \in 0..(next - 1), Designate(m) PROVE n \in DOMAIN tracks'
    BY <2>1, <2>6 DEF Designate, table
  <2>7. CASE ClearDesignation \/ Reset
    <3>1. n # None
      BY TrackerAssumption DEF Names
    <3> QED BY <1>1, <2>7, <3>1 DEF ClearDesignation, Reset
  <2>8. CASE UNCHANGED vars
    BY <2>1, <2>8 DEF vars, table
  <2> QED BY <1>1, <2>4, <2>5, <2>6, <2>7, <2>8 DEF Next
<1>2. TableInv /\ LadderInv /\ SilenceInv /\ LadderInv' /\ [Next]_vars
        => [\A n \in Names : TrackState(n) \in Locked /\ designated' = n
              => TrackState(n)' # "LOST"]_vars
  BY <1>1
<1> QED BY <1>2, SilenceInvariant, PTL DEF Spec, LostOnlyAfterCoasting

-----------------------------------------------------------------------------
(* The types.                                                               *)

Bounded == [state : States, hits : 0..ConfirmHits, slips : 0..SlipN]

LEMMA StepsBounded ==
  ASSUME NEW a \in Bounded
  PROVE  /\ LockStep(a) \in Bounded /\ SlipStep(a) \in Bounded
         /\ LockStep(a).state = "none" <=> a.state = "none"
         /\ SlipStep(a).state = "none" <=> a.state = "none"
<1>1. ConfirmHits \in Nat \ {0} /\ SlipN \in Nat \ {0}
  BY TrackerAssumption
<1>2. UpTo(ConfirmHits, a.hits + 1) \in 0..ConfirmHits /\ UpTo(SlipN, a.slips + 1) \in 0..SlipN
  BY <1>1 DEF UpTo, Bounded
<1>3. a \in Acquisitions
  BY <1>1 DEF Acquisitions, Bounded
<1>4. /\ LockStep(a).hits = UpTo(ConfirmHits, a.hits + 1) /\ LockStep(a).slips = 0
      /\ SlipStep(a).hits = 0 /\ SlipStep(a).slips = UpTo(SlipN, a.slips + 1)
  BY <1>3 DEF LockStep, SlipStep, Acquisitions
<1>5. /\ LockStep(a).state = "none" <=> a.state = "none"
      /\ SlipStep(a).state = "none" <=> a.state = "none"
  BY <1>3 DEF LockStep, SlipStep, Acquisitions, States, Locked
<1>6. ASSUME NEW x \in Acquisitions, x.hits \in 0..ConfirmHits, x.slips \in 0..SlipN
      PROVE  x \in Bounded
  BY <1>6 DEF Acquisitions, Bounded
<1>7. 0 \in 0..ConfirmHits /\ 0 \in 0..SlipN
  BY <1>1
<1> QED BY <1>2, <1>3, <1>4, <1>5, <1>6, <1>7, LockStepEffect, SlipStepEffect

(* The machine and its history.                                             *)
MachineTyped ==
  /\ acq \in Bounded
  /\ designated \in Names \cup {None}
  /\ acq.state = "none" <=> designated = None
  /\ streak \in 0..ConfirmHits

LEMMA BeamTyped ==
  ASSUME MachineTyped, NEW T, None \notin DOMAIN T, NEW beam \in BeamCycles(T)
  PROVE  /\ beam.acq \in Bounded /\ beam.streak \in 0..ConfirmHits
         /\ beam.acq.state = "none" <=> designated = None
<1>1. DesignatedAcq \in Bounded /\ (DesignatedAcq.state = "none" <=> acq.state = "none")
  BY DEF MachineTyped, DesignatedAcq, Bounded, States, Locked
<1>2. /\ LockStep(DesignatedAcq) \in Bounded /\ SlipStep(DesignatedAcq) \in Bounded
      /\ LockStep(DesignatedAcq).state = "none" <=> acq.state = "none"
      /\ SlipStep(DesignatedAcq).state = "none" <=> acq.state = "none"
  BY <1>1, StepsBounded
<1>3. 0 \in 0..ConfirmHits /\ UpTo(ConfirmHits, streak + 1) \in 0..ConfirmHits
  BY TrackerAssumption DEF UpTo, MachineTyped
<1>4. /\ beam.acq \in {acq, DesignatedAcq, LockStep(DesignatedAcq), SlipStep(DesignatedAcq)}
      /\ beam.streak \in {streak, 0, UpTo(ConfirmHits, streak + 1)}
  BY BeamCases
<1> QED BY <1>1, <1>2, <1>3, <1>4 DEF MachineTyped

LEMMA StrayTyped ==
  ASSUME NEW T, NEW beam \in BeamCycles(T)
  PROVE  beam.stray \in BOOLEAN
<1> DEFINE cycle(t, a, s, b) == [T |-> t, acq |-> a, streak |-> s, stray |-> b]
           fused == [T EXCEPT ![designated].pos = TRUE, ![designated].age = 0]
           counted == UpTo(ConfirmHits, streak + 1)
<1>1. ASSUME NEW t, NEW a, NEW s, NEW b \in BOOLEAN, beam = cycle(t, a, s, b)
      PROVE  beam.stray \in BOOLEAN
  <2>1. beam.stray = b
    BY <1>1
  <2> QED BY <2>1
<1>2. FALSE \in BOOLEAN /\ \A d : (d # T[designated].obj) \in BOOLEAN
  OBVIOUS
<1>3. \/ beam = cycle(T, acq, streak, FALSE)
      \/ beam = cycle(T, DesignatedAcq, streak, FALSE)
      \/ beam = cycle(T, SlipStep(DesignatedAcq), 0, FALSE)
      \/ \E d \in Reserved : beam = cycle(fused, LockStep(DesignatedAcq), counted,
                                        d # T[designated].obj)
  <2>1. CASE designated \notin DOMAIN T
    BY <2>1, Zenon DEF BeamCycles
  <2>2. CASE designated \in DOMAIN T
    BY <2>2, Zenon DEF BeamCycles, DesignatedAcq
  <2> QED BY <2>1, <2>2
<1> HIDE DEF cycle, fused, counted
<1> QED BY <1>1, <1>2, <1>3, Zenon

-----------------------------------------------------------------------------
(* The names.                                                               *)

Graves == [obj : Objects, age : 0..RebindWindow]

NamesTyped ==
  /\ next \in 0..MaxNames
  /\ DOMAIN tracks \subseteq 0..(next - 1)
  /\ tracks \in [DOMAIN tracks -> Tracks]
  /\ DOMAIN graveyard \subseteq 0..(next - 1)
  /\ graveyard \in [DOMAIN graveyard -> Graves]
  /\ \A c \in cands : /\ c.obj \in Objects /\ c.pos \in BOOLEAN
                      /\ c.rebind \in 0..(next - 1) \cup {None}
  /\ DOMAIN tracks \cap DOMAIN graveyard = {}

(* The births of one update take the names next, next + 1, ... without a    *)
(* gap, and names of lineages, which were given out before.                 *)
LEMMA NamesGiven ==
  ASSUME NamesTyped, NEW U, U \subseteq Objects, NEW p \in Rehits(U), NEW q \in Namings(p)
  PROVE  LET names == {q[o] : o \in DOMAIN q}
             later == next + Cardinality({n \in names : n >= next})
         IN  later \in next..MaxNames /\ names \subseteq 0..(later - 1)
<1> DEFINE B == {o \in U : p[o] # None}
           F == {o \in B : p[o].rebind = None}
           N == {q[o] : o \in F}
<1>0. next \in Nat /\ MaxNames \in Nat /\ next <= MaxNames /\ None \notin Nat
  BY TrackerAssumption DEF NamesTyped
<1>1. DOMAIN p = U /\ \A o \in B : p[o] \in cands
  BY DEF Rehits
<1>2. /\ q \in [B -> Names]
      /\ \A o \in F : /\ q[o] \in next..(next + Cardinality(F) - 1)
                       /\ \A x \in F \ {o} : q[x] # q[o]
      /\ \A o \in B \ F : q[o] = p[o].rebind
  BY <1>1 DEF Namings
<1>3. \A o \in B \ F : q[o] \in 0..(next - 1)
  BY <1>1, <1>2 DEF NamesTyped
<1>4. N \subseteq next..(MaxNames - 1)
  <2>1. ASSUME NEW o \in F PROVE q[o] \in next..(MaxNames - 1)
    <3>1. q[o] \in Names /\ q[o] \in next..(next + Cardinality(F) - 1)
      BY <1>2
    <3> HIDE DEF F, B
    <3> QED BY <1>0, <3>1 DEF Names
  <2> QED BY <2>1
<1>5. {n \in {q[o] : o \in DOMAIN q} : n >= next} = N
  BY <1>0, <1>2, <1>3, <1>4
<1>6. Cardinality(N) = Cardinality(F) /\ Cardinality(F) \in Nat
  <2>1. IsFiniteSet(F)
    <3>1. F \in SUBSET Objects
      OBVIOUS
    <3> QED BY <3>1, FS_Subset, TrackerAssumption
  <2> DEFINE g == [o \in F |-> q[o]]
  <2>2. g \in Surjection(F, N)
    BY DEF Surjection
  <2>3. g \in Injection(F, N)
    BY <1>2 DEF Injection, IsInjective
  <2> HIDE DEF F, N, g
  <2> QED BY <2>1, <2>2, <2>3, FS_Surjection, FS_CardinalityType
<1>7. Cardinality(N) <= MaxNames - next
  <2>1. /\ IsFiniteSet(next..(MaxNames - 1))
        /\ Cardinality(next..(MaxNames - 1)) = IF next > MaxNames - 1 THEN 0 ELSE MaxNames - 1 - next + 1
    BY <1>0, FS_Interval
  <2>2. Cardinality(N) <= Cardinality(next..(MaxNames - 1))
    BY <1>4, <2>1, FS_Subset
  <2> HIDE DEF N
  <2> QED BY <1>0, <1>6, <2>1, <2>2
<1> DEFINE later == next + Cardinality(N)
<1>8. later \in next..MaxNames
  BY <1>0, <1>6, <1>7
<1>9. {q[o] : o \in DOMAIN q} \subseteq 0..(later - 1)
  <2>1. ASSUME NEW o \in B PROVE q[o] \in 0..(later - 1)
    <3>1. CASE o \in F
      <4>1. q[o] \in next..(next + Cardinality(F) - 1)
        BY <1>2, <3>1
      <4> HIDE DEF F, N, B
      <4> QED BY <1>0, <1>6, <4>1
    <3>2. CASE o \notin F
      <4>1. q[o] \in 0..(next - 1)
        BY <1>3, <3>2
      <4> HIDE DEF F, N, B
      <4> QED BY <1>0, <1>6, <1>8, <4>1
    <3> QED BY <3>1, <3>2
  <2> QED BY <1>2, <2>1
<1> QED BY <1>5, <1>8, <1>9

-----------------------------------------------------------------------------
(* One update, with everything it chose named.                              *)
Ends(ticks, beam, f, geom, p, born) ==
  LET G == Older(graveyard, ticks)
      all == Overlaid(Fuse(beam.T, f, geom), born)
      firsts == {o \in Unmatched(f) : p[o] = None}
  IN  /\ EndUpdate(beam, all)
      /\ graveyard' = Buried(all, Unburied(G, DOMAIN born))
      /\ next' = next + Cardinality({n \in DOMAIN born : n >= next})
      /\ \E lineage \in [firsts -> DOMAIN G \cup {None}] :
           /\ \A o \in firsts : lineage[o] \in Lineages(G, o)
           /\ cands' = {[obj |-> o, pos |-> o \in geom, rebind |-> lineage[o]] :
                           o \in firsts}

LEMMA UpdateIs ==
  ASSUME NEW ticks, Update(ticks)
  PROVE  \E beam \in BeamCycles(Older(tracks, ticks)) :
         \E f \in Matches(beam.T), geom \in SUBSET Measured(beam.T) :
         \E p \in Rehits(Unmatched(f)) : \E q \in Namings(p) :
         \E born \in Newborns(p, q, geom) : Ends(ticks, beam, f, geom, p, born)
BY Zenon DEF Update, Ends

(* The names behind an update.                                              *)
LEMMA NamesUpdate ==
  ASSUME TableInv, result # None, NamesTyped, NEW ticks \in Nat,
         NEW beam \in BeamCycles(Older(tracks, ticks)),
         NEW f \in Matches(beam.T), NEW geom \in SUBSET Measured(beam.T),
         NEW p \in Rehits(Unmatched(f)), NEW q \in Namings(p),
         NEW born \in Newborns(p, q, geom), Ends(ticks, beam, f, geom, p, born)
  PROVE  NamesTyped'
<1> DEFINE A == Older(tracks, ticks)
           G == Older(graveyard, ticks)
           all == Overlaid(Fuse(beam.T, f, geom), born)
<1>1. /\ DOMAIN A = DOMAIN tracks /\ \A n \in DOMAIN tracks : A[n] \in Cells
  BY OlderTracks DEF TableInv, Cells
<1>2. DOMAIN beam.T = DOMAIN tracks /\ \A n \in DOMAIN tracks : beam.T[n] \in Cells
  BY <1>1, BeamTracks
<1>3. /\ DOMAIN Fuse(beam.T, f, geom) = DOMAIN tracks
      /\ \A n \in DOMAIN tracks : Fuse(beam.T, f, geom)[n] \in Cells
  BY <1>2, FusedTracks
<1>4. Unmatched(f) \subseteq Measured(beam.T) /\ Measured(beam.T) \subseteq Objects
  BY DEF Matches, Unmatched, Measured, TableInv, Results
<1>5. \A n \in DOMAIN born : born[n] \in Cells
  BY <1>4, NewbornTracks
<1>6. DOMAIN born = {q[o] : o \in DOMAIN q}
  BY DEF Newborns
<1>7. next' \in next..MaxNames /\ DOMAIN born \subseteq 0..(next' - 1)
  <2>1. Unmatched(f) \subseteq Objects
    BY <1>4
  <2>2. next' = next + Cardinality({n \in DOMAIN born : n >= next})
    BY DEF Ends
  <2> QED BY <1>6, <2>1, <2>2, NamesGiven
<1>8. next' \in 0..MaxNames /\ 0..(next - 1) \subseteq 0..(next' - 1)
  BY <1>7, TrackerAssumption DEF NamesTyped
<1>9. /\ DOMAIN all = DOMAIN tracks \cup DOMAIN born
      /\ \A n \in DOMAIN all : all[n] \in Cells
  BY <1>3, <1>5 DEF Overlaid
<1>10. tracks' = Restrict(all, DOMAIN all \ Stale(all))
       /\ graveyard' = Buried(all, Unburied(G, DOMAIN born))
  BY DEF Ends, EndUpdate
<1>11. /\ DOMAIN G = DOMAIN graveyard
       /\ \A n \in DOMAIN G : G[n].obj \in Objects /\ G[n].age \in Nat /\ DOMAIN G[n] = {"obj", "age"}
              /\ G[n] = [obj |-> G[n].obj, age |-> G[n].age]
  <2>1. ASSUME NEW n \in DOMAIN graveyard
        PROVE  G[n] = [obj |-> graveyard[n].obj, age |-> graveyard[n].age + ticks]
               /\ graveyard[n].obj \in Objects /\ graveyard[n].age \in Nat
    <3>1. graveyard[n] \in Graves
      BY DEF NamesTyped
    <3>2. G[n] = [graveyard[n] EXCEPT !.age = graveyard[n].age + ticks]
      BY DEF Older
    <3> HIDE DEF G
    <3> QED BY <3>1, <3>2, TrackerAssumption DEF Graves
  <2>2. DOMAIN G = DOMAIN graveyard
    BY DEF Older
  <2> HIDE DEF G
  <2> QED BY <2>1, <2>2
<1> HIDE DEF all, A, G
<1>12. /\ DOMAIN tracks' = DOMAIN all \ Stale(all)
       /\ tracks' \in [DOMAIN tracks' -> Tracks]
  <2>1. tracks' = [n \in DOMAIN all \ Stale(all) |-> all[n]]
    BY <1>10 DEF Restrict
  <2>2. ASSUME NEW n \in DOMAIN all \ Stale(all) PROVE all[n] \in Tracks
    <3>1. all[n] \in Cells /\ ~ (all[n].age > Lost)
      BY <1>9 DEF Stale
    <3>2. all[n].age \in 0..Lost
      BY <3>1, TrackerAssumption DEF Cells
    <3> QED BY <3>1, <3>2 DEF Cells, Tracks
  <2> QED BY <2>1, <2>2
<1> DEFINE dropped == {n \in Stale(all) : all[n].pos}
           R == Unburied(G, DOMAIN born)
           kept == {n \in DOMAIN R : R[n].age <= RebindWindow} \ dropped
<1>13. R = [n \in DOMAIN G \ DOMAIN born |-> G[n]]
  BY DEF Unburied, Restrict
<1>14. DOMAIN graveyard' = dropped \cup kept /\ graveyard' \in [DOMAIN graveyard' -> Graves]
  <2>1. graveyard' = [n \in dropped \cup kept |-> IF n \in dropped THEN [obj |-> all[n].obj, age |-> 0] ELSE R[n]]
    BY <1>10 DEF Buried
  <2>2. ASSUME NEW n \in dropped PROVE [obj |-> all[n].obj, age |-> 0] \in Graves
    <3>1. all[n] \in Cells
      BY <1>9 DEF Stale
    <3>2. 0 \in 0..RebindWindow
      BY TrackerAssumption
    <3> QED BY <3>1, <3>2 DEF Cells, Graves
  <2>3. ASSUME NEW n \in kept PROVE R[n] \in Graves
    <3>1. n \in DOMAIN G /\ R[n] = G[n] /\ G[n].age <= RebindWindow
      BY <1>13
    <3>2. G[n].age \in 0..RebindWindow
      BY <1>11, <3>1, TrackerAssumption
    <3> QED BY <1>11, <3>1, <3>2 DEF Graves
  <2> HIDE DEF dropped, kept, R
  <2> QED BY <2>1, <2>2, <2>3
<1>15. dropped \subseteq Stale(all) /\ Stale(all) \subseteq DOMAIN all
       /\ kept \subseteq DOMAIN graveyard \ DOMAIN born
  BY <1>11, <1>13 DEF Stale
<1> HIDE DEF dropped, kept, R
<1>16. DOMAIN tracks' \cap DOMAIN graveyard' = {}
  BY <1>9, <1>12, <1>14, <1>15 DEF NamesTyped
<1>17. DOMAIN tracks' \subseteq 0..(next' - 1) /\ DOMAIN graveyard' \subseteq 0..(next' - 1)
  BY <1>7, <1>8, <1>9, <1>12, <1>14, <1>15 DEF NamesTyped
<1>18. \A c \in cands' : /\ c.obj \in Objects /\ c.pos \in BOOLEAN
                         /\ c.rebind \in 0..(next' - 1) \cup {None}
  <2> DEFINE firsts == {o \in Unmatched(f) : p[o] = None}
  <2>1. PICK lineage \in [firsts -> DOMAIN G \cup {None}] :
          cands' = {[obj |-> o, pos |-> o \in geom, rebind |-> lineage[o]] : o \in firsts}
    BY DEF Ends, G
  <2>2. ASSUME NEW c \in cands'
        PROVE  /\ c.obj \in Objects /\ c.pos \in BOOLEAN
               /\ c.rebind \in 0..(next' - 1) \cup {None}
    <3>1. PICK o \in firsts : c = [obj |-> o, pos |-> o \in geom, rebind |-> lineage[o]]
      BY <2>1
    <3>2. c.obj = o /\ c.rebind = lineage[o]
      BY <3>1
    <3>3. c.pos = (o \in geom)
      BY <3>1
    <3>4. lineage[o] \in 0..(next' - 1) \cup {None}
      BY <1>8, <1>11, <2>1 DEF NamesTyped
    <3>5. o \in Objects
      BY <1>4, <2>1
    <3>6. (o \in geom) \in BOOLEAN
      OBVIOUS
    <3> QED BY <3>2, <3>3, <3>4, <3>5, <3>6
  <2> QED BY <2>2
<1> QED BY <1>8, <1>12, <1>14, <1>16, <1>17, <1>18 DEF NamesTyped

DetectorTyped ==
  /\ seed \in BOOLEAN
  /\ result # None => /\ result \in Results
                       /\ result.hit \in result.dets \cup {None}

Typed == TableInv /\ NamesTyped /\ MachineTyped /\ DetectorTyped /\ stray \in BOOLEAN

LEMMA UpdateTyped ==
  ASSUME Typed, NEW ticks \in Nat, Update(ticks)
  PROVE  NamesTyped' /\ MachineTyped' /\ stray' \in BOOLEAN
<1>1. PICK beam \in BeamCycles(Older(tracks, ticks)) :
        \E f \in Matches(beam.T), geom \in SUBSET Measured(beam.T) :
        \E p \in Rehits(Unmatched(f)) : \E q \in Namings(p) :
        \E born \in Newborns(p, q, geom) : Ends(ticks, beam, f, geom, p, born)
  BY UpdateIs
<1>2. PICK f \in Matches(beam.T), geom \in SUBSET Measured(beam.T) :
        \E p \in Rehits(Unmatched(f)) : \E q \in Namings(p) :
        \E born \in Newborns(p, q, geom) : Ends(ticks, beam, f, geom, p, born)
  BY <1>1
<1>3. PICK p \in Rehits(Unmatched(f)) : \E q \in Namings(p) :
        \E born \in Newborns(p, q, geom) : Ends(ticks, beam, f, geom, p, born)
  BY <1>2
<1>4. PICK q \in Namings(p) :
        \E born \in Newborns(p, q, geom) : Ends(ticks, beam, f, geom, p, born)
  BY <1>3
<1>5. PICK born \in Newborns(p, q, geom) : Ends(ticks, beam, f, geom, p, born)
  BY <1>4
<1>6. result # None /\ designated' = designated
  BY DEF Update
<1>7. NamesTyped'
  BY <1>5, <1>6, NamesUpdate DEF Typed
<1>8. None \notin DOMAIN Older(tracks, ticks)
  <2>1. DOMAIN tracks \subseteq Nat
    BY DEF Typed, NamesTyped
  <2> QED BY <2>1, TrackerAssumption DEF Older
<1>9. /\ beam.acq \in Bounded /\ beam.streak \in 0..ConfirmHits
      /\ beam.acq.state = "none" <=> designated = None
  BY <1>8, BeamTyped DEF Typed
<1>10. PICK drop \in BOOLEAN :
         /\ drop => beam.acq.state # "none"
         /\ acq' = IF drop THEN [beam.acq EXCEPT !.state = "COASTING"] ELSE beam.acq
         /\ streak' = IF drop THEN 0 ELSE beam.streak
  <2> DEFINE all == Overlaid(Fuse(beam.T, f, geom), born)
             d == Dropout(Restrict(all, DOMAIN all \ Stale(all)), beam.acq)
  <2>1. /\ acq' = IF d THEN [beam.acq EXCEPT !.state = "COASTING"] ELSE beam.acq
        /\ streak' = IF d THEN 0 ELSE beam.streak
    BY <1>5 DEF Ends, EndUpdate
  <2>2. d => beam.acq.state # "none"
    BY DEF Dropout
  <2>3. d \in BOOLEAN
    BY DEF Dropout
  <2> HIDE DEF d
  <2> QED BY <2>1, <2>2, <2>3
<1>11. MachineTyped'
  <2>1. CASE drop
    <3>1. acq' \in Bounded /\ acq'.state = "COASTING"
      BY <1>9, <1>10, <2>1 DEF Bounded, States
    <3>2. streak' \in 0..ConfirmHits
      BY <1>10, <2>1, TrackerAssumption
    <3> QED BY <1>6, <1>9, <1>10, <2>1, <3>1, <3>2 DEF Typed, MachineTyped
  <2>2. CASE ~ drop
    BY <1>6, <1>9, <1>10, <2>2 DEF Typed, MachineTyped
  <2> QED BY <2>1, <2>2
<1>12. stray' \in BOOLEAN
  <2>1. stray' = beam.stray
    BY <1>5 DEF Ends, EndUpdate
  <2> QED BY <2>1, StrayTyped
<1> QED BY <1>7, <1>11, <1>12

LEMMA TypedStep == ASSUME Typed, [Next]_vars PROVE Typed'
<1>0. TableInv'
  BY TableStep DEF Typed
<1>1. /\ Designation \in Bounded /\ Designation.state # "none"
      /\ Idle \in Bounded /\ Idle.state = "none" /\ 0 \in 0..ConfirmHits
  BY TrackerAssumption DEF Designation, Idle, Bounded, States
<1>2. ASSUME NEW f \in SUBSET Objects, Infer(f) PROVE Typed'
  <2>1. PICK h \in Hits(f) : result' = [dets |-> f, hit |-> h]
    BY <1>2 DEF Infer
  <2>2. h \in f \cup {None} /\ seed' \in BOOLEAN /\ stray' \in BOOLEAN
    BY <1>2 DEF Hits, Infer
  <2>3. DetectorTyped'
    BY <2>1, <2>2 DEF DetectorTyped, Results
  <2>4. NamesTyped' /\ MachineTyped'
    BY <1>2 DEF Infer, table, Typed, NamesTyped, MachineTyped
  <2> QED BY <1>0, <2>2, <2>3, <2>4 DEF Typed
<1>3. ASSUME NEW ticks \in 0..MaxGap, Update(ticks) PROVE Typed'
  <2>1. ticks \in Nat
    BY TrackerAssumption
  <2>2. DetectorTyped'
    BY <1>3 DEF Update, Typed, DetectorTyped
  <2> QED BY <1>0, <1>3, <2>1, <2>2, UpdateTyped DEF Typed
<1>4. ASSUME NEW n \in 0..(next - 1), Designate(n) PROVE Typed'
  <2>1. n \in Names /\ n # None
    BY TrackerAssumption DEF Names, Typed, NamesTyped
  <2>2. MachineTyped'
    BY <1>1, <1>4, <2>1 DEF Designate, MachineTyped
  <2>3. seed' \in BOOLEAN /\ stray' \in BOOLEAN
    <3>1. seed' = (n \in DOMAIN tracks) /\ stray' = FALSE
      BY <1>4 DEF Designate
    <3>2. (n \in DOMAIN tracks) \in BOOLEAN
      OBVIOUS
    <3> QED BY <3>1, <3>2
  <2>4. NamesTyped' /\ DetectorTyped'
    BY <1>4, <2>3 DEF Designate, table, Typed, NamesTyped, DetectorTyped
  <2> QED BY <1>0, <2>2, <2>3, <2>4 DEF Typed
<1>5. CASE ClearDesignation
  <2>1. MachineTyped'
    BY <1>1, <1>5 DEF ClearDesignation, MachineTyped
  <2>2. seed' \in BOOLEAN /\ stray' \in BOOLEAN
    BY <1>5 DEF ClearDesignation
  <2>3. NamesTyped' /\ DetectorTyped'
    BY <1>5, <2>2 DEF ClearDesignation, table, Typed, NamesTyped, DetectorTyped
  <2> QED BY <1>0, <2>1, <2>2, <2>3 DEF Typed
<1>6. CASE Reset
  <2>1. MachineTyped'
    BY <1>1, <1>6 DEF Reset, MachineTyped
  <2>2. NamesTyped'
    BY <1>6, TrackerAssumption DEF Reset, NoTracks, NamesTyped
  <2>3. stray' \in BOOLEAN /\ DetectorTyped'
    BY <1>6 DEF Reset, detector, Typed, DetectorTyped
  <2> QED BY <1>0, <2>1, <2>2, <2>3 DEF Typed
<1>7. CASE UNCHANGED vars
  <2>1. NamesTyped' /\ MachineTyped' /\ DetectorTyped' /\ stray' \in BOOLEAN
    BY <1>7 DEF vars, table, detector, Typed, NamesTyped, MachineTyped, DetectorTyped
  <2> QED BY <1>0, <2>1 DEF Typed
<1> QED BY <1>2, <1>3, <1>4, <1>5, <1>6, <1>7 DEF Next

LEMMA InitTyped == Init => Typed
<1>1. Init => TableInv
  BY InitLadder
<1>2. Init => NamesTyped
  BY TrackerAssumption DEF Init, NoTracks, NamesTyped
<1>3. Init => MachineTyped
  BY TrackerAssumption DEF Init, Idle, MachineTyped, Bounded, States
<1>4. Init => DetectorTyped /\ stray \in BOOLEAN
  BY DEF Init, DetectorTyped
<1> QED BY <1>1, <1>2, <1>3, <1>4 DEF Typed

(* Names in use have been given out, none is tracked and in the graveyard   *)
(* at once, and the machine is off exactly while nothing is designated,     *)
(* through births, rebirths, drops, resets and every order of designations. *)
THEOREM TrackerTyped == Spec => []TypeOK
<1>1. Init => Typed
  BY InitTyped
<1>2. Typed /\ [Next]_vars => Typed'
  BY TypedStep
<1>3. Typed => TypeOK
  <2> SUFFICES ASSUME Typed PROVE TypeOK
    OBVIOUS
  <2>1. acq.state \in States /\ acq.hits \in 0..ConfirmHits /\ acq.slips \in 0..SlipN
    BY DEF Typed, MachineTyped, Bounded
  <2> QED BY <2>1 DEF Typed, NamesTyped, MachineTyped, DetectorTyped, TypeOK, States, Graves
<1> QED BY <1>1, <1>2, <1>3, PTL DEF Spec

-----------------------------------------------------------------------------
(* Refinement: the ladder the flight layer reads.                           *)

LEMMA LockStepRung ==
  ASSUME NEW a \in Acquisitions
  PROVE  /\ LockStep(a).hits = UpTo(ConfirmHits, a.hits + 1)
         /\ a.state = "ACQUIRING" =>
              LockStep(a).state = IF a.hits + 1 >= ConfirmHits
                                  THEN "RANGE_LOCKED" ELSE "ACQUIRING"
         /\ a.state \in Locked => LockStep(a).state = "WORLD_TRACKED"
         /\ a.state = "COASTING" => LockStep(a).state = "ACQUIRING"
  BY DEF LockStep, Acquisitions, States, Locked

LEMMA SlipStepRung ==
  ASSUME NEW a \in Acquisitions
  PROVE  /\ SlipStep(a).state \in {a.state, "COASTING"}
         /\ SlipStep(a).state # a.state => a.state \in Locked
         /\ SlipStep(a).slips = UpTo(SlipN, a.slips + 1)
<1>1. CASE a.slips + 1 >= SlipN /\ a.state \in Locked
  BY <1>1 DEF SlipStep, Acquisitions
<1>2. CASE ~ (a.slips + 1 >= SlipN /\ a.state \in Locked)
  <2>1. SlipStep(a) = [a EXCEPT !.hits = 0, !.slips = UpTo(SlipN, a.slips + 1),
                                !.state = a.state]
    BY <1>2 DEF SlipStep
  <2> QED BY <2>1 DEF Acquisitions
<1> QED BY <1>1, <1>2

RefinementInv ==
  TableInv /\ LadderInv /\ SilenceInv /\ Typed /\ RangingInv

(* A cycle that looks at the designated contact: nothing, a miss that may   *)
(* cost the lock, or the next range of the ladder.                          *)
LEMMA BeamRung ==
  ASSUME RefinementInv,
         NEW T, designated \in DOMAIN T, None \notin DOMAIN T,
         \A n \in DOMAIN T : T[n] \in Cells, NEW beam \in BeamCycles(T)
  PROVE  LET b == beam.acq.state
             s == beam.streak
             m == beam.acq.slips
             more == IF acq.slips < SlipN THEN acq.slips + 1 ELSE SlipN
             seen == IF acq.state = "DESIGNATED" THEN "ACQUIRING" ELSE acq.state
         IN  /\ b = "ACQUIRING" => beam.acq.hits >= s
             /\ b = "COASTING" => s = 0
             /\ b # "DESIGNATED"
             /\ \/ b = seen /\ s = streak /\ m = acq.slips
                \/ b = seen /\ s = 0 /\ m = more /\ (b \in Locked => m < SlipN)
                \/ b = "COASTING" /\ acq.state \in Locked /\ s = 0 /\ m = more
                \/ /\ beam.T[designated].age = 0
                   /\ s = IF streak < ConfirmHits THEN streak + 1 ELSE ConfirmHits
                   /\ m = 0
                   /\ b \notin {"none", "COASTING"}
                   /\ ConfirmHits <= 2 /\ seen = "ACQUIRING" =>
                        b = IF s = ConfirmHits THEN "RANGE_LOCKED" ELSE "ACQUIRING"
                   /\ seen \in Locked => b = "WORLD_TRACKED"
                   /\ seen = "COASTING" => b = "ACQUIRING"
<1> DEFINE d == DesignatedAcq
           seen == IF acq.state = "DESIGNATED" THEN "ACQUIRING" ELSE acq.state
<1>1. /\ d \in Acquisitions /\ d.state = seen
      /\ d.hits = acq.hits /\ d.slips = acq.slips
  BY DEF RefinementInv, LadderInv, Acquisitions, States, DesignatedAcq, Locked
<1>2. /\ ConfirmHits \in Nat \ {0} /\ streak \in 0..ConfirmHits /\ acq.hits \in 0..ConfirmHits
      /\ SlipN \in Nat \ {0} /\ acq.slips \in 0..SlipN
  BY TrackerAssumption DEF RefinementInv, Typed, MachineTyped, Bounded
<1>3. /\ seen = "ACQUIRING" => acq.hits >= streak /\ (acq.hits > 0 => streak > 0)
      /\ seen = "COASTING" => streak = 0
      /\ seen # "DESIGNATED"
      /\ seen \in Locked <=> acq.state \in Locked
      /\ acq.state \in States
  BY <1>2 DEF RefinementInv, RangingInv, LadderInv, Locked, States
<1> HIDE DEF d, seen
<1>4. CASE beam.acq = d /\ beam.streak = streak
  BY <1>1, <1>2, <1>3, <1>4 DEF seen
<1>5. CASE beam.acq = SlipStep(d) /\ beam.streak = 0
  <2>1. /\ SlipStep(d).state \in {seen, "COASTING"}
        /\ SlipStep(d).state # seen => seen \in Locked
        /\ SlipStep(d).hits = 0
        /\ SlipStep(d).slips = UpTo(SlipN, acq.slips + 1)
        /\ SlipStep(d).state \in Locked => SlipStep(d).slips < SlipN
    BY <1>1, SlipStepRung, SlipStepEffect
  <2>2. UpTo(SlipN, acq.slips + 1) = IF acq.slips < SlipN THEN acq.slips + 1 ELSE SlipN
    BY <1>2 DEF UpTo
  <2> QED BY <1>3, <1>5, <2>1, <2>2 DEF seen
<1>6. CASE /\ beam.T = [T EXCEPT ![designated].pos = TRUE, ![designated].age = 0]
           /\ beam.acq = LockStep(d)
           /\ beam.streak = UpTo(ConfirmHits, streak + 1)
  <2>1. beam.T[designated].age = 0
    <3>1. beam.T[designated] = [obj |-> T[designated].obj, pos |-> TRUE, age |-> 0]
      BY <1>6 DEF Cells
    <3> QED BY <3>1
  <2>2. beam.streak = IF streak < ConfirmHits THEN streak + 1 ELSE ConfirmHits
    BY <1>2, <1>6 DEF UpTo
  <2>3. /\ LockStep(d).hits = UpTo(ConfirmHits, acq.hits + 1)
        /\ seen = "ACQUIRING" =>
             LockStep(d).state = IF acq.hits + 1 >= ConfirmHits
                                 THEN "RANGE_LOCKED" ELSE "ACQUIRING"
        /\ seen \in Locked => LockStep(d).state = "WORLD_TRACKED"
        /\ seen = "COASTING" => LockStep(d).state = "ACQUIRING"
        /\ LockStep(d).slips = 0
    BY <1>1, LockStepRung, LockStepEffect
  <2>4. ConfirmHits <= 2 /\ seen = "ACQUIRING" => (acq.hits + 1 >= ConfirmHits <=> beam.streak = ConfirmHits)
    BY <1>2, <1>3, <2>2
  <2>5. seen \in {"ACQUIRING", "COASTING"} => LockStep(d).hits >= beam.streak
    BY <1>2, <1>3, <2>2, <2>3 DEF UpTo
  <2>6. seen \in Locked \cup {"ACQUIRING", "COASTING"}
    <3>1. acq.state # "none"
      BY DEF RefinementInv, Typed, MachineTyped
    <3> QED BY <1>3, <3>1 DEF States, seen
  <2>7. LockStep(d).state \notin {"none", "DESIGNATED", "COASTING"}
    BY <2>3, <2>6
  <2>8. LockStep(d).state = "ACQUIRING" => LockStep(d).hits >= beam.streak
    BY <2>3, <2>5, <2>6
  <2> QED BY <1>6, <2>1, <2>2, <2>3, <2>4, <2>7, <2>8 DEF seen
<1> QED BY <1>4, <1>5, <1>6, BeamCases DEF d

RungVars == <<designated, Rung, streak, acq.slips>>

(* One update is one step of the ladder, or none.                           *)
LEMMA UpdateRung ==
  ASSUME MaxGap + Coast <= Lost, RefinementInv,
         NEW ticks \in 0..MaxGap, Update(ticks)
  PROVE  RangingInv' /\ (ConfirmHits <= 2 => [Ladder!Next]_RungVars)
<1> DEFINE A == Older(tracks, ticks)
<1>1. ticks \in Nat /\ ticks <= MaxGap /\ {MaxGap, Coast, Lost} \subseteq Nat
  BY TrackerAssumption
<1>2. PICK beam \in BeamCycles(A) :
        /\ \A n \in DOMAIN tracks' : tracks'[n] \in Cells
        /\ \A n \in DOMAIN tracks :
             /\ beam.T[n].age \in Nat
             /\ beam.T[n].age <= tracks[n].age + ticks
             /\ beam.T[n].age <= Lost => n \in DOMAIN tracks'
             /\ n \in DOMAIN tracks' => tracks'[n].age <= beam.T[n].age
        /\ acq' = IF Dropout(tracks', beam.acq)
                  THEN [beam.acq EXCEPT !.state = "COASTING"] ELSE beam.acq
        /\ streak' = IF Dropout(tracks', beam.acq) THEN 0 ELSE beam.streak
  BY <1>1, UpdateEffect DEF RefinementInv
<1>3. DOMAIN A = DOMAIN tracks /\ \A n \in DOMAIN A : A[n] \in Cells
  BY <1>1, OlderTracks DEF RefinementInv, TableInv, Cells
<1>4. /\ acq \in Bounded /\ streak \in 0..ConfirmHits
      /\ acq.state = "none" <=> designated = None
      /\ None \notin DOMAIN tracks
      /\ ConfirmHits \in Nat \ {0}
  <2>1. None \notin DOMAIN tracks
    BY TrackerAssumption DEF RefinementInv, Typed, NamesTyped
  <2> QED BY <2>1, TrackerAssumption DEF RefinementInv, Typed, MachineTyped
<1>5. /\ acq.state \in {"none", "DESIGNATED", "COASTING"} => streak = 0
      /\ acq.state = "none" => acq.slips = 0
      /\ designated \notin DOMAIN tracks => streak = 0 /\ acq.state \notin Locked
      /\ designated \in DOMAIN tracks /\ acq.state \in Locked \cup {"ACQUIRING"}
           => tracks[designated].age <= Coast
      /\ \A n \in DOMAIN tracks : tracks[n].age \in Nat
  BY DEF RefinementInv, RangingInv, SilenceInv, TableInv
<1>6. designated' = designated
  BY DEF Update
<1>7. beam.acq \in Bounded /\ beam.streak \in 0..ConfirmHits
  BY <1>3, <1>4, BeamTyped DEF RefinementInv, Typed
<1>8. /\ Dropout(tracks', beam.acq) =>
           /\ acq'.state = "COASTING" /\ streak' = 0
           /\ acq'.slips = beam.acq.slips
           /\ beam.acq.state \notin {"none", "DESIGNATED", "COASTING"}
           /\ designated \in DOMAIN tracks' /\ tracks'[designated].age > Coast
      /\ ~ Dropout(tracks', beam.acq) =>
           /\ acq' = beam.acq /\ streak' = beam.streak
           /\ designated \in DOMAIN tracks' /\ acq'.state \in Locked \cup {"ACQUIRING"}
                => ~ (tracks'[designated].age > Coast)
  BY <1>2, <1>7 DEF Dropout, Bounded, Locked
<1>9. \A n \in DOMAIN tracks' : tracks'[n].age \in Nat
  BY <1>2 DEF Cells
<1> HIDE DEF A
<1>10. CASE designated \notin DOMAIN tracks
  <2>1. beam.acq = acq /\ beam.streak = streak
    BY <1>3, <1>10, BeamCases
  <2>2. acq.state \in {"none", "DESIGNATED", "ACQUIRING", "COASTING"}
    BY <1>4, <1>5, <1>10 DEF Bounded, States
  <2>3. /\ streak' = 0 /\ acq'.state \in {acq.state, "COASTING"}
        /\ acq.state = "none" => acq'.state = "none"
        /\ acq'.hits \in Nat /\ acq'.slips = acq.slips
    BY <1>4, <1>5, <1>7, <1>8, <1>10, <2>1, <1>2 DEF Bounded
  <2>4. RangingInv'
    <3>1. acq'.hits >= streak'
      BY <2>3
    <3>2. designated \in DOMAIN tracks' /\ acq'.state \in Locked \cup {"ACQUIRING"}
            => tracks'[designated].age <= Coast
      BY <1>1, <1>8, <1>9 DEF Locked
    <3>3. acq'.state = "none" => acq'.slips = 0
      BY <1>5, <2>2, <2>3
    <3> QED BY <1>6, <2>3, <3>1, <3>2, <3>3 DEF RangingInv
  <2>5. CASE designated = None
    <3>1. Rung = "none" /\ Rung' = "none" /\ streak' = streak
      BY <1>5, <1>6, <1>10, <2>3, <2>5 DEF Rung
    <3> QED BY <1>6, <2>3, <2>4, <3>1 DEF RungVars
  <2>6. CASE designated # None
    <3>1. Rung = "LOST" /\ streak' = streak
      BY <1>5, <1>10, <2>3, <2>6 DEF Rung, TrackState
    <3>2. Rung' \in {"LOST", "DESIGNATED", "ACQUIRING", "COASTING"}
      BY <1>4, <1>6, <2>2, <2>3, <2>6 DEF Rung, TrackState
    <3>3. CASE Rung' = "LOST"
      BY <1>6, <2>3, <2>4, <3>1, <3>3 DEF RungVars
    <3>4. CASE Rung' # "LOST"
      <4>1. Ladder!Return
        BY <1>6, <2>3, <3>1, <3>2, <3>4 DEF Ladder!Return
      <4> QED BY <2>4, <4>1 DEF Ladder!Next
    <3> QED BY <3>3, <3>4
  <2> QED BY <2>5, <2>6
<1>11. CASE designated \in DOMAIN tracks
  <2> DEFINE b == beam.acq.state
             s == beam.streak
             m == beam.acq.slips
             more == IF acq.slips < SlipN THEN acq.slips + 1 ELSE SlipN
             seen == IF acq.state = "DESIGNATED" THEN "ACQUIRING" ELSE acq.state
             climbed == /\ beam.T[designated].age = 0
                        /\ s = IF streak < ConfirmHits THEN streak + 1 ELSE ConfirmHits
                        /\ m = 0
                        /\ b \notin {"none", "COASTING"}
                        /\ ConfirmHits <= 2 /\ seen = "ACQUIRING" =>
                             b = IF s = ConfirmHits THEN "RANGE_LOCKED" ELSE "ACQUIRING"
                        /\ seen \in Locked => b = "WORLD_TRACKED"
                        /\ seen = "COASTING" => b = "ACQUIRING"
  <2>1. /\ b = "ACQUIRING" => beam.acq.hits >= s
        /\ b = "COASTING" => s = 0
        /\ b # "DESIGNATED"
        /\ \/ b = seen /\ s = streak /\ m = acq.slips
           \/ b = seen /\ s = 0 /\ m = more /\ (b \in Locked => m < SlipN)
           \/ b = "COASTING" /\ acq.state \in Locked /\ s = 0 /\ m = more
           \/ climbed
    BY <1>3, <1>4, <1>11, BeamRung
  <2>2. designated # None /\ Rung = acq.state /\ acq.state # "none"
    BY <1>4, <1>11 DEF Rung, TrackState
  <2>3. seen \in Locked \cup {"ACQUIRING", "COASTING"} /\ acq.state \in States \ {"none"}
    BY <1>4, <2>2 DEF Bounded, States
  <2>4. b # "none"
    BY <2>1, <2>3 DEF Locked
  <2>5. climbed => designated \in DOMAIN tracks' /\ ~ Dropout(tracks', beam.acq)
    <3>1. climbed => /\ designated \in DOMAIN tracks'
                     /\ tracks'[designated].age <= 0
      BY <1>1, <1>2, <1>11
    <3> QED BY <1>1, <1>8, <1>9, <3>1
  <2>6. RangingInv'
    <3>1. acq'.state \in {"DESIGNATED", "ACQUIRING"} => acq'.hits >= streak'
      BY <1>8, <2>1
    <3>2. acq'.state \in {"none", "DESIGNATED", "COASTING"} => streak' = 0
      BY <1>8, <2>1, <2>4
    <3>3. designated \notin DOMAIN tracks' => streak' = 0
      <4> SUFFICES ASSUME designated \notin DOMAIN tracks' PROVE streak' = 0
        OBVIOUS
      <4>1. acq.state \notin Locked \cup {"ACQUIRING"}
        BY <1>1, <1>2, <1>5, <1>11
      <4>2. streak = 0
        BY <1>5, <2>3, <4>1 DEF States
      <4> QED BY <1>8, <2>1, <2>5, <4>2
    <3>4. designated \in DOMAIN tracks' /\ acq'.state \in Locked \cup {"ACQUIRING"}
            => tracks'[designated].age <= Coast
      BY <1>1, <1>8, <1>9 DEF Locked
    <3>5. acq'.state # "none"
      BY <1>8, <2>4
    <3> QED BY <1>6, <3>1, <3>2, <3>3, <3>4, <3>5 DEF RangingInv
  <2>7. CASE designated \notin DOMAIN tracks'
    <3>1. acq.state \in {"DESIGNATED", "COASTING"}
      <4>1. acq.state \notin Locked \cup {"ACQUIRING"}
        BY <1>1, <1>2, <1>5, <1>11, <2>7
      <4> QED BY <2>3, <4>1 DEF States
    <3>2. Rung' = "LOST"
      BY <1>6, <2>2, <2>7 DEF Rung, TrackState
    <3>3. streak = 0 /\ streak' = 0
      BY <1>5, <1>6, <2>6, <2>7, <3>1 DEF RangingInv
    <3>4. ~ climbed /\ acq'.slips \in {acq.slips, more}
      BY <1>8, <2>1, <2>5, <2>7
    <3>5. Ladder!Lose
      BY <1>6, <2>2, <3>1, <3>2, <3>3, <3>4 DEF Ladder!Lose, Ladder!Counted
    <3> QED BY <2>6, <3>5 DEF Ladder!Next
  <2>8. CASE designated \in DOMAIN tracks'
    <3>1. Rung' = acq'.state
      BY <1>6, <2>2, <2>8 DEF Rung, TrackState
    <3>2. acq.state \in Ladder!Rungs \cup {"COASTING"}
      BY <2>3 DEF States, Locked, Ladder!Rungs
    <3>3. CASE Dropout(tracks', beam.acq)
      <4>1. ~ climbed
        BY <2>5, <3>3
      <4>2. acq.state # "COASTING" /\ acq'.slips \in {acq.slips, more}
        BY <1>8, <2>1, <3>3, <4>1 DEF Locked
      <4>3. Ladder!Fall
        BY <1>6, <1>8, <2>2, <3>1, <3>2, <3>3, <4>2 DEF Ladder!Fall, Ladder!Counted
      <4> QED BY <2>6, <4>3 DEF Ladder!Next
    <3>4. ASSUME ~ Dropout(tracks', beam.acq)
          PROVE  Rung' = b /\ streak' = s /\ acq'.slips = m
      BY <1>8, <3>1, <3>4
    <3>5. CASE /\ ~ Dropout(tracks', beam.acq)
               /\ b = seen /\ s = streak /\ m = acq.slips
      <4>1. CASE acq.state = "DESIGNATED"
        <5>1. Ladder!Begin
          BY <1>6, <2>2, <3>4, <3>5, <4>1 DEF Ladder!Begin
        <5> QED BY <2>6, <5>1 DEF Ladder!Next
      <4>2. CASE acq.state # "DESIGNATED"
        BY <1>6, <2>2, <2>6, <3>4, <3>5, <4>2 DEF RungVars
      <4> QED BY <4>1, <4>2
    <3>6. CASE /\ ~ Dropout(tracks', beam.acq)
               /\ b = seen /\ s = 0 /\ m = more /\ (b \in Locked => m < SlipN)
      <4>1. acq.state \in Ladder!Locked => m < SlipN
        BY <3>6 DEF Ladder!Locked, Locked
      <4>2. Ladder!Miss
        BY <1>6, <2>2, <3>2, <3>4, <3>6, <4>1 DEF Ladder!Miss, Ladder!Counted
      <4> QED BY <2>6, <4>2 DEF Ladder!Next
    <3>7. CASE /\ ~ Dropout(tracks', beam.acq)
               /\ b = "COASTING" /\ acq.state \in Locked /\ s = 0 /\ m = more
      <4>1. Ladder!Fall
        BY <1>6, <2>2, <3>4, <3>7 DEF Ladder!Fall, Ladder!Rungs, Ladder!Counted, Locked
      <4> QED BY <2>6, <4>1 DEF Ladder!Next
    <3>8. CASE ~ Dropout(tracks', beam.acq) /\ climbed
      <4> SUFFICES ASSUME ConfirmHits <= 2 PROVE Ladder!Range
        BY <2>6 DEF Ladder!Next
      <4>1. Rung' = CASE acq.state \in {"DESIGNATED", "ACQUIRING"} ->
                           IF streak' = ConfirmHits THEN "RANGE_LOCKED" ELSE "ACQUIRING"
                      [] acq.state = "COASTING" -> "ACQUIRING"
                      [] OTHER -> "WORLD_TRACKED"
        BY <2>3, <3>4, <3>8 DEF States, Locked
      <4> QED BY <1>6, <2>2, <3>2, <3>4, <3>8, <4>1 DEF Ladder!Range, Ladder!Counted
    <3> QED BY <2>1, <3>3, <3>5, <3>6, <3>7, <3>8
  <2> QED BY <2>7, <2>8
<1> QED BY <1>10, <1>11

LEMMA RungStep ==
  ASSUME MaxGap + Coast <= Lost, RefinementInv, [Next]_vars
  PROVE  RangingInv' /\ (ConfirmHits <= 2 => [Ladder!Next]_RungVars)
<1>1. ASSUME UNCHANGED <<tracks, designated, acq, streak>>
      PROVE  RangingInv' /\ (ConfirmHits <= 2 => [Ladder!Next]_RungVars)
  BY <1>1 DEF RefinementInv, RangingInv, Rung, RungVars, TrackState
<1>2. ASSUME NEW f \in SUBSET Objects, Infer(f)
      PROVE  UNCHANGED <<tracks, designated, acq, streak>>
  BY <1>2 DEF Infer, table
<1>3. CASE \E ticks \in 0..MaxGap : Update(ticks)
  BY <1>3, UpdateRung
<1>4. ASSUME NEW n \in 0..(next - 1), Designate(n)
      PROVE  RangingInv' /\ (ConfirmHits <= 2 => [Ladder!Next]_RungVars)
  <2>1. n \in Names /\ n # None
    BY TrackerAssumption DEF RefinementInv, Typed, NamesTyped, Names
  <2>2. designated' = n /\ acq' = Designation /\ streak' = 0 /\ tracks' = tracks
    BY <1>4 DEF Designate, table
  <2>3. RangingInv'
    BY <2>2 DEF Designation, RangingInv, Locked
  <2>4. Rung' \in {"DESIGNATED", "LOST"}
    BY <2>1, <2>2 DEF Rung, TrackState, Designation
  <2>5. Ladder!Select(n)
    BY <2>2, <2>4 DEF Designation, Ladder!Select
  <2> QED BY <2>1, <2>3, <2>5 DEF Ladder!Next
<1>5. CASE ClearDesignation \/ Reset
  <2>1. designated' = None /\ acq' = Idle /\ streak' = 0
    BY <1>5 DEF ClearDesignation, Reset
  <2>2. RangingInv'
    BY <2>1 DEF Idle, RangingInv, Locked
  <2>3. Rung' = "none"
    BY <2>1 DEF Rung
  <2>4. CASE designated # None
    <3>1. Ladder!Release
      BY <2>1, <2>3, <2>4 DEF Idle, Ladder!Release
    <3> QED BY <2>2, <3>1 DEF Ladder!Next
  <2>5. CASE designated = None
    <3>1. streak = 0 /\ acq.slips = 0
      BY <2>5 DEF RefinementInv, RangingInv, Typed, MachineTyped
    <3>2. Rung = "none"
      BY <2>5 DEF Rung
    <3> QED BY <2>1, <2>2, <2>3, <2>5, <3>1, <3>2 DEF Idle, RungVars
  <2> QED BY <2>4, <2>5
<1>6. CASE UNCHANGED vars
  BY <1>1, <1>6 DEF vars, table
<1> QED BY <1>1, <1>2, <1>3, <1>4, <1>5, <1>6 DEF Next

LEMMA InitRefinement == Init => RefinementInv
<1>1. Init => RangingInv
  BY DEF Init, Idle, NoTracks, RangingInv, Locked
<1> QED BY <1>1, InitLadder, InitTyped DEF RefinementInv

LEMMA RefinementStep ==
  ASSUME MaxGap + Coast <= Lost
  PROVE  RefinementInv /\ [Next]_vars => RefinementInv'
BY TableStep, LadderStep, SilenceStep, TypedStep, RungStep DEF RefinementInv

(* The tracker and its acquisition machine implement the ladder: a lock is  *)
(* entered on confirm_hits fused ranges in a row and on nothing else, it is *)
(* left only for COASTING, and a contact that was LOST climbs from the      *)
(* start, whatever silences, slips, drops and rebirths come between.        *)
THEOREM LadderImplemented ==
  ASSUME MaxGap + Coast <= Lost, ConfirmHits <= 2
  PROVE  Spec => ImplementsLadder
<1>1. Init => RefinementInv
  BY InitRefinement
<1>2. RefinementInv /\ [Next]_vars => RefinementInv'
  BY RefinementStep
<1>3. Init => Ladder!Init
  BY DEF Init, Idle, Ladder!Init, Rung
<1>4. RefinementInv /\ [Next]_vars
        => [Ladder!Next]_<<designated, Rung, streak, acq.slips>>
  BY RungStep DEF RungVars
<1> QED BY <1>1, <1>2, <1>3, <1>4, PTL DEF Spec, ImplementsLadder, Ladder!Spec

-----------------------------------------------------------------------------
(* Identity: a name stands for one object, through association, the         *)
(* graveyard and rebirth.                                                   *)

(* A candidate that carries a lineage shows the object of that name, dead   *)
(* or, through another birth, tracked again.  Without it a second birth of  *)
(* one lineage could replace a track by something else.                     *)
LineageInv ==
  \A c \in cands : c.rebind # None =>
    /\ c.rebind \in DOMAIN tracks => tracks[c.rebind].obj = c.obj
    /\ c.rebind \in DOMAIN graveyard => graveyard[c.rebind].obj = c.obj

(* The beam moves no name to another object and takes no position away.     *)
LEMMA BeamKeeps ==
  ASSUME NEW T, \A n \in DOMAIN T : T[n] \in Cells, NEW beam \in BeamCycles(T),
         NEW n \in DOMAIN T
  PROVE  /\ beam.T[n].obj = T[n].obj
         /\ T[n].pos => beam.T[n].pos
<1>1. CASE beam.T = T
  BY <1>1
<1>2. CASE /\ designated \in DOMAIN T
           /\ beam.T = [T EXCEPT ![designated].pos = TRUE, ![designated].age = 0]
  <2>1. CASE n = designated
    <3>1. beam.T[n] = [obj |-> T[n].obj, pos |-> TRUE, age |-> 0]
      BY <1>2, <2>1 DEF Cells
    <3> QED BY <3>1
  <2>2. CASE n # designated
    BY <1>2, <2>2
  <2> QED BY <2>1, <2>2
<1> QED BY <1>1, <1>2, BeamCases

LEMMA OlderKeeps ==
  ASSUME NEW T, \A n \in DOMAIN T : T[n] \in Cells, NEW ticks \in Nat,
         NEW n \in DOMAIN T
  PROVE  /\ Older(T, ticks)[n].obj = T[n].obj
         /\ Older(T, ticks)[n].pos = T[n].pos
<1>1. Older(T, ticks)[n] = [T[n] EXCEPT !.age = T[n].age + ticks]
  BY DEF Older
<1> QED BY <1>1 DEF Cells

(* What a positioned track is updated with, its hit included, passed a gate *)
(* that only its own object passes.                                         *)
LEMMA FuseKeeps ==
  ASSUME Near = {}, NEW T, NEW f \in Matches(T), NEW geom,
         NEW n \in DOMAIN T, T[n].pos, n # None
  PROVE  Fuse(T, f, geom)[n].obj = T[n].obj
<1> DEFINE os == {o \in DOMAIN f : f[o] = n}
           x == IF os = {result.hit} THEN result.hit
                ELSE CHOOSE o \in os \ {result.hit} : TRUE
<1>1. \A o \in os : o = T[n].obj
  <2>1. TAKE o \in os
  <2>2. o \in Measured(T) /\ f[o] = n
    BY DEF Matches
  <2>3. CASE o = result.hit
    BY <2>2, <2>3 DEF Matches, HitGate, Confusable
  <2>4. CASE o # result.hit
    BY <2>2, <2>4 DEF Matches, Confusable
  <2> QED BY <2>3, <2>4
<1>2. CASE os = {}
  BY <1>2 DEF Fuse
<1>3. CASE os # {}
  <2>1. Fuse(T, f, geom)[n].obj = x
    BY <1>3 DEF Fuse
  <2>2. x \in os
    BY <1>3
  <2> QED BY <1>1, <2>1, <2>2
<1> QED BY <1>2, <1>3

(* A birth under a name given out before is that of a candidate whose       *)
(* lineage it is, and shows what the gates take for its object.             *)
LEMMA RebornFromLineage ==
  ASSUME next \in Nat, NEW U, NEW p \in Rehits(U), NEW q \in Namings(p),
         IsFiniteSet(U), NEW geom, NEW born \in Newborns(p, q, geom),
         NEW n \in DOMAIN born, n < next
  PROVE  \E c \in cands : c.rebind = n /\ Confusable(born[n].obj, c.obj)
<1> DEFINE names == {q[o] : o \in DOMAIN q}
           B == {o \in U : p[o] # None}
           F == {o \in B : p[o].rebind = None}
<1>1. PICK last \in {l \in [names -> DOMAIN q] : \A m \in names : q[l[m]] = m} :
        born = [m \in names |-> [obj |-> last[m],
                                 pos |-> last[m] \in geom \/ p[last[m]].pos,
                                 age |-> 0]]
  BY DEF Newborns
<1>2. DOMAIN p = U
  BY DEF Rehits
<1>3. /\ DOMAIN q = B
      /\ \A o \in F : q[o] \in next..(next + Cardinality(F) - 1)
      /\ \A o \in B \ F : q[o] = p[o].rebind
  BY <1>2 DEF Namings
<1>4. n \in names /\ born[n].obj = last[n] /\ last[n] \in B /\ q[last[n]] = n
  BY <1>1, <1>3
<1>5. Cardinality(F) \in Nat
  <2>1. F \subseteq U
    OBVIOUS
  <2> QED BY <2>1, FS_Subset, FS_CardinalityType
<1>6. last[n] \notin F
  <2>1. SUFFICES ASSUME last[n] \in F PROVE FALSE
    OBVIOUS
  <2>2. n \in next..(next + Cardinality(F) - 1)
    BY <1>3, <1>4, <2>1
  <2> HIDE DEF F
  <2> QED BY <1>5, <2>2
<1>7. /\ p[last[n]].rebind = n /\ p[last[n]] \in cands
      /\ Confusable(last[n], p[last[n]].obj)
  BY <1>2, <1>3, <1>4, <1>6 DEF Rehits
<1> QED BY <1>4, <1>7

(* The identities behind an update.                                         *)
LEMMA IdentityUpdate ==
  ASSUME Near = {}, TableInv, NamesTyped, LineageInv, result # None, NEW ticks \in Nat,
         NEW beam \in BeamCycles(Older(tracks, ticks)),
         NEW f \in Matches(beam.T), NEW geom \in SUBSET Measured(beam.T),
         NEW p \in Rehits(Unmatched(f)), NEW q \in Namings(p),
         NEW born \in Newborns(p, q, geom), Ends(ticks, beam, f, geom, p, born)
  PROVE  /\ \A n \in DOMAIN tracks \cap DOMAIN tracks' :
              tracks[n].pos => tracks'[n].obj = tracks[n].obj
         /\ \A n \in DOMAIN graveyard \cap DOMAIN tracks' :
              tracks'[n].obj = graveyard[n].obj
         /\ LineageInv'
<1> DEFINE A == Older(tracks, ticks)
           G == Older(graveyard, ticks)
           fused == Fuse(beam.T, f, geom)
           all == Overlaid(fused, born)
<1>0. /\ next \in Nat /\ None \notin Nat
      /\ \A n \in DOMAIN tracks : n \in Nat /\ n < next /\ n # None
      /\ \A n \in DOMAIN graveyard : n \in Nat /\ n < next /\ n \notin DOMAIN tracks
  BY TrackerAssumption DEF NamesTyped
<1>1. /\ DOMAIN A = DOMAIN tracks
      /\ \A n \in DOMAIN tracks :
           A[n] \in Cells /\ A[n].obj = tracks[n].obj /\ A[n].pos = tracks[n].pos
  BY OlderTracks, OlderKeeps DEF TableInv, Cells
<1>2. /\ DOMAIN beam.T = DOMAIN tracks
      /\ \A n \in DOMAIN tracks : beam.T[n] \in Cells
  BY <1>1, BeamTracks
<1>3. \A n \in DOMAIN tracks : /\ beam.T[n].obj = tracks[n].obj
                               /\ tracks[n].pos => beam.T[n].pos
  BY <1>1, BeamKeeps
<1>4. /\ DOMAIN fused = DOMAIN tracks
      /\ \A n \in DOMAIN tracks : tracks[n].pos => fused[n].obj = tracks[n].obj
  <2>1. DOMAIN fused = DOMAIN tracks
    BY <1>2, FusedTracks
  <2>2. ASSUME NEW n \in DOMAIN tracks, tracks[n].pos
        PROVE  fused[n].obj = tracks[n].obj
    BY <1>0, <1>2, <1>3, <2>2, FuseKeeps
  <2> QED BY <2>1, <2>2
<1>5. Unmatched(f) \subseteq Measured(beam.T) /\ Unmatched(f) \subseteq Objects
      /\ IsFiniteSet(Unmatched(f))
  <2>1. Unmatched(f) \subseteq Measured(beam.T) /\ Measured(beam.T) \subseteq Objects
    BY DEF Matches, Unmatched, Measured, TableInv, Results
  <2> QED BY <2>1, FS_Subset, TrackerAssumption
<1>6. \A n \in DOMAIN born : born[n] \in Cells /\ born[n].age = 0
  BY <1>5, NewbornTracks
<1>7. ASSUME NEW n \in DOMAIN born, n < next
      PROVE  \E c \in cands : c.rebind = n /\ c.obj = born[n].obj
  BY <1>0, <1>5, <1>7, RebornFromLineage DEF Confusable
<1>8. /\ DOMAIN all = DOMAIN tracks \cup DOMAIN born
      /\ \A n \in DOMAIN born : all[n] = born[n]
      /\ \A n \in DOMAIN tracks \ DOMAIN born : all[n] = fused[n]
  BY <1>4 DEF Overlaid
<1>9. tracks' = Restrict(all, DOMAIN all \ Stale(all))
      /\ graveyard' = Buried(all, Unburied(G, DOMAIN born))
  BY DEF Ends, EndUpdate
<1>10. /\ DOMAIN G = DOMAIN graveyard
       /\ \A n \in DOMAIN G : G[n].obj = graveyard[n].obj
  <2>1. ASSUME NEW n \in DOMAIN graveyard PROVE G[n].obj = graveyard[n].obj
    <3>1. G[n] = [graveyard[n] EXCEPT !.age = graveyard[n].age + ticks]
      BY DEF Older
    <3>2. graveyard[n] \in Graves
      BY DEF NamesTyped
    <3> QED BY <3>1, <3>2 DEF Graves
  <2> QED BY <2>1 DEF Older
<1> HIDE DEF A, G, fused, all
<1>11. /\ DOMAIN tracks' = DOMAIN all \ Stale(all)
       /\ \A n \in DOMAIN tracks' : tracks'[n] = all[n]
  BY <1>9 DEF Restrict
<1>12. ASSUME NEW n \in DOMAIN tracks, n \in DOMAIN tracks', tracks[n].pos
       PROVE  tracks'[n].obj = tracks[n].obj
  <2>1. CASE n \in DOMAIN born
    <3>1. PICK c \in cands : c.rebind = n /\ c.obj = born[n].obj
      BY <1>0, <1>7, <2>1
    <3>2. tracks[n].obj = c.obj
      BY <1>0, <1>12, <3>1 DEF LineageInv
    <3> QED BY <1>8, <1>11, <1>12, <2>1, <3>1, <3>2
  <2>2. CASE n \notin DOMAIN born
    BY <1>4, <1>8, <1>11, <1>12, <2>2
  <2> QED BY <2>1, <2>2
<1>13. ASSUME NEW n \in DOMAIN graveyard, n \in DOMAIN all
       PROVE  n \in DOMAIN born /\ all[n].obj = graveyard[n].obj
  <2>1. n \in DOMAIN born
    BY <1>0, <1>8, <1>13
  <2>2. PICK c \in cands : c.rebind = n /\ c.obj = born[n].obj
    BY <1>0, <1>7, <2>1
  <2>3. graveyard[n].obj = c.obj
    BY <1>0, <2>2 DEF LineageInv
  <2> QED BY <1>8, <2>1, <2>2, <2>3
<1>14. ASSUME NEW n \in DOMAIN graveyard, n \in DOMAIN tracks'
       PROVE  tracks'[n].obj = graveyard[n].obj
  BY <1>11, <1>13, <1>14
<1>15. ASSUME NEW n \in DOMAIN graveyard, n \in DOMAIN graveyard'
       PROVE  graveyard'[n].obj = graveyard[n].obj
  <2> DEFINE dropped == {m \in Stale(all) : all[m].pos}
             R == Unburied(G, DOMAIN born)
             kept == {m \in DOMAIN R : R[m].age <= RebindWindow} \ dropped
  <2>1. graveyard' = [m \in dropped \cup kept |->
                        IF m \in dropped THEN [obj |-> all[m].obj, age |-> 0] ELSE R[m]]
    BY <1>9 DEF Buried
  <2>2. CASE n \in dropped
    <3>1. n \in DOMAIN all
      BY <2>2 DEF Stale
    <3>2. graveyard'[n].obj = all[n].obj
      BY <2>1, <2>2
    <3> QED BY <1>13, <3>1, <3>2
  <2>3. CASE n \notin dropped
    <3>1. n \in DOMAIN R /\ graveyard'[n] = R[n]
      BY <1>15, <2>1, <2>3
    <3>2. n \in DOMAIN G /\ R[n] = G[n]
      BY <3>1 DEF Unburied, Restrict
    <3> QED BY <1>10, <3>1, <3>2
  <2> QED BY <2>2, <2>3
<1>16. LineageInv'
  <2> DEFINE firsts == {o \in Unmatched(f) : p[o] = None}
  <2>1. PICK lineage \in [firsts -> DOMAIN G \cup {None}] :
          /\ \A o \in firsts : lineage[o] \in Lineages(G, o)
          /\ cands' = {[obj |-> o, pos |-> o \in geom, rebind |-> lineage[o]] : o \in firsts}
    BY DEF Ends, G
  <2>2. ASSUME NEW c \in cands', c.rebind # None
        PROVE  c.rebind \in DOMAIN graveyard /\ graveyard[c.rebind].obj = c.obj
    <3>1. PICK o \in firsts : c = [obj |-> o, pos |-> o \in geom, rebind |-> lineage[o]]
      BY <2>1
    <3>2. c.obj = o /\ c.rebind = lineage[o] /\ lineage[o] \in Lineages(G, o)
      BY <2>1, <3>1
    <3>3. lineage[o] \in DOMAIN G /\ Confusable(o, G[lineage[o]].obj)
      BY <2>2, <3>2 DEF Lineages
    <3> QED BY <1>10, <3>2, <3>3 DEF Confusable
  <2> QED BY <1>14, <1>15, <2>2 DEF LineageInv
<1> QED BY <1>12, <1>14, <1>16

LEMMA IdentityStep ==
  ASSUME Near = {}, Typed, LineageInv, [Next]_vars
  PROVE  /\ LineageInv'
         /\ \A n \in Names :
              /\ n \in DOMAIN tracks /\ tracks[n].pos /\ n \in DOMAIN tracks'
                   => tracks'[n].obj = tracks[n].obj
              /\ n \in DOMAIN graveyard /\ n \in DOMAIN tracks'
                   => tracks'[n].obj = graveyard[n].obj
<1>1. ASSUME NEW ticks \in 0..MaxGap, Update(ticks)
      PROVE  /\ \A n \in DOMAIN tracks \cap DOMAIN tracks' :
                  tracks[n].pos => tracks'[n].obj = tracks[n].obj
             /\ \A n \in DOMAIN graveyard \cap DOMAIN tracks' :
                  tracks'[n].obj = graveyard[n].obj
             /\ LineageInv'
  <2>1. PICK beam \in BeamCycles(Older(tracks, ticks)) :
          \E f \in Matches(beam.T), geom \in SUBSET Measured(beam.T) :
          \E p \in Rehits(Unmatched(f)) : \E q \in Namings(p) :
          \E born \in Newborns(p, q, geom) : Ends(ticks, beam, f, geom, p, born)
    BY <1>1, UpdateIs
  <2>2. PICK f \in Matches(beam.T), geom \in SUBSET Measured(beam.T) :
          \E p \in Rehits(Unmatched(f)) : \E q \in Namings(p) :
          \E born \in Newborns(p, q, geom) : Ends(ticks, beam, f, geom, p, born)
    BY <2>1
  <2>3. PICK p \in Rehits(Unmatched(f)) : \E q \in Namings(p) :
          \E born \in Newborns(p, q, geom) : Ends(ticks, beam, f, geom, p, born)
    BY <2>2
  <2>4. PICK q \in Namings(p) :
          \E born \in Newborns(p, q, geom) : Ends(ticks, beam, f, geom, p, born)
    BY <2>3
  <2>5. PICK born \in Newborns(p, q, geom) : Ends(ticks, beam, f, geom, p, born)
    BY <2>4
  <2>6. result # None /\ ticks \in Nat
    BY <1>1, TrackerAssumption DEF Update
  <2> QED BY <2>5, <2>6, IdentityUpdate DEF Typed
<1>2. CASE UNCHANGED table
  <2>1. DOMAIN tracks \cap DOMAIN graveyard = {}
    BY DEF Typed, NamesTyped
  <2> QED BY <1>2, <2>1 DEF table, LineageInv
<1>3. ASSUME NEW f \in SUBSET Objects, Infer(f) PROVE UNCHANGED table
  BY <1>3 DEF Infer, table
<1>4. ASSUME NEW n \in 0..(next - 1), Designate(n) PROVE UNCHANGED table
  BY <1>4 DEF Designate, table
<1>5. ClearDesignation \/ UNCHANGED vars => UNCHANGED table
  BY DEF ClearDesignation, vars, table
<1>6. CASE Reset
  BY <1>6 DEF Reset, NoTracks, LineageInv
<1> QED BY <1>1, <1>2, <1>3, <1>4, <1>5, <1>6 DEF Next

(* Where the gates tell objects apart, a name with a position stands for    *)
(* one object, for any number of objects and names and any windows: also    *)
(* through the designated hit's path around the nearest-neighbour gate, a   *)
(* death and a rebirth.                                                     *)
THEOREM NamesKeepObjects == ASSUME Near = {} PROVE Spec => IdentityKept
<1>1. Init => LineageInv
  BY DEF Init, LineageInv
<1>2. Typed /\ LineageInv /\ [Next]_vars => Typed' /\ LineageInv'
  BY TypedStep, IdentityStep
<1>3. Typed /\ LineageInv /\ [Next]_vars
        => [\A n \in Names :
              /\ n \in DOMAIN tracks /\ tracks[n].pos /\ n \in DOMAIN tracks'
                   => tracks'[n].obj = tracks[n].obj
              /\ n \in DOMAIN graveyard /\ n \in DOMAIN tracks'
                   => tracks'[n].obj = graveyard[n].obj]_vars
  BY IdentityStep
<1> QED BY <1>1, <1>2, <1>3, InitTyped, PTL DEF Spec, IdentityKept

-----------------------------------------------------------------------------
(* A lock has a position.                                                   *)

(* A cycle that enters a lock had a range before it.                        *)
LEMMA BeamEarned ==
  ASSUME LadderInv, ConfirmHits >= 2, NEW T, NEW beam \in BeamCycles(T),
         beam.acq.state \in Locked, acq.state \notin Locked
  PROVE  streak > 0
<1>1. /\ DesignatedAcq \in Acquisitions
      /\ DesignatedAcq.hits = acq.hits
      /\ DesignatedAcq.state = IF acq.state = "DESIGNATED" THEN "ACQUIRING" ELSE acq.state
  BY DEF LadderInv, Acquisitions, States, DesignatedAcq, Locked
<1>2. DesignatedAcq.state \notin Locked
  BY <1>1 DEF Locked
<1>3. beam.acq = LockStep(DesignatedAcq)
  BY <1>1, <1>2, SlipStepEffect, BeamCases
<1>4. DesignatedAcq.state = "ACQUIRING" /\ DesignatedAcq.hits + 1 >= ConfirmHits
  BY <1>1, <1>2, <1>3, LockStepEffect
<1>5. acq.hits \in Nat /\ acq.hits > 0
  BY <1>1, <1>4, TrackerAssumption DEF LadderInv
<1> QED BY <1>1, <1>4, <1>5 DEF LadderInv

(* A fusion takes no position away.                                         *)
LEMMA FusePositions ==
  ASSUME NEW T, NEW f, NEW geom, NEW n \in DOMAIN T, T[n].pos
  PROVE  Fuse(T, f, geom)[n].pos
<1> DEFINE os == {o \in DOMAIN f : f[o] = n}
<1>1. CASE os = {}
  BY <1>1 DEF Fuse
<1>2. CASE os # {}
  BY <1>2 DEF Fuse
<1> QED BY <1>1, <1>2

LEMMA PositionUpdate ==
  ASSUME MaxGap + Coast <= Lost, ConfirmHits >= 2, RefinementInv, PositionInv,
         NEW ticks \in 0..MaxGap, Update(ticks),
         NEW beam \in BeamCycles(Older(tracks, ticks)),
         NEW f \in Matches(beam.T), NEW geom \in SUBSET Measured(beam.T),
         NEW p \in Rehits(Unmatched(f)), NEW q \in Namings(p),
         NEW born \in Newborns(p, q, geom), Ends(ticks, beam, f, geom, p, born)
  PROVE  PositionInv'
<1> DEFINE A == Older(tracks, ticks)
           G == Older(graveyard, ticks)
           fused == Fuse(beam.T, f, geom)
           all == Overlaid(fused, born)
<1>1. /\ ticks \in Nat /\ result # None /\ designated' = designated
      /\ next \in Nat /\ None \notin Nat
      /\ \A n \in DOMAIN tracks : n \in Nat /\ n < next /\ n \notin DOMAIN graveyard
  BY TrackerAssumption DEF RefinementInv, Typed, NamesTyped, Update
<1>2. /\ DOMAIN A = DOMAIN tracks
      /\ \A n \in DOMAIN tracks : A[n] \in Cells /\ A[n].pos = tracks[n].pos
  BY <1>1, OlderTracks, OlderKeeps DEF RefinementInv, TableInv, Cells
<1>3. /\ DOMAIN beam.T = DOMAIN tracks
      /\ \A n \in DOMAIN tracks : /\ beam.T[n] \in Cells
                                  /\ tracks[n].pos => beam.T[n].pos
  BY <1>2, BeamTracks, BeamKeeps
<1>4. DOMAIN fused = DOMAIN tracks
  BY <1>1, <1>3, FusedTracks DEF RefinementInv
<1>5. Unmatched(f) \subseteq Objects /\ IsFiniteSet(Unmatched(f))
  <2>1. Unmatched(f) \subseteq Measured(beam.T) /\ Measured(beam.T) \subseteq Objects
    BY <1>1 DEF Matches, Unmatched, Measured, RefinementInv, TableInv, Results
  <2> QED BY <2>1, FS_Subset, TrackerAssumption
<1>6. ASSUME NEW n \in DOMAIN born, n < next
      PROVE  \E c \in cands : c.rebind = n
  BY <1>1, <1>5, <1>6, RebornFromLineage
<1>7. /\ DOMAIN all = DOMAIN tracks \cup DOMAIN born
      /\ \A n \in DOMAIN tracks \ DOMAIN born : all[n] = fused[n]
  BY <1>4 DEF Overlaid
<1>8. tracks' = Restrict(all, DOMAIN all \ Stale(all))
  BY DEF Ends, EndUpdate
<1>9. /\ acq' \in {beam.acq, [beam.acq EXCEPT !.state = "COASTING"]}
      /\ streak' \in {0, beam.streak}
  BY DEF Ends, EndUpdate
<1>10. beam.acq \in Acquisitions
  BY BeamLadder DEF RefinementInv
<1> HIDE DEF A, G, fused, all
<1>11. \A n \in DOMAIN tracks' : tracks'[n] = all[n]
  BY <1>8 DEF Restrict
<1>12. ASSUME acq'.state \in Locked PROVE tracks'[designated].pos
  <2>1. beam.acq = acq' /\ beam.acq.state \in Locked
    BY <1>9, <1>10, <1>12 DEF Acquisitions, Locked
  <2>2. designated \in DOMAIN tracks /\ designated \in DOMAIN tracks'
    <3>1. SilenceInv'
      BY SilenceStep DEF RefinementInv, Next
    <3> QED BY <1>1, <1>12, <3>1, LockedIsTracked DEF RefinementInv, SilenceInv
  <2>3. designated \notin DOMAIN born
    <3>1. acq.state \in Locked \/ streak > 0
      BY <2>1, BeamEarned DEF RefinementInv
    <3>2. streak \in Nat
      BY DEF RefinementInv, LadderInv
    <3> QED BY <1>1, <1>6, <2>2, <3>1, <3>2 DEF PositionInv
  <2>4. beam.T[designated].pos
    <3>1. CASE acq.state \in Locked
      BY <1>3, <2>2, <3>1 DEF PositionInv
    <3>2. CASE acq.state \notin Locked
      BY <1>2, <2>1, <3>2, BeamFresh DEF RefinementInv, A
    <3> QED BY <3>1, <3>2
  <2>5. fused[designated].pos
    BY <1>3, <2>2, <2>4, FusePositions DEF fused
  <2> QED BY <1>7, <1>11, <2>2, <2>3, <2>5
<1>13. ASSUME NEW c \in cands', c.rebind = designated, designated \in DOMAIN tracks'
       PROVE  streak' = 0 /\ acq'.state \notin Locked
  <2> DEFINE firsts == {o \in Unmatched(f) : p[o] = None}
  <2>1. PICK lineage \in [firsts -> DOMAIN G \cup {None}] :
          /\ \A o \in firsts : lineage[o] \in Lineages(G, o)
          /\ cands' = {[obj |-> o, pos |-> o \in geom, rebind |-> lineage[o]] : o \in firsts}
    BY DEF Ends, G
  <2>2. designated \in DOMAIN G \cup {None}
    <3>1. PICK o \in firsts : c = [obj |-> o, pos |-> o \in geom, rebind |-> lineage[o]]
      BY <2>1
    <3> QED BY <1>13, <2>1, <3>1
  <2>3. DOMAIN G = DOMAIN graveyard
    BY DEF G, Older
  <2>4. designated \notin DOMAIN tracks
    BY <1>1, <2>2, <2>3
  <2>5. beam.acq = acq /\ beam.streak = streak
    BY <1>2, <2>4, BeamCases DEF A
  <2>6. streak = 0 /\ acq.state \notin Locked
    BY <2>4 DEF RefinementInv, RangingInv, SilenceInv
  <2> QED BY <1>9, <1>10, <2>5, <2>6 DEF Acquisitions, Locked
<1> QED BY <1>1, <1>12, <1>13 DEF PositionInv

LEMMA PositionStep ==
  ASSUME MaxGap + Coast <= Lost, ConfirmHits >= 2, RefinementInv, PositionInv, [Next]_vars
  PROVE  PositionInv'
<1>1. ASSUME NEW ticks \in 0..MaxGap, Update(ticks) PROVE PositionInv'
  <2>1. PICK beam \in BeamCycles(Older(tracks, ticks)) :
          \E f \in Matches(beam.T), geom \in SUBSET Measured(beam.T) :
          \E p \in Rehits(Unmatched(f)) : \E q \in Namings(p) :
          \E born \in Newborns(p, q, geom) : Ends(ticks, beam, f, geom, p, born)
    BY <1>1, UpdateIs
  <2>2. PICK f \in Matches(beam.T), geom \in SUBSET Measured(beam.T) :
          \E p \in Rehits(Unmatched(f)) : \E q \in Namings(p) :
          \E born \in Newborns(p, q, geom) : Ends(ticks, beam, f, geom, p, born)
    BY <2>1
  <2>3. PICK p \in Rehits(Unmatched(f)) : \E q \in Namings(p) :
          \E born \in Newborns(p, q, geom) : Ends(ticks, beam, f, geom, p, born)
    BY <2>2
  <2>4. PICK q \in Namings(p) :
          \E born \in Newborns(p, q, geom) : Ends(ticks, beam, f, geom, p, born)
    BY <2>3
  <2>5. PICK born \in Newborns(p, q, geom) : Ends(ticks, beam, f, geom, p, born)
    BY <2>4
  <2> QED BY <1>1, <2>5, PositionUpdate
<1>2. CASE UNCHANGED <<tracks, cands, designated, acq, streak>>
  BY <1>2 DEF PositionInv
<1>3. ASSUME NEW f \in SUBSET Objects, Infer(f)
      PROVE  UNCHANGED <<tracks, cands, designated, acq, streak>>
  BY <1>3 DEF Infer, table
<1>4. ASSUME NEW n \in 0..(next - 1), Designate(n) PROVE PositionInv'
  BY <1>4 DEF Designate, Designation, PositionInv, Locked
<1>5. CASE ClearDesignation \/ Reset
  BY <1>5 DEF ClearDesignation, Reset, Idle, PositionInv, Locked
<1>6. CASE UNCHANGED vars
  BY <1>2, <1>6 DEF vars, table
<1> QED BY <1>1, <1>2, <1>3, <1>4, <1>5, <1>6 DEF Next

(* Whatever the gates confuse, what reads locked has a position: no rebirth *)
(* and no second birth under its name takes it from the lock.  With a       *)
(* confirm_hits of 1 the machine may lock in the very update in which a     *)
(* second candidate of the lineage replaces the track.                      *)
THEOREM LocksHavePositions ==
  ASSUME MaxGap + Coast <= Lost, ConfirmHits >= 2
  PROVE  Spec => []LockHasPosition
<1>1. Init => RefinementInv /\ PositionInv
  BY InitRefinement DEF Init, Idle, PositionInv, Locked
<1>2. RefinementInv /\ PositionInv /\ [Next]_vars => (RefinementInv /\ PositionInv)'
  BY RefinementStep, PositionStep
<1>3. RefinementInv /\ PositionInv => LockHasPosition
  <2> SUFFICES ASSUME RefinementInv, PositionInv, NEW n \in Names, TrackState(n) \in Locked
               PROVE  tracks[n].pos
    BY DEF LockHasPosition
  <2>1. n = designated /\ acq.state \in Locked
    BY DEF TrackState, Locked
  <2> QED BY <2>1 DEF PositionInv
<1> QED BY <1>1, <1>2, <1>3, PTL DEF Spec
=============================================================================
