----------------------------- MODULE EvalSweep -----------------------------
(***************************************************************************)
(* The sweep over the cells of an evaluation (evals/run_evals.py): each     *)
(* cell run once more when the infrastructure failed it, its row and its    *)
(* transcript appended to two files, a fuse against a sick simulator, and   *)
(* a sweep that is killed or gave up run again over the same files, while   *)
(* the drone goes on with what the last client told it.  A grade that       *)
(* raises ends the process, and a row cut in two is read by none.           *)
(***************************************************************************)
EXTENDS EvalCell, Sequences, FiniteSets

CONSTANTS
  Cells,     \* the keys of the cells, in the order of the seed
  Broken,    \* cells whose task names a check without its parameters
  Attempts,  \* run_with_retry's attempts
  FuseLimit, \* consecutive infrastructure failures that end the sweep
  MaxKill    \* bound: how often the sweep is killed

ASSUME SweepAssumption ==
  /\ Attempts \in Nat \ {0} /\ FuseLimit \in Nat \ {0} /\ MaxKill \in Nat

(* Tasks are the keys of a dictionary and repeats a range; two cells have   *)
(* one key only if the operator names an assignment twice.                  *)
ASSUME KeysAssumption ==
  /\ Len(Cells) \in Nat
  /\ \A i, j \in 1 .. Len(Cells) : Cells[i] = Cells[j] => i = j

VARIABLES
  proc,     \* "off", "run", "wrote" between the two appends, "done", "abort"
  cursor,   \* the cell of this process
  tries,    \* attempts at it so far
  linked,   \* DroneHarness._system is connected
  done,     \* the keys this process found scored
  fuse,     \* InfraFuse._consecutive
  rows,     \* results.jsonl: the kinds of row of each cell, in that order
  trows,    \* transcripts.jsonl: how many lines each cell has
  torn,     \* does results.jsonl end in a part of a row?
  kills

files == <<rows, trows, torn>>
sweepVars == <<proc, cursor, tries, linked, done, fuse, files, kills>>
vars == <<cellVars, sweepVars>>

Keys == 1 .. Len(Cells)
Key == Cells[cursor]
KeySet == {Cells[i] : i \in Keys}
(* The rows a report counts: infrastructure failures are no trials.         *)
ScoredRows(k) == {i \in 1 .. Len(rows[k]) : rows[k][i] = "scored"}
Scored(k) == ScoredRows(k) # {}

-----------------------------------------------------------------------------
(* Mutant of DoneKeys: a cell with any row is left out.                     *)
RowKeys == {k \in KeySet : rows[k] # <<>>}

(* Mutant of DoneKeys: the rows of earlier processes are not read.          *)
NoKeys == {}

(* done_keys: the cells that are scored; a failed one runs again.           *)
DoneKeys == {k \in KeySet : Scored(k)}

(* Mutant of StartSweep: the fuse is not a new one.                         *)
StartBlown ==
  /\ proc \in {"off", "abort"} /\ ~ torn
  /\ proc' = "run" /\ cursor' = 1 /\ tries' = 0 /\ linked' = FALSE
  /\ done' = DoneKeys
  /\ UNCHANGED <<cellVars, fuse, files, kills>>

(* main() up to its loop, over the files of an earlier sweep if there are.  *)
StartSweep ==
  /\ proc \in {"off", "abort"} /\ ~ torn
  /\ proc' = "run" /\ cursor' = 1 /\ tries' = 0 /\ fuse' = 0 /\ linked' = FALSE
  /\ done' = DoneKeys
  /\ UNCHANGED <<cellVars, files, kills>>

(* _load_rows raises on what a kill left of a row, every time.              *)
StartRaises == proc \in {"off", "abort"} /\ torn /\ UNCHANGED vars

Skip ==
  /\ proc = "run" /\ cursor \in Keys /\ Key \in done
  /\ cursor' = cursor + 1
  /\ UNCHANGED <<cellVars, proc, tries, linked, done, fuse, files, kills>>

(* run_cell, for the first time or again: the process connects to the       *)
(* vehicle once, before its first cell.                                     *)
Attempt ==
  /\ proc = "run" /\ cursor \in Keys /\ Key \notin done
  /\ pc = "over" /\ (tries = 0 \/ res = "infra") /\ tries < Attempts
  /\ tries' = tries + 1
  /\ UNCHANGED <<px4, turn, proc, cursor, done, fuse, files, kills>>

RunCell ==
  /\ Attempt
  /\ linked' = TRUE /\ pc' = "soft_reset" /\ res' = "none"
  /\ UNCHANGED faults

ConnectFails ==
  /\ Attempt /\ ~ linked /\ Fault
  /\ res' = "infra" /\ UNCHANGED <<linked, pc>>

(* run_with_retry hands on a score at once, a failure behind its attempts.  *)
Final == res = "scored" \/ (res = "infra" /\ tries = Attempts)
AtRow == proc = "run" /\ pc = "over" /\ tries > 0 /\ Final

WriteRow ==
  /\ AtRow
  /\ rows' = [rows EXCEPT ![Key] = Append(@, res)]
  /\ proc' = "wrote"
  /\ UNCHANGED <<cellVars, cursor, tries, linked, done, fuse, trows, torn, kills>>

(* The transcript's line, and InfraFuse.update.                             *)
Blown == IF res = "infra" THEN fuse + 1 ELSE 0

WriteTranscript ==
  /\ proc = "wrote"
  /\ trows' = [trows EXCEPT ![Key] = @ + 1]
  /\ fuse' = Blown
  /\ proc' = IF Blown >= FuseLimit THEN "abort" ELSE "run"
  /\ cursor' = cursor + 1 /\ tries' = 0
  /\ UNCHANGED <<cellVars, linked, done, rows, torn, kills>>

(* The loop is through; what it left unscored is left to the next sweep.    *)
Finish ==
  /\ proc = "run" /\ cursor \notin Keys
  /\ proc' = IF DoneKeys = KeySet THEN "done" ELSE "off"
  /\ UNCHANGED <<cellVars, cursor, tries, linked, done, fuse, files, kills>>

(* What the reports make of a cell: aggregate's trials of it, and the       *)
(* transcripts aggregate_transcripts adds up.                               *)
Trials(k) == Cardinality(ScoredRows(k))
ToolCells(k) == trows[k]

(* The process is gone: the cell's turn with it, the drone is not.          *)
Dies ==
  /\ proc' = "off"
  /\ pc' = "over" /\ tool' = "none" /\ res' = "none"
  /\ UNCHANGED <<px4, last, landed, faults, cursor, tries, linked, done, fuse, rows, trows>>

(* The exception of grade() leaves run_with_retry and main().               *)
GradeRaises == proc = "run" /\ res = "raised" /\ Dies /\ UNCHANGED <<torn, kills>>

(* Killed, or out of disk: between two steps, or within the write of a row. *)
Kill ==
  /\ proc \in {"run", "wrote"} /\ kills < MaxKill
  /\ kills' = kills + 1 /\ Dies
  /\ UNCHANGED torn \/ (AtRow /\ torn' = TRUE)

-----------------------------------------------------------------------------
Init ==
  /\ CellInit
  /\ proc = "off" /\ cursor = 1 /\ tries = 0 /\ linked = FALSE /\ done = {} /\ fuse = 0 /\ kills = 0
  /\ rows = [k \in KeySet |-> <<>>]
  /\ trows = [k \in KeySet |-> 0]
  /\ torn = FALSE

SweepStep ==
  \/ StartSweep \/ Skip \/ RunCell \/ ConnectFails
  \/ WriteRow \/ WriteTranscript \/ GradeRaises \/ Finish

(* A task whose checks have their parameters is graded without a raise.     *)
InCell(A) == A /\ (res' = "raised" => Key \in Broken) /\ UNCHANGED sweepVars

Finished == proc = "done" /\ UNCHANGED vars

Next == InCell(CellNext) \/ SweepStep \/ StartRaises \/ Kill \/ Finished

(* PX4 carries on, the harness's loop runs what is due, its deadlines run   *)
(* out, and the operator starts a sweep that ended early again.  Nothing is *)
(* assumed of the model but that its turn has a deadline.                   *)
Fairness ==
  /\ WF_vars(InCell(Fly))
  /\ WF_vars(InCell(SoftReset)) /\ WF_vars(InCell(TurnOver)) /\ WF_vars(InCell(Judged))
  /\ WF_vars(SweepStep)

Spec == Init /\ [][Next]_vars
FairSpec == Spec /\ Fairness

-----------------------------------------------------------------------------
(* Every variable keeps its type; a fuse that holds is below its limit.     *)
TypeOK ==
  /\ CellTypeOK
  /\ proc \in {"off", "run", "wrote", "done", "abort"}
  /\ cursor \in 1 .. Len(Cells) + 1 /\ tries \in 0 .. Attempts
  /\ linked \in BOOLEAN /\ done \subseteq KeySet /\ fuse \in 0 .. FuseLimit /\ kills \in 0 .. MaxKill
  /\ torn \in BOOLEAN /\ (torn => proc = "off")
  /\ proc \in {"run", "wrote"} => fuse < FuseLimit
  /\ pc # "over" => proc = "run" /\ cursor \in Keys /\ Key \notin done

(* No cell counts twice, over kills, aborts and sweeps run again: its       *)
(* repeats are a binomial sample (report.py), in which a second score of    *)
(* one repeat would be a trial that was never planned (matrix.py).          *)
ScoredOnce == \A k \in KeySet : Trials(k) <= 1

(* A drone left anywhere in any state costs no cell: the second attempt has *)
(* it home.  Only a call that failed makes a row of an infrastructure       *)
(* failure, and it takes two of them to blow the fuse ("tripped the infra   *)
(* fuse on healthy sims", reset.py).                                        *)
RetryAbsorbs ==
  /\ (\E k \in KeySet : \E i \in 1 .. Len(rows[k]) : rows[k][i] = "infra") => faults > 0
  /\ proc = "abort" => faults > 1

(* Every cell ahead of the first one whose grade may raise is scored in the *)
(* end, unless a kill tore a row.                                           *)
EveryCellScored == \A i \in Keys :
  (\A j \in 1 .. i : Cells[j] \notin Broken) => <>(Scored(Cells[i]) \/ torn)

(* run_evals.py: "re-run the same command (resume skips completed cells)",  *)
(* so that every planned cell is scored in the end.  It fails: a grade that *)
(* raises does so in every sweep, and so does the read of a torn row.       *)
ResumeScoresAll == \A k \in KeySet : <>Scored(k)

(* runner.py, to_transcript_row: "a cell present in results.jsonl always    *)
(* has exactly one aligned transcript line".                                *)
OneTranscript == \A k \in KeySet : proc # "wrote" /\ rows[k] # <<>> => ToolCells(k) = 1
=============================================================================
