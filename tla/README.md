# squawd in TLA+

TLA+ models of squawd, the program that lets a language model and an operator
fly one PX4 drone and follow what its camera sees (`src/agents`), and of the
evaluation that judges it (`src/evals`), with the TLC runs that check them and
the theorems TLAPS proves about them. Paths below are relative to `src/agents`
unless they start with `src/`.

## 1. Inventory

squawd is one Python process with an asyncio loop (the *pilot*,
`pilot/run.py`), the camera's and the detector's threads beside it, a second
process for the browser cockpit (`observatory/server.py`), and an optional deep
perception sidecar reached over HTTP (`vision/deep/service.py`). They talk
through ROS topics that a `TopicLog` keeps in order (`core/store.py`). An
evaluation sweep is a process of its own, with the flight tools in it and no
cockpit (`src/evals/run_evals.py`).

| part | state | operations | with whom | what is hard | correct when |
|---|---|---|---|---|---|
| Command authority: `pilot/arbiter.py`, `estop.py`, `cmd.py`, `flight/tools.py` | one registry slot with a generation, the lease, the latch, two topics being read | register, clear, cancel_current, submit_operator, release, the tool wrapper, two supervisors | shares the slot between the model, the cockpit and the estop | three parties interleave at every await; a cancelled task takes its time; a 5 s wait that gives up | one task flies; what an estop cancelled stays stopped; every line is answered; the model is let back in |
| Pursuit: `flight/ops.py:track`, `flight/track.py` | the contact's name, the loss clocks, offboard mode, the designation | acquisition servo, offboard start, 10 Hz loop, clean-up | reads contacts, designates them, streams to PX4, cancelled by the authority | cancellation at any await, names reborn, a simulator clock that stops, a PX4 that refuses | leaves offboard mode; follows with the beam; loses what is gone, and only that; ends |
| Other operations: `flight/ops.py` | speed, home, target | take_off, goto, orbit, scan, hover, land, emergency_* , run_mission | telemetry, PX4 | polling with timeouts, clean-up in `_halt` | each ends, a refused step leaves the drone in hold |
| Contact tracker: `vision/contacts.py` | tracks, candidates, graveyard, name counters, the acquisition state machine, designation | update, designate, clear_designation, reset, reads | fed by the pipeline, read by pursuit and cockpit | names that die and come back, frames whose order of detections changes, silence | a lock is earned and lost as stated; one name, one object |
| Detector and pipeline: `vision/detector.py`, `pipeline.py` | the newest inference, a lock request, health, a stop flag | thread loop, request_lock, wait_next | camera in, tracker out | a one-place hand-off between a thread and the loop; failures, reload, stop | the newest result is used once; health tells the truth; stop stops |
| Beam and rangefinder: `vision/beam.py`, `core/rangefinder.py` | a window of ranges | associate, reduce, robust_at | tracker | stale samples, a footprint that straddles objects | a range is fused only off the designated object |
| Video: `observatory/video.py`, `server.py:ws_cam` | subscribers' queues, the forced keyframe, the pump | subscribe, pump, broadcast, send | camera, browsers | subscribers come and go while a thread encodes; a full queue | a canvas comes alive and recovers; a closed one is forgotten |
| Cockpit server: `observatory/server.py` | snapshots | /api/cmd, /api/estop, /api/lock, telemetry socket | publishes the authority's topics | two validators of one operation, stale clicks | accepts what the pilot accepts |
| Deep sidecar: `vision/deep/*`, `perception/deep_client.py`, `pilot/deep_tools.py` | loaded models, one vocabulary, the inference lock, a busy flag | look, pinpoint, detect, segment | tools, slow lane, over a socket | a client that timed out while the server still computes; one vocabulary for all callers; a crash | an answer belongs to its question; nothing is held for ever |
| Slow lane and overlay: `vision/slowlane.py`, `observatory/overlay.py` | last annotation, a gate | tick, join | sidecar, cockpit | four streams of different age | what is flagged was compared on its own frame |
| World and telemetry: `world/model.py`, `core/telemetry.py`, `gzposes.py` | pose ring, clock fit | note_pose, pose_at, drone_state | tracker, flight | lookups by a stamp of another clock | never answers from the future or from too far |
| Topics: `core/store.py`, `core/bus.py` | ordered messages, positions of readers | append, since | everything | late joiners, eviction | no line is read twice |
| Pilot process: `pilot/run.py`, `agent.py`, `core/singleton.py` | the lock file, the supervised tasks, the commands read | build_*, run | all of the above | a second instance, a failure in each phase, one task's exception ends all | one pilot; no command twice; a pilot without its estop does not fly on |
| Model backends: `flight/backend.py`, `codex_backend.py` | a work directory, an MCP server, the SDK, its thread | enter, query, exit | tools | failure half-way through opening a session | no loop runs on half a session |
| Evaluation cell: `src/evals/reset.py`, `runner.py` | where the drone was left, the trace, `landed` | soft_reset, ferry, turn, halt, grade | flight tools, PX4 | a drone left anywhere, calls that fail, waits that run out | graded at rest; an infrastructure failure is not a score |
| Evaluation sweep: `src/evals/run_evals.py`, `matrix.py`, `report.py` | two files, a fuse, a cursor | retry, append, resume | the cell | a kill between two writes, a sweep run again | each cell is scored once |
| Evaluation oracle: `src/evals/oracle.py`, `sampler.py`, `spec.py`, `worldstate.py` | a track of samples, the target lock | sample, 21 checks | the simulator's truth | missing fixes, boundaries | each check is its definition |
| Pure helpers: `flight/envelope.py`, `vision/types.py` (RLE), `perception/projection.py`, `core/geo.py` | none | | | boundaries | equal to their definitions |
| Simulator, scripts: `src/sim`, `src/scripts` | | | | | outside the program that flies |

`PROJECT.json` lists every one of these with what is modelled of it, and under
`hazards` each place where the code is exposed, with the property that watches
it or the reason none does.

## 2. What is modelled

A step of every module is what the code does between two awaits (or, in a
thread, under its lock): nothing interleaves inside it in the program either.

**CommandAuthority** composes the tool wrapper, the arbiter, `cmd_supervisor`
and `estop_supervisor` around the one `ActiveToolRegistry`. Each tool call, op
and estop line is a task or a message used once. `slot`, `generation`, `gen`
are the registry; `lease`, `estopped` the arbiter; `task` is the asyncio state of each
task (`created` but never stepped, `running`, `expiring`, `holding` inside the
shielded hold, `unwinding`, `done`); `cmdPc`/`esPc` say at which await the two
supervisors are. `cancel_current` is split at its await: `CancelSlot` before,
`WaitOver` after, where a task in `Slow` may outlast the 5 s. A lease that is
cancelled before its first step dies without its finally clause, as asyncio
does it. `Latched = FALSE` is the program as `PilotAgent.run` wires it: the estop
goes to the registry directly; `TRUE` is the `CommandArbiter.estop` path, which
exists and is tested but which nothing calls. A model that awaits its results
(`Overlap = FALSE`) makes a call only when it has none in progress, and, where
an op preempted its own call, only after that op resumed: the answer to the
cancelled call travels to the provider and back, the op needs a few turns of
the event loop. Where an op preempted an op there is no such order. The gate
opens with the old lease's `done()`, and a call that arrives before the new
lease is installed is let in and then overwritten in the slot: two tasks fly,
and no cancel reaches the call. **CommandHandover** is therefore what the three
keep together: one commander at most within reach, a change of hands only
through nobody, and as the only commander out of reach a tool call overtaken in
the handover of an op to the next. `Holder`, `Loose` and `HandingOver` are the
refinement mapping.

**PilotProcess** is the life of the process around them: the lock file, the
boot and its failures, the connection, the four parts of the Codex session
opened in the order of `__aenter__` (`level` counts them), the command loop
(`loop` is its task, `todo` are the commands of one turn of it, `query` the one
awaited), the end through `gather` and the clean-up. `turn` is the model's turn
at the provider, `guard` the estop supervisor's task. The three end apart:
`gather` cancels nobody, so a broken stream takes the loop and leaves turn and
estop (`QueryRaises`); a supervisor that raises leaves the loop and the turn,
with or without an estop (`SupervisorRaises`); SIGINT takes loop and estop, and
the turn lives until the SDK is closed (`Interrupt`). `begun` is a history
variable.

**ContactTracker** is `VisionContacts.update` as one step, with the detector's
one-place slot and its lock request before it and `designate`,
`clear_designation` and `reset` beside it. A detection is the object it shows;
a frame is a set of them, because the backend orders each frame anew. Gates
are the relation `Near` and a free choice of what they reject. **LockLadder** is
what the flight layer reads of all this: the designated contact (`target`), its
track state (`rung`), the fused ranges in a row behind it (`ranges`) and the
slips since (`misses`);
`Ladder` is the refinement mapping. An update combines up to three moves of the
machine in one call, and a track may be dropped and reborn under its machine:
the ladder says which of the combinations a reader can see.

**PerceptionFeed** is the data path around the tracker: the detector's thread,
the pipeline task, the slow lane's gate and tick, a pinpoint, and the cockpit's
join. A frame, its sequence number and its stamp are one number. `taken` is the
result between `wait_next` and the pipeline's step, in which the thread may
already have the next. `Shown` is the page's state as `/api/state` computes it.

**DeepSidecar** is the on-demand path. A caller's thread is `idle`; a tool's
has `grabbed` a frame and not yet asked for the busy flag, the lane's has
decided to call (`sent`); or it is in `wait` for its connection. A message of a caller that gave up stays on the wire, or with
its handler, as an orphan (`by = NoOne`). `Refuse` holds the handlers' refusals
of the token, the body's size, the frame's bytes, the prompts and a second
inference in their order; the 400s of fields that this client always sends well
formed are left out. The tools, the lane and the service each hold caps on
prompts of their own, as three files do. `Accept` takes the lock, `Prepare` loads the model and switches
its vocabulary, `Infer` ends the thread; `Crash` may come anywhere.

**VideoHub** is the pump, its encodes (begun and finished in separate steps:
sockets come and go in between), the queues and `ws_cam`. An access unit is
what the viewer's decoder can do with it: `key`, `delta`, or `cut` when its
reference was dropped.

**Pursuit** is one call of `track`, from the look-up of the name to the last
line of its finally clause. `phase` is the await the call is at; `Cancel*` are
the cancellations, with different outcomes inside and outside the `try`s and
during the shielded stop. A start that raises may have been obeyed (a lost
answer is an `OffboardError` too); where `stop` fails (`StopFails`) the call
awaits a hold in its place (`fallback`), which may fail as well and is
swallowed. `unheard` keeps which of the two left PX4 in offboard mode. The contacts change under it (`Perceive`), the
simulator's clock moves 0, 1 or 2 per tick. Geometry is reduced to the altitude
streamed and the roof beneath.

**EvalCell** is `run_cell`: the soft reset with its ferry, the turn with the
flight tools that move the vehicle (`track` aside, whose end is Pursuit's), the
halt and the grading, which may raise, over
the part of PX4 these use (marked external): it records its home when armed,
flies on whatever its client does, disarms itself on the ground, ignores a
return to launch while disarmed. **EvalSweep** extends it with the sweep: the
retry, the fuse, the row and the transcript as two appends, a kill anywhere,
within the append of a row too (`torn`), a grade that raises and takes the
process with it (`GradeRaises`), a sweep started again over its files, where a
torn row raises (`StartRaises`). `Broken` are the cells whose task names a check
without its parameters. **EvalOracle** is the sampler, the lock the first
targeting call leaves, validation of the task's file, and each check of
`oracle.py` as an operator over the track.

Abstractions that matter: numbers (filters, gates, control laws) are replaced
by the outcomes they can produce; wording of replies and events is left out;
one class of contacts and the mover profile in ContactTracker; calls in
CommandAuthority fly or do not fly, while what a pursuit does is in Pursuit:
the two are not composed, and the link is that a `Command` of a task there
stands for a setpoint or a stop here. What Pursuit's `Perceive` assumes of its
provider, that what is locked has a position, is `LockHasPosition` of
ContactTracker. ContactTracker and PerceptionFeed share the detector's hand-off:
the one follows what a frame shows, the other which frame it is.

## 3. What the runs check

| run | expects | bounds | shows |
|---|---|---|---|
| `authority` | pass | 2 calls, 2 ops (one a stop; either may be malformed), 1 estop that lands, 2 tasks with slow cleanups, latch that may be released at once | for a model that awaits each result: `VictimStaysStopped`, the refinement of `CommandHandover`, `LiveOpClosesGate`, every line answered, the gate reopens |
| `authority_race` | violation | 1 call, 2 ops | a tool call let in during an op's handover to the next flies beside the new op |
| `estop_shipped` | violation | | a tool call is admitted during an estop |
| `pilot` | pass | 2 pilots, 3 commands, 3 starts | no command twice or out of turn over crashes and second instances, a pilot that may fly without an estop supervisor ends, a command that arrives begins |
| `tracker` | pass | 2 objects, 2 names, `coast_s` 1, `lost_s` 2, `confirm_hits` 2, `slip_n` 2 | the tracker implements `LockLadder`: no lock it has not earned, none kept through `slip_n` slips or left but through COASTING; what reads locked has a position; a name stands for one object |
| `feed` | pass | 3 frames, 2 failures degrade, ages up to 1 frame | flags are of the exact frame, each inference makes one snapshot and none an older one |
| `sidecar` | pass | 2 tools and the lane, 3 terms (one too long), 1 prompt at the tools and 2 at the service, 3 cameras (right, wrong format, too large), 1 orphan | every answer was inferred on its caller's words, no call is refused for its prompts, everything held is given up |
| `video` | pass | 2 viewers, GOP 3, queues of 3 | a full queue keeps a keyframe, dark canvases come alive |
| `pursuit` | pass | 2 names, budget 2, duration 5, `lost_s` 2, 4 starts as in the code | the call leaves offboard but for the cases `LeavesOffboard` names, follows with the designation, times losses right, and ends |
| `pursuit_roof` | violation | one roof of 5 m, altitude 4 m | the altitude profile undoes the building clamp |
| `sweep` | pass | 3 cells, the grade of the last of which may raise, 2 places, 2 faults, 2 attempts, a fuse of 2, 1 kill | every cell ahead of the broken one is scored unless a row was torn, none twice, each on a drone at rest, and only failed calls make a cell a failed one |
| `oracle` | pass | tracks of 4 samples on 3 places, 2 movers, 2 sets of parameters | the greedy ordering is exact, dwells are the longest contiguous ones, a lost fix changes no verdict but the two dwells' and the final position's |

Every property of a passing run comes with a mutant in `PROJECT.json`: a
plausible bug in one definition that makes TLC find the property violated
under the same configuration.

Why the bounds are enough. *Authority*: one task in the slot, one being
cancelled by each supervisor and one arriving is the most that ever meet; the
constants give that many and one more, and generations are what grows.
*Pilot*: a process, a second that meets its lock file, and one start more for
the restart; three commands are one done, one in the list and one that comes
late. *Tracker*: every rule speaks of one track and, where identity is
concerned, of one other; two hits confirm and two slips unlock, one tick coasts
and two lose, so each threshold is crossed in both directions. *Feed*: the
longest chain of hand-offs holds three frames (shown, taken, latest), and an
age is exact, at its bound, and beyond it. *Sidecar*: the two tools contend for
the flag and the lane for the lock; the words of the three differ; one orphan
is one inference nobody waits for; the service's caps are laxer than the tools'
in number and the same in length, as `Mirrored` allows. *Video*: `Gop = Maxsize` is
the tightest case of the code's 24 against 240, where each drop lands on a
keyframe sooner. *Pursuit*: the duration is longer than two losses' beginnings
(miss, return, miss), both clocks can expire first, and the number of offboard
attempts is the code's own. *Sweep*: a fault in an attempt and another in its
repetition blow a fuse of two; the second cell starts on what the first left
behind; the third raises with both scored before it. *Oracle*: a dwell needs two samples, an interruption one or two more;
the chain of `ordering` has three stops, two of them in one place.

Fairness, and why the code justifies it. The event loop runs every ready task
and its timers fire, threads are scheduled: weak fairness on each supervisor's,
lease's, socket's and query's next step, on the pump, the detector's thread,
the pipeline, the slow lane's and the tools' threads, and on the pursuit's
`Proceed`, an RPC being answered or raising. A socket's time-out fires
(`GiveUp`), an inference ends (`Infer`). A cancelled task finishes unwinding
unless it is in `Slow`. In `video` the camera publishes and not every encode
fails (`EncodeDone` is strongly fair). In `sweep` PX4 carries out its mode, the
turn's deadline runs out, and the operator starts an interrupted sweep again.
In `pilot` a query ends, as the provider's stream does, by result or error,
and the clean-up goes on.
Nothing is assumed of what fails, the operator's clicks and interrupts, the model, the browser, how long a
tool flies, a crashed sidecar's return, or the release of the latch. `pursuit`,
`pursuit_roof`, `oracle` and `pilot` turn the deadlock check off: a call, a
grading and a process started for the last time stop.

## 4. What the violations say

Three runs of section 3 end in a violation, and all are findings.

1. `authority_race`: `pilot/arbiter.py:73-76`: `submit_operator` awaits the end
   of the lease it preempts and takes the slot without a second look; a tool
   call that the gate let in meanwhile is overwritten, against `arbiter.py:8`
   ("ownership can never race").
2. `estop_shipped`: `pilot/estop.py:71`, `agent.py:73`: nothing sets the latch in the
   shipped wiring, so `flight/tools.py:46-48` ("while the operator lease or the
   estop holds, the tool is rejected") does not hold.
3. `pursuit_roof`: `flight/ops.py:995`: `min` lets the altitude profile win over the
   roof clamp, for an intercept or a shadow without `hold_altitude`.

Twelve more configurations each end in a violation of one property, by a
behaviour of the code, or, `sidecar_drift`, by what the code does with other
constants; run them by hand. Two others pass: `authority_overlap`
(MCCommandAuthority) looks at a model whose calls overlap, `oracle_settle`
(MCEvalOracle) at `VerdictsSettle`, which section 5 proves.

| configuration (module) | property | where, against what |
|---|---|---|
| `estop_latched` (MCCommandAuthority) | `NoSubmissionUnderLatch` | `pilot/arbiter.py:73`: `submit_operator` reads the latch before an await and not after, against the docstring's "latch FIRST" |
| `tracker_beam` (MCContactTracker) | `BeamOnDesignated` | `vision/contacts.py:907`: an index of an earlier frame picks the reserved detection |
| `tracker_rebind` (MCContactTracker) | `RebindReevaluated` | `vision/contacts.py:725`: the rebind decision is made on the first hit only |
| `video_newcomer` (MCVideoHub) | `NewcomerOwedIdr` | `observatory/video.py:176`: `_force` is cleared for a subscriber it was not encoded for |
| `pursuit_redesignate` (MCPursuit) | `RedesignateIsNoop` | `flight/ops.py:597`, `vision/contacts.py:1142`: "post-_acquire re-designate is a no-op" is not what `designate` does; the pursuit begins without the lock just won |
| `sidecar_priority` (MCDeepSidecar) | `OnDemandPriority` | `vision/deep/service.py:147`: a look behind the slow lane's sample is refused, against `vision/slowlane.py:16-18` ("on-demand ... calls keep priority") |
| `feed_banner` (MCPerceptionFeed) | `KilledDetectorShown` | `vision/pipeline.py:99`: health travels with snapshots, which a dead detector stops; `src/tests/test_cockpit_server.py:115` promises the banner |
| `sweep_transcript` (MCEvalSweep) | `OneTranscript` | `src/evals/run_evals.py:192`: a kill between the two appends, against `src/evals/runner.py:149-150` ("exactly one aligned transcript line") |
| `sweep_broken` (MCEvalSweep) | `ResumeScoresAll` | `src/evals/runner.py:456`, `run_evals.py:77`: a grade that raises ends this and every later sweep, and so does the read of a torn row, against `run_evals.py`'s "re-run the same command" |
| `pilot_uncovered` (MCPilotProcess) | `EstopCoversTurn` | `pilot/agent.py:71-74`: a turn outlives an estop supervisor that raised or that SIGINT cancelled, until the session is closed |
| `sidecar_drift` (MCDeepSidecar) | `WireAgrees` | `vision/deep/registry.py:25` with a cap below that of `pilot/deep_tools.py:37`: what only a comment ties together drifts |
| `oracle_fix` (MCEvalOracle) | `HoldOutlastsLostFix` | `src/evals/oracle.py:131`: one poll without a fix ends a hold, against `src/evals/sampler.py:3-5` ("tolerates the brief windows") |

## 5. What is proved

All theorems hold for every value of the constants that satisfies the named
assumptions of its module, and the extra assumption shown.

| module | theorem | states | extra assumption | inductive invariant |
|---|---|---|---|---|
| `CommandAuthorityProofs` | `TypeCorrect` | `TypeOK` | | itself |
| | `NewestRegistrantKeepsSlot` | `NewestOwnsSlot` | | `GenerationInv` |
| | `GateClosedWhileOpFlies` | `LiveOpClosesGate` | | `LeaseInv` |
| | `OneCommanderOfEach` | `OneOfEach` | `~ Overlap` | `LeaseInv`, `OwnerInv` |
| | `Refinement` | `ImplementsHandover` | `~ Overlap` | `GenerationInv`, `LeaseInv`, `OwnerInv` |
| | `CancelledStaysStopped` | `VictimStaysStopped` | | `LineInv`, `VictimInv` |
| `PilotProcessProofs` | `OnePilot` | `TypeOK` | | `TypeInv` |
| | `CommandsInTurn` | `EachCommandOnce` | | `OrderInv` |
| `ContactTrackerProofs` | `TrackerTyped` | `TypeOK` | | `Typed` |
| | `SlippingBeamUnlocks` | `BeamLockHeld` | | `TableInv`, `LadderInv` |
| | `LockIsConfirmed` | `LockConfirmed` | `ConfirmHits <= 2` | the same |
| | `LadderImplemented` | `ImplementsLadder` | `MaxGap + Coast <= Lost`, `ConfirmHits <= 2` | `RefinementInv`: these, `Typed` and `RangingInv` |
| | `LocksHavePositions` | `LockHasPosition` | `MaxGap + Coast <= Lost`, `ConfirmHits >= 2` | `RefinementInv`, `PositionInv` |
| | `LostIsLost`, `DropoutCoastsFirst` | `LockIsReearned`, `LostOnlyAfterCoasting` | `MaxGap + Coast <= Lost` | `TableInv`, `LadderInv`, `SilenceInv` |
| | `NamesKeepObjects` | `IdentityKept` | `Near = {}` | `Typed`, `LineageInv` |
| `PerceptionFeedProofs` | `StreamsInOrder`, `FlagsAreExact`, `SnapshotsAdvance` | `TypeOK`, `FlagIsExact`, `EachFrameOnce` | | `IInv` |
| `DeepSidecarProofs` | `PathTyped`, `OneInFlight`, `AnsweredForOwnWords` | `TypeOK`, `OneToolCall`, `OwnVocabulary` | | `IInv` |
| | `EndsAgree` | `WireAgrees` | `Mirrored` | `IInv` |
| `VideoHubProofs` | `QueuesAreBounded` | `TypeOK` | | itself |
| | `SlowViewerRecovers` | `KeyframeInReach` | | `KeyPlaced` |
| | `NewcomerSeesKeyframe` | `PromptKeyframe` | | `RequestPending` |
| `PursuitProofs` | `PursuitTyped` | `TypeOK` | | `CallTyped`, `ClocksTyped`, `ProviderTyped`, `VehicleTyped`, `CleanupTyped` |
| | `CallLeavesOffboard` | `LeavesOffboard` | | `OffboardHeld` |
| | `BeamStaysOnTarget` | `DesignationFollows` | | `DesignationHeld` |
| | `LossIsBounded`, `LossIsReal` | `LostBounded`, `LostOnlyWhenGone` | | `LossTimed` |
| `EvaluationProofs` | `SweepTyped`, `GradesStand`, `CellsScoredOnce` | `TypeOK`, `GradedAtRest`, `ScoredOnce` | | `SweepInv` |
| | `FailuresAreCharged` | `RetryAbsorbs` | `Attempts >= 2`, `FuseLimit >= 2` | `SweepInv`, `ChargedInv` |
| | `OracleTyped` | `JudgeTypeOK` | | `JudgeInv` |
| | `GreedyChainIsExact`, `HoldsAreTimed` | `OrderingIsExact`, `HoldsAreContiguous` | | the same, induction over the samples |
| | `VerdictsAreSettled` | `VerdictsSettle` | | the same |

The arguments. *Authority*: no two tasks share a generation, only the slot's
task has the current one, and a cancelled task's is out of date (`GenerationInv`),
so a stale `clear` finds another number; the lease of a flying op is the slot's
task (`LeaseInv`), and none flies while `cmd_supervisor` waits; while it waits
for a tool call the slot stays empty (`OwnerInv`), so that the lease taken after
that wait overwrites nothing, and what a lease may overwrite after the other
wait is one tool call. *Pilot*: whoever is not off holds the lock file, and a
loop lives only in a whole session or beside its clean-up (`TypeInv`); what was begun, what the
loop has in hand and what it has not read of its log are one ascending sequence
(`OrderInv`), and a restart joins it at its end because the topic is volatile.
*Tracker*: names are given out in order and none is alive and dead at once
(`Typed`); a state of the ladder says how many fused
ranges stand behind it (`LadderInv`), and a track whose age exceeds `coast_s`
is not locked (`SilenceInv`), which a gap in the inferences longer than
`lost_s - coast_s` would break. For the refinement, in addition, ranges in a row
belong to a tracked contact that is being ranged, each with its hit
(`RangingInv`); each disjunct of an update is then one move of the ladder or
none. Both assumptions are needed: a longer gap lets a rebirth read a lock, and
with a `confirm_hits` of 3 a contact back from COASTING is locked one range
early, because `_tick_sm_dropout` leaves `_lock_hits`. The repository's values
(2; 10 inferences a second against `lost_s - coast_s` of 1 s or more) satisfy
them. What is locked keeps its position because a candidate that would replace
the track of the designated name was seen when there was no such track
(`PositionInv`), so that at most one range has come since: two hits to a lock
are just enough. A candidate that carries the lineage of a
name shows that name's object, whether it is dead or was reborn by another
candidate meanwhile (`LineageInv`): without that a second birth of one lineage
could put another object in its track. *Feed*: a note that suspects anything was
compared on its own frame (`NotesInv`), and what the pipeline holds is newer
than what it published (`TakenInv`). *Sidecar*: a message on the wire or with a
handler is the present call of the caller it names (`Wired`, `Held`,
`OneMessage`), so an orphan can answer nobody; behind `Prepare` the embeddings are those of the
lock's message (`Switched`); and a message carries
prompts that passed the caps of its sender, which are no laxer than those of its
reader (`Mirrored`, true of the repository's numbers and tied by nothing else). *Video*: counting back from the end of a queue,
the last keyframe is exactly `age` units deep (`KeyPlaced`), so a queue at least
a GOP long contains it however many units were dropped at the other end.
*Pursuit*: offboard mode is on only where a finally clause is still ahead
(`OffboardHeld`), or where one of four things happened that the code lets
through: stop and the hold in its place both failed, a start that PX4 obeyed
came back as failed to the last attempt, or a cancellation cut the call inside
the start or inside the finally clause; the loop's two clocks equal the true absence (`LossTimed`).
*Sweep*: while the trace's last call is a landing the vehicle is landing
(`LandInv`, part of `SweepInv`); a running process has passed every cell that
is scored, and a cell in progress was not (`OnceInv`, `TriedInv`), which needs
that no two cells have one key (`KeysAssumption`). Each failed row is charged
to a failed call of its own (`ChargedInv`); as long as none is left over, an
attempt that failed all the same left the drone disarmed away from home, where
the ferry of the second brings it back (`Settled`). With one attempt or a fuse
of one neither half of `RetryAbsorbs` holds. *Oracle*: the track is in the
order of its times (`Sampled`). `Chain`, `Runs` and `Flown` are recursive
functions over the samples; that they exist and satisfy their equations is the
lemma `Recursion`, from induction over an interval (`Inductive`), itself from
the well-foundedness of the finite sets in the library. The chain reaches each
stop no later than any other way through them (`VisitsChain`). A run of samples
began where the unbroken hold up to its last sample began, and without a run no
hold can be taken up again (`RunHolds`). For the verdicts, the track before and
after one more sample are compared check by check (`Grown`): the two chains,
runs and sums agree on the samples they share.

Model-checked only: all liveness (`OpAnswered`, `GateReopens`, `EstopAnswered`,
`CanvasComesAlive`, `CallEnds`, `CallsEnd`, `SnapshotFollows`, `CommandsBegin`,
`EveryCellScored`, `EstopOrExit`), which with `ENABLED` is beyond this prover,
and `LostFixForgiven`, which compares the checks over two tracks of different
lengths. Every other property of a passing run is stated by a theorem, under
the assumption its run satisfies.

## 6. What is not modelled, and what is left to do

Not modelled, with the reasons.

- Numeric filtering and control laws, the world model's clock fit and pose
  rings, projections, the consistency window of the rangefinder, the bounds of the envelope:
  arithmetic on reals in one step, with no interleaving for TLC to find.
- ONNX and YOLO backends, masks as pixels, drawing, the wording of replies,
  reports and prompts.
- Simulator worlds and their movers, training and export scripts, the offline
  range studies: the program's environment, or no part of it.
- Of modelled parts: `Detector.stop` and reload, `scan` and `set_speed`, the
  optional parts a boot degrades, the Claude backend, `validate_op`,
  click-to-lock, the telemetry socket, eviction from the topic log, a torn line
  of `transcripts.jsonl`, which fails a report only.
- `TrackLog` (`flight/track.py:154-179`), the pursuit's own count of its dwell.
  Its docstring calls it the oracle's metric, and it is another: it is fed at
  10 Hz with an estimate of the contact and breaks at one miss, where
  `dwell_moving` reads the simulator's truth at 2 Hz and forgives one.

Left to do, in this order: `Detector.stop` against a third failure in progress;
`scan` and the emergency holds as further calls over EvalCell's PX4; eviction
in the topic log; the tracker as the contacts of Pursuit (`Perceive` refined by
`Update`).

## 7. Files

`MC*.tla` instantiate a module for TLC; `*.cfg` are the runs and the further
configurations of section 4; `*Proofs.tla` hold the theorems.
`tlc -config <run>.cfg <module>` and `tlapm <module>Proofs.tla` repeat any of
them.
