------------------------- MODULE CommandAuthority -------------------------
(***************************************************************************)
(* Who flies the drone.  One ActiveToolRegistry slot (pilot/estop.py) is    *)
(* shared by three parties that run as tasks of one event loop:             *)
(*   - the LLM's tool calls, wrapped by flight/tools.py:_handler;           *)
(*   - the operator's cockpit ops, run as lease tasks by CommandArbiter     *)
(*     (pilot/arbiter.py) on behalf of cmd_supervisor (pilot/cmd.py);       *)
(*   - the emergency stop, estop_supervisor (pilot/estop.py).               *)
(* A step of this module is what the code does between two awaits: the      *)
(* event loop interleaves tasks at an await and nowhere else.               *)
(* Tool calls, ops and estop lines are each used once, which bounds every   *)
(* queue and the generation counter by the size of the constant sets.       *)
(***************************************************************************)
EXTENDS Naturals, Sequences

CONSTANTS
  Calls,      \* LLM tool calls; each is one task running a _handler wrapper
  Ops,        \* lines on /pilot/cmd; an accepted one becomes one lease task
  Stops,      \* the ops that say "stop" (hold, no motion)
  Estops,     \* lines on /pilot/estop
  Landings,   \* the estop lines that say "land"; any other line means hold
  Slow,       \* tasks whose cleanup may outlast the 5 s wait of cancel_current
  Overlap,    \* may the model issue a tool call while another is in progress?
  Latched,    \* TRUE: estop through CommandArbiter.estop; FALSE: as shipped,
              \* PilotAgent.run starts estop_supervisor, which never latches
  None

Tasks == Calls \cup Ops
Lines == Ops \cup Estops

ASSUME AuthorityAssumption ==
  /\ Calls \cap Ops = {}
  /\ Tasks \cap Estops = {}
  /\ Stops \subseteq Ops
  /\ Landings \subseteq Estops
  /\ Slow \subseteq Tasks
  /\ Overlap \in BOOLEAN
  /\ Latched \in BOOLEAN
  /\ None \notin Tasks \cup Estops \cup {"ground", "hold", "land"}
  /\ Tasks \cap {"ground", "hold", "land"} = {}

VARIABLES
  slot,       \* registry._task: the task a cancel would reach, or None
  generation, \* registry._generation
  gen,        \* the generation each task got from register(), 0 before
  lease,      \* arbiter._lease: the newest lease task (maybe done), or None
  estopped,   \* arbiter._estopped
  task,       \* the asyncio state of every task
  orphans,    \* tasks that left a shielded hold/offboard.stop RPC in flight
  cmdQ,       \* /pilot/cmd lines not fully handled, oldest first
  cmdPc,      \* cmd_supervisor: "poll", or "preempt" inside cancel_current
  cmdVictim,  \* the task that cancel_current waits for, or None
  estopQ,     \* /pilot/estop lines not fully handled, oldest first
  esPc,       \* estop_supervisor: "poll", "preempt", "pause" or "act"
  esVictim,   \* the task the line being (or last) handled cancelled, or None
  line,       \* what became of each operator line
  vehicle     \* what PX4 last obeyed: "ground", "hold", "land" or a task

registry == <<slot, generation, gen>>
cmdVars == <<cmdQ, cmdPc, cmdVictim>>
estopVars == <<estopQ, esPc, esVictim>>
vars == <<registry, lease, estopped, task, orphans, cmdVars, estopVars,
          line, vehicle>>

-----------------------------------------------------------------------------
(* Task states.  "created" is a lease task the loop has not stepped yet;    *)
(* "expiring" a lease whose 90 s ran out and whose op is being unwound;     *)
(* "holding" that lease awaiting the shielded emergency_hold; "unwinding" a *)
(* task cancel_current has cancelled, running its except/finally clauses.   *)
Owning == {"created", "running", "expiring", "holding"}
Unfinished == Owning \cup {"unwinding"}

Live(t) == task[t] \in Owning       \* not cancelled, not finished
InProgress(t) == task[t] \in Unfinished \* not task.done()

(* CommandArbiter.lease_held: the _lease reference outlives its task, so    *)
(* done() is part of the test.                                              *)
LeaseHeldByReference == lease # None
LeaseHeld == lease # None /\ InProgress(lease)

(* ActiveToolRegistry.register: overwrite whatever is in the slot.          *)
Register(t) == /\ slot' = t
               /\ generation' = generation + 1
               /\ gen' = [gen EXCEPT ![t] = generation + 1]

(* ActiveToolRegistry.clear(gen): a stale writer leaves the slot alone.     *)
Clear(t) == /\ slot' = IF gen[t] = generation THEN None ELSE slot
            /\ UNCHANGED <<generation, gen>>

(* cancel_current, up to its await: `t, self._task = self._task, None`; an  *)
(* empty slot or a finished task needs no cancel and no wait.               *)
SlotBusy == slot # None /\ InProgress(slot)

(* Mutant of CancelSlot: the slot is taken, t.cancel() is forgotten.         *)
CancelDetaches ==
  /\ slot' = None
  /\ generation' = generation + 1
  /\ UNCHANGED <<gen, task, orphans>>

(* t.cancel().  A lease the loop never stepped dies without running its     *)
(* finally clause; one that is inside a shield leaves the RPC behind.       *)
CancelSlot ==
  /\ slot' = None
  /\ generation' = generation + 1
  /\ UNCHANGED gen
  /\ task' = [task EXCEPT ![slot] =
                IF task[slot] = "created" THEN "done" ELSE "unwinding"]
  /\ orphans' = IF \/ task[slot] = "holding"
                   \/ task[slot] = "expiring" /\ slot \notin Stops
                THEN orphans \cup {slot} ELSE orphans

(* Mutant of WaitOver: act as soon as the cancel is requested.              *)
WaitSkipped(t) == t \in Tasks

(* Mutant of WaitOver: wait for the victim without the 5 s timeout.         *)
WaitForever(t) == ~ InProgress(t)

(* asyncio.wait([t], timeout=5) returned: t is done, or t is slow.          *)
WaitOver(t) == ~ InProgress(t) \/ t \in Slow

-----------------------------------------------------------------------------
(* LLM tool calls: flight/tools.py:_handler.                                *)

(* arbiter.guard_llm, called before register() with no await between.       *)
Guard == ~ estopped /\ ~ LeaseHeld

(* The model answers one result at a time unless Overlap: its next call     *)
(* comes a round trip after the previous result, and so after the resumption *)
(* of an op that preempted that very call, a few turns of the event loop.   *)
(* Where an op preempted an op nothing of the kind holds: the gate opens    *)
(* with lease.done(), and a call that arrives then is let in.               *)
LlmMayCall ==
  \/ Overlap
  \/ /\ \A c \in Calls : ~ InProgress(c)
     /\ ~ (cmdPc = "preempt" /\ cmdVictim \in Calls)

StartTool(c) ==
  /\ task[c] = "idle"
  /\ LlmMayCall
  /\ Guard
  /\ Register(c)
  /\ task' = [task EXCEPT ![c] = "running"]
  /\ UNCHANGED <<lease, estopped, orphans, cmdVars, estopVars, line, vehicle>>

(* OPERATOR_ACTIVE: the call ends without touching the slot.                *)
RejectTool(c) ==
  /\ task[c] = "idle"
  /\ LlmMayCall
  /\ ~ Guard
  /\ task' = [task EXCEPT ![c] = "done"]
  /\ UNCHANGED <<registry, lease, estopped, orphans, cmdVars, estopVars,
                 line, vehicle>>

(* The tool's await ends (result, ToolFailure, timeout, or the ESTOPPED     *)
(* result of a cancelled one) and the finally clause clears the slot.       *)
ToolReturns(c) ==
  /\ task[c] \in {"running", "unwinding"}
  /\ Clear(c)
  /\ task' = [task EXCEPT ![c] = "done"]
  /\ UNCHANGED <<lease, estopped, orphans, cmdVars, estopVars, line, vehicle>>

(* A task's flight command reaches PX4.  A cancelled task may still have    *)
(* one in flight, and its cleanup holds (offboard.stop, _halt).             *)
Command(t) ==
  /\ task[t] \in {"running", "expiring", "unwinding"}
  /\ vehicle' \in (IF t \in Stops THEN {} ELSE {t})
                  \cup (IF task[t] = "running" THEN {} ELSE {"hold"})
  /\ UNCHANGED <<registry, lease, estopped, task, orphans, cmdVars,
                 estopVars, line>>

(* An RPC left running by asyncio.shield ends: the drone holds, or it fails *)
OrphanEnds(t) ==
  /\ t \in orphans
  /\ orphans' = orphans \ {t}
  /\ vehicle' \in {vehicle, "hold"}
  /\ UNCHANGED <<registry, lease, estopped, task, cmdVars, estopVars, line>>

-----------------------------------------------------------------------------
(* Operator leases: arbiter.py:_run_lease around cmd.py:make_run_op.        *)

LeaseStarts(o) ==
  /\ task[o] = "created"
  /\ task' = [task EXCEPT ![o] = "running"]
  /\ UNCHANGED <<registry, lease, estopped, orphans, cmdVars, estopVars,
                 line, vehicle>>

(* Mutant of ReleaseLease: the finally clause without its identity test.    *)
ReleaseAnyLease(o) == lease' = None

(* `if self._lease is asyncio.current_task(): self._lease = None`           *)
ReleaseLease(o) == lease' = IF lease = o THEN None ELSE lease

(* The track op returns or raises, or a cancelled lease has unwound.        *)
LeaseReturns(o) ==
  /\ \/ task[o] = "running" /\ o \notin Stops
     \/ task[o] = "unwinding"
  /\ ReleaseLease(o)
  /\ task' = [task EXCEPT ![o] = "done"]
  /\ UNCHANGED <<registry, estopped, orphans, cmdVars, estopVars, line,
                 vehicle>>

(* wait_for's 90 s timer fires: it cancels the op, which unwinds.           *)
LeaseExpires(o) ==
  /\ task[o] = "running"
  /\ task' = [task EXCEPT ![o] = "expiring"]
  /\ UNCHANGED <<registry, lease, estopped, orphans, cmdVars, estopVars,
                 line, vehicle>>

(* The op has unwound; TimeoutError; the shielded emergency_hold begins.    *)
LeaseHolds(o) ==
  /\ task[o] = "expiring"
  /\ task' = [task EXCEPT ![o] = "holding"]
  /\ UNCHANGED <<registry, lease, estopped, orphans, cmdVars, estopVars,
                 line, vehicle>>

(* emergency_hold ends (it reports a failing RPC, it never raises), as the  *)
(* last act of an expired lease or as the whole of a "stop" op.             *)
LeaseHoldEnds(o) ==
  /\ \/ task[o] = "holding"
     \/ task[o] = "running" /\ o \in Stops
  /\ vehicle' \in {vehicle, "hold"}
  /\ ReleaseLease(o)
  /\ task' = [task EXCEPT ![o] = "done"]
  /\ UNCHANGED <<registry, estopped, orphans, cmdVars, estopVars, line>>

-----------------------------------------------------------------------------
(* The operator presses buttons; a line is appended to its topic's log.     *)

Click(o) ==
  /\ line[o] = "unsent"
  /\ line' = [line EXCEPT ![o] = "queued"]
  /\ cmdQ' = Append(cmdQ, o)
  /\ UNCHANGED <<registry, lease, estopped, task, orphans, cmdPc, cmdVictim,
                 estopVars, vehicle>>

Press(e) ==
  /\ line[e] = "unsent"
  /\ line' = [line EXCEPT ![e] = "queued"]
  /\ estopQ' = Append(estopQ, e)
  /\ UNCHANGED <<registry, lease, estopped, task, orphans, cmdVars, esPc,
                 esVictim, vehicle>>

-----------------------------------------------------------------------------
(* cmd_supervisor and CommandArbiter.submit_operator.                       *)

CmdAnswer(answer) ==
  /\ line' = [line EXCEPT ![Head(cmdQ)] = answer]
  /\ cmdQ' = Tail(cmdQ)

(* A line validate_op raises ValueError on is dropped (any line may be one); *)
(* one met by the latch is refused.  Neither preempts the slot.             *)
CmdRefuse ==
  /\ cmdPc = "poll" /\ cmdQ # <<>>
  /\ \/ CmdAnswer("dropped")
     \/ estopped /\ CmdAnswer("refused")
  /\ UNCHANGED <<registry, lease, estopped, task, orphans, cmdPc, cmdVictim,
                 estopVars, vehicle>>

(* create_task(_run_lease), register, return ok: no await between.          *)
TakeLease(o) ==
  /\ lease' = o
  /\ Register(o)
  /\ task' = [task EXCEPT ![o] = "created"]
  /\ CmdAnswer("ok")

CmdAdmitted == /\ cmdPc = "poll" /\ cmdQ # <<>>
               /\ ~ estopped

(* Nothing to preempt: cancel_current returns without suspending.           *)
CmdTakesIdle ==
  /\ CmdAdmitted
  /\ ~ SlotBusy
  /\ TakeLease(Head(cmdQ))
  /\ UNCHANGED <<estopped, orphans, cmdPc, cmdVictim, estopVars, vehicle>>

CmdPreempts ==
  /\ CmdAdmitted
  /\ SlotBusy
  /\ CancelSlot
  /\ cmdPc' = "preempt"
  /\ cmdVictim' = slot
  /\ UNCHANGED <<lease, estopped, cmdQ, estopVars, line, vehicle>>

(* Resumed after the wait: the lease is taken with nothing re-checked.      *)
CmdTakesOver ==
  /\ cmdPc = "preempt"
  /\ WaitOver(cmdVictim)
  /\ cmdPc' = "poll"
  /\ cmdVictim' = None
  /\ TakeLease(Head(cmdQ))
  /\ UNCHANGED <<estopped, orphans, estopVars, vehicle>>

-----------------------------------------------------------------------------
(* estop_supervisor, and CommandArbiter.estop, which runs the same sequence *)
(* after setting the latch.                                                 *)

(* Mutant of EsAdmitted: the supervisor acts on a poll that found nothing.  *)
EsAdmittedAnyway == esPc = "poll"

(* Polled every 0.2 s; lines are handled one at a time, in order.           *)
EsAdmitted == esPc = "poll" /\ estopQ # <<>>

EsFindsIdle ==
  /\ EsAdmitted
  /\ ~ SlotBusy
  /\ estopped' = (estopped \/ Latched)
  /\ slot' = None
  /\ esPc' = "pause"
  /\ esVictim' = None
  /\ UNCHANGED <<generation, gen, lease, task, orphans, cmdVars, estopQ,
                 line, vehicle>>

EsCancels ==
  /\ EsAdmitted
  /\ SlotBusy
  /\ estopped' = (estopped \/ Latched)
  /\ CancelSlot
  /\ esPc' = "preempt"
  /\ esVictim' = slot
  /\ UNCHANGED <<lease, cmdVars, estopQ, line, vehicle>>

EsResumes ==
  /\ esPc = "preempt"
  /\ WaitOver(esVictim)
  /\ esPc' = "pause"
  /\ UNCHANGED <<registry, lease, estopped, task, orphans, cmdVars, estopQ,
                 esVictim, line, vehicle>>

(* emergency_hold / emergency_land: first pause_mission, errors swallowed.  *)
EsPauses ==
  /\ esPc = "pause"
  /\ esPc' = "act"
  /\ vehicle' \in {vehicle, "hold"}
  /\ UNCHANGED <<registry, lease, estopped, task, orphans, cmdVars, estopQ,
                 esVictim, line>>

Emergency(e) == IF e \in Landings THEN "land" ELSE "hold"

(* Then action.hold or action.land; its failure is reported in the chat.    *)
EsActs ==
  /\ esPc = "act"
  /\ \/ /\ vehicle' = Emergency(Head(estopQ))
        /\ line' = [line EXCEPT ![Head(estopQ)] = "ok"]
     \/ /\ UNCHANGED vehicle
        /\ line' = [line EXCEPT ![Head(estopQ)] = "failed"]
  /\ estopQ' = Tail(estopQ)
  /\ esPc' = "poll"
  /\ UNCHANGED <<registry, lease, estopped, task, orphans, cmdVars, esVictim>>

(* CommandArbiter.release, when the estop goes through the arbiter.         *)
Release ==
  /\ Latched /\ estopped
  /\ estopped' = FALSE
  /\ UNCHANGED <<registry, lease, task, orphans, cmdVars, estopVars, line,
                 vehicle>>

(* The operator, the model and every task have finished.                    *)
Quiescent ==
  /\ \A t \in Calls : task[t] = "done"
  /\ \A o \in Ops : ~ InProgress(o)
  /\ \A l \in Lines : line[l] \notin {"unsent", "queued"}
  /\ orphans = {}
  /\ UNCHANGED vars

-----------------------------------------------------------------------------
Init ==
  /\ slot = None
  /\ generation = 0
  /\ gen = [t \in Tasks |-> 0]
  /\ lease = None
  /\ estopped = FALSE
  /\ task = [t \in Tasks |-> "idle"]
  /\ orphans = {}
  /\ cmdQ = <<>> /\ cmdPc = "poll" /\ cmdVictim = None
  /\ estopQ = <<>> /\ esPc = "poll" /\ esVictim = None
  /\ line = [l \in Lines |-> "unsent"]
  /\ vehicle = "ground"

CmdStep == CmdRefuse \/ CmdTakesIdle \/ CmdPreempts \/ CmdTakesOver
EsStep == EsFindsIdle \/ EsCancels \/ EsResumes \/ EsPauses \/ EsActs
ToolStep(c) == StartTool(c) \/ RejectTool(c) \/ ToolReturns(c)
LeaseStep(o) == \/ LeaseStarts(o) \/ LeaseReturns(o) \/ LeaseExpires(o)
                \/ LeaseHolds(o) \/ LeaseHoldEnds(o)

Next ==
  \/ \E c \in Calls : ToolStep(c)
  \/ \E o \in Ops : LeaseStep(o) \/ Click(o)
  \/ \E t \in Tasks : Command(t) \/ OrphanEnds(t)
  \/ \E e \in Estops : Press(e)
  \/ CmdStep \/ EsStep \/ Release \/ Quiescent

Spec == Init /\ [][Next]_vars

(* The event loop runs every ready task, timers fire, and a cancelled task  *)
(* finishes its cleanup unless it is Slow.  Nothing obliges the operator,   *)
(* the model, a tool's duration or the release of the latch.                *)
Fairness ==
  /\ WF_vars(CmdStep)
  /\ WF_vars(EsStep)
  /\ \A o \in Ops : WF_vars(LeaseStep(o))
  /\ \A c \in Calls \ Slow : WF_vars(task[c] = "unwinding" /\ ToolReturns(c))

FairSpec == Spec /\ Fairness

-----------------------------------------------------------------------------
(* Every variable has its type; a supervisor waits only for a task, and     *)
(* only while it has the line it works for at the head of its queue.        *)
TypeOK ==
  /\ slot \in Tasks \cup {None}
  /\ generation \in Nat
  /\ gen \in [Tasks -> Nat]
  /\ lease \in Ops \cup {None}
  /\ estopped \in BOOLEAN
  /\ task \in [Tasks -> Unfinished \cup {"idle", "done"}]
  /\ orphans \subseteq Tasks
  /\ cmdQ \in Seq(Ops)
  /\ cmdPc \in {"poll", "preempt"}
  /\ cmdVictim \in Tasks \cup {None}
  /\ cmdPc = "preempt" => cmdVictim # None /\ cmdQ # <<>>
  /\ estopQ \in Seq(Estops)
  /\ esPc \in {"poll", "preempt", "pause", "act"}
  /\ esVictim \in Tasks \cup {None}
  /\ esPc = "preempt" => esVictim # None
  /\ esPc # "poll" => estopQ # <<>>
  /\ line \in [Lines -> {"unsent", "queued", "ok", "refused", "dropped", "failed"}]
  /\ vehicle \in Tasks \cup {"ground", "hold", "land"}

(* arbiter.py, module docstring: the tool wrappers, the ops and the estop    *)
(* all register through the same slot, "and ownership can never race": a    *)
(* task that flies (not cancelled, not finished) is the one in the slot.    *)
OwnerHoldsSlot == \A t \in Tasks : Live(t) => slot = t

(* The last task to register keeps the slot until it ends or is cancelled:  *)
(* the finally clause of an overtaken or preempted tool never frees it      *)
(* (the generation of ActiveToolRegistry.clear).                            *)
NewestOwnsSlot ==
  \A t \in Tasks : Live(t) /\ gen[t] = generation => slot = t

(* While an operator op is flying the LLM gate is closed, also after an     *)
(* older lease that was slow to unwind has run its finally clause           *)
(* (_run_lease's identity test on self._lease).                             *)
LiveOpClosesGate == \A o \in Ops : Live(o) => LeaseHeld

(* Once the emergency action of an estop is under way, the task that estop  *)
(* cancelled never moves the drone again: cancel_current awaits its cleanup *)
(* before emergency_hold or emergency_land is called.  Only a task whose    *)
(* cleanup outlasts the 5 s of that wait may still do so.                   *)
VictimStaysStopped ==
  [][esPc # "preempt" /\ esVictim \notin Slow \cup {None} /\ vehicle' # vehicle
       => vehicle' # esVictim]_vars

(* Every estop line is answered by its emergency action, even when the task *)
(* it cancelled never finishes unwinding (the 5 s bound in cancel_current). *)
EstopAnswered ==
  \A e \in Estops : line[e] = "queued" ~> line[e] \in {"ok", "failed"}

(* Every /pilot/cmd line is dropped, refused or turned into a lease.        *)
OpAnswered == \A o \in Ops : line[o] = "queued" ~> line[o] # "queued"

(* The gate never stays closed on a lease whose task is gone: the lease     *)
(* ends by completion, cancellation or its 90 s, and lease_held tests       *)
(* done() because a lease cancelled before its first step never runs the    *)
(* finally clause that resets self._lease.                                  *)
GateReopens == LeaseHeld ~> ~ LeaseHeld

(* arbiter.py, estop(): "latch FIRST (no submission lands mid-cancel)": no  *)
(* lease is created while the latch is set.                                 *)
NoSubmissionUnderLatch ==
  [][\A o \in Ops : estopped /\ task[o] = "idle" => task'[o] # "created"]_vars

(* flight/tools.py, _handler: "while the operator lease or the estop holds, *)
(* the tool is rejected OPERATOR_ACTIVE and never touches the slot".        *)
EstopRejectsTools ==
  [][\A c \in Calls : esPc # "poll" /\ task[c] = "idle"
                        => task'[c] # "running"]_vars

-----------------------------------------------------------------------------
(* The inductive invariants behind the theorems of CommandAuthorityProofs.  *)

(* Generations: the slot's task holds the current one, no other task does,  *)
(* and a cancelled task's is out of date.                                   *)
GenerationInv ==
  /\ slot # None => gen[slot] = generation
  /\ slot # None => task[slot] \in Owning \cup {"done"}
  /\ \A t \in Tasks : gen[t] <= generation
  /\ \A t \in Tasks : InProgress(t) => gen[t] > 0
  /\ \A t \in Tasks : task[t] = "unwinding" => gen[t] # generation
  /\ \A t, u \in Tasks : gen[t] = gen[u] /\ t # u => gen[t] = 0

(* Leases: a flying op has the slot and the lease, and none flies while     *)
(* cmd_supervisor is inside cancel_current.                                 *)
LeaseInv ==
  /\ \A o \in Ops : Live(o) => slot = o /\ lease = o
  /\ cmdPc = "preempt" => \A o \in Ops : ~ Live(o)

(* Ownership: the model has one call in progress, and while an op waits for *)
(* the call it preempted the slot stays empty.                              *)
OwnerInv ==
  /\ \A c, d \in Calls : InProgress(c) /\ InProgress(d) => c = d
  /\ cmdPc = "preempt" /\ cmdVictim \in Calls => slot = None

(* Lines: an op still to be handled has no task yet and is queued once.     *)
LineInv ==
  /\ \A o \in Ops : line[o] \in {"unsent", "queued"} => task[o] = "idle"
  /\ \A i \in 1..Len(cmdQ) : line[cmdQ[i]] = "queued"
  /\ \A i, j \in 1..Len(cmdQ) : cmdQ[i] = cmdQ[j] => i = j

(* Victims: what the estop cancelled is finished when it acts, unless slow. *)
VictimInv ==
  /\ esVictim # None => task[esVictim] \in {"unwinding", "done"}
  /\ esVictim \notin Slow \cup {None} /\ esPc # "preempt"
       => task[esVictim] = "done"

-----------------------------------------------------------------------------
(* The mapping onto CommandHandover: the holder is the live task in the     *)
(* slot, loose are the live tasks outside it.                               *)
Holder == IF slot # None /\ Live(slot) THEN slot ELSE None
Loose == {t \in Tasks : Live(t) /\ slot # t}
HandingOver == cmdPc = "preempt" /\ cmdVictim \in Ops

Handover == INSTANCE CommandHandover
              WITH holder <- Holder, loose <- Loose, handover <- HandingOver

(* The arbiter, the tool wrapper and the estop together implement that      *)
(* abstract arbiter, for a model that awaits each result: a commander is    *)
(* cancelled before its successor begins (submit_operator, cancel_current), *)
(* and the one that may be left beside it is a call let in between the end  *)
(* of a preempted lease and the resumption of submit_operator.              *)
ImplementsHandover == Handover!Spec
=============================================================================
