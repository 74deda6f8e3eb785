---------------------- MODULE CommandAuthorityProofs ----------------------
(***************************************************************************)
(* Theorems about CommandAuthority, for every set of calls, ops and estop   *)
(* lines.                                                                   *)
(***************************************************************************)
EXTENDS CommandAuthority, SequenceTheorems, TLAPS


(* A supervisor's line is the head of its queue: a line of the right kind,  *)
(* and removing it leaves a queue.                                          *)
LEMMA QueueHeads ==
  ASSUME TypeOK
  PROVE  /\ cmdQ # <<>> => Head(cmdQ) \in Ops /\ Tail(cmdQ) \in Seq(Ops)
         /\ estopQ # <<>> => Head(estopQ) \in Estops /\ Tail(estopQ) \in Seq(Estops)
BY HeadTailProperties DEF TypeOK

LEMMA TypeStep == TypeOK /\ [Next]_vars => TypeOK'
<1> SUFFICES ASSUME TypeOK, [Next]_vars PROVE TypeOK'
  OBVIOUS
<1> USE AuthorityAssumption
    DEF TypeOK, Tasks, Lines, Unfinished, Owning, registry, cmdVars, estopVars
<1>1. ASSUME NEW c \in Calls, StartTool(c) PROVE TypeOK'
  BY <1>1
     DEF StartTool, Register
<1>2. ASSUME NEW c \in Calls, RejectTool(c) PROVE TypeOK'
  BY <1>2
     DEF RejectTool
<1>3. ASSUME NEW c \in Calls, ToolReturns(c) PROVE TypeOK'
  BY <1>3
     DEF ToolReturns, Clear
<1>4. ASSUME NEW o \in Ops, LeaseStarts(o) PROVE TypeOK'
  BY <1>4
     DEF LeaseStarts
<1>5. ASSUME NEW o \in Ops, LeaseReturns(o) PROVE TypeOK'
  BY <1>5
     DEF LeaseReturns, ReleaseLease
<1>6. ASSUME NEW o \in Ops, LeaseExpires(o) PROVE TypeOK'
  BY <1>6
     DEF LeaseExpires
<1>7. ASSUME NEW o \in Ops, LeaseHolds(o) PROVE TypeOK'
  BY <1>7
     DEF LeaseHolds
<1>8. ASSUME NEW o \in Ops, LeaseHoldEnds(o) PROVE TypeOK'
  BY <1>8
     DEF LeaseHoldEnds, ReleaseLease
<1>9. ASSUME NEW o \in Ops, Click(o) PROVE TypeOK'
  <2>1. cmdQ' \in Seq(Ops) /\ cmdQ' # <<>>
    BY <1>9, AppendProperties DEF Click
  <2> QED
    BY <1>9, <2>1 DEF Click
<1>10. ASSUME NEW t \in Tasks, Command(t) PROVE TypeOK'
  BY <1>10
     DEF Command
<1>11. ASSUME NEW t \in Tasks, OrphanEnds(t) PROVE TypeOK'
  BY <1>11
     DEF OrphanEnds
<1>12. ASSUME NEW e \in Estops, Press(e) PROVE TypeOK'
  BY <1>12
     DEF Press
<1>13. ASSUME CmdRefuse PROVE TypeOK'
  <2>1. PICK answer \in {"dropped", "refused"} : CmdAnswer(answer)
    BY <1>13 DEF CmdRefuse
  <2>2. line' \in [Lines -> {"unsent", "queued", "ok", "refused", "dropped", "failed"}]
    BY <1>13, <2>1, QueueHeads DEF CmdRefuse, CmdAnswer
  <2>3. cmdQ' \in Seq(Ops)
    BY <1>13, <2>1, QueueHeads DEF CmdRefuse, CmdAnswer
  <2> QED
    BY <1>13, <2>2, <2>3 DEF CmdRefuse
<1>14. ASSUME CmdTakesIdle PROVE TypeOK'
  BY <1>14, QueueHeads
     DEF CmdTakesIdle, CmdAdmitted, TakeLease, Register, CmdAnswer
<1>15. ASSUME CmdPreempts PROVE TypeOK'
  BY <1>15
     DEF CmdPreempts, CmdAdmitted, CancelSlot, SlotBusy, InProgress
<1>16. ASSUME CmdTakesOver PROVE TypeOK'
  BY <1>16, QueueHeads
     DEF CmdTakesOver, TakeLease, Register, CmdAnswer
<1>17. ASSUME EsFindsIdle PROVE TypeOK'
  BY <1>17
     DEF EsFindsIdle, EsAdmitted
<1>18. ASSUME EsCancels PROVE TypeOK'
  BY <1>18
     DEF EsCancels, EsAdmitted, CancelSlot, SlotBusy, InProgress
<1>19. ASSUME EsResumes PROVE TypeOK'
  BY <1>19
     DEF EsResumes
<1>20. ASSUME EsPauses PROVE TypeOK'
  BY <1>20
     DEF EsPauses
<1>21. ASSUME EsActs PROVE TypeOK'
  BY <1>21, QueueHeads
     DEF EsActs, Emergency, EsAdmitted
<1>22. ASSUME Release PROVE TypeOK'
  BY <1>22
     DEF Release
<1>23. ASSUME Quiescent PROVE TypeOK'
  BY <1>23
     DEF Quiescent, vars
<1>24. CASE UNCHANGED vars
  BY <1>24 DEF vars
<1> QED
  BY <1>1, <1>2, <1>3, <1>4, <1>5, <1>6, <1>7, <1>8, <1>9, <1>10, <1>11, <1>12, <1>13, <1>14, <1>15, <1>16, <1>17, <1>18, <1>19, <1>20, <1>21, <1>22, <1>23, <1>24
  DEF Next, ToolStep, LeaseStep, CmdStep, EsStep

LEMMA InitType == Init => TypeOK
<1> SUFFICES ASSUME Init PROVE TypeOK
  OBVIOUS
<1>1. gen \in [Tasks -> Nat] /\ generation \in Nat
  BY DEF Init
<1>2. task \in [Tasks -> Unfinished \cup {"idle", "done"}]
  BY DEF Init
<1>3. line \in [Lines -> {"unsent", "queued", "ok", "refused", "dropped", "failed"}]
  BY DEF Init
<1>4. cmdQ \in Seq(Ops) /\ estopQ \in Seq(Estops)
  BY DEF Init
<1> QED
  BY <1>1, <1>2, <1>3, <1>4 DEF Init, TypeOK

(* Type correctness of the registry, the arbiter, both supervisors and the  *)
(* task states.                                                             *)
THEOREM TypeCorrect == Spec => []TypeOK
BY InitType, TypeStep, PTL DEF Spec

-----------------------------------------------------------------------------
(* The steps that touch the registry, the lease, a task's state or the      *)
(* wait of cmd_supervisor; every other step leaves all of them alone.       *)
AuthorityStep ==
  \/ \E c \in Calls : StartTool(c) \/ RejectTool(c) \/ ToolReturns(c)
  \/ \E o \in Ops : LeaseStep(o)
  \/ CmdTakesIdle \/ CmdPreempts \/ CmdTakesOver
  \/ EsFindsIdle \/ EsCancels

authority == <<slot, generation, gen, lease, task, cmdPc, cmdVictim>>

LEMMA Frame == [Next]_vars => AuthorityStep \/ UNCHANGED authority
<1> SUFFICES ASSUME [Next]_vars, ~ AuthorityStep PROVE UNCHANGED authority
  OBVIOUS
<1> USE DEF authority, registry, cmdVars, estopVars
<1>1. ASSUME NEW o \in Ops, Click(o) PROVE UNCHANGED authority
  BY <1>1 DEF Click
<1>2. ASSUME NEW t \in Tasks, Command(t) PROVE UNCHANGED authority
  BY <1>2 DEF Command
<1>3. ASSUME NEW t \in Tasks, OrphanEnds(t) PROVE UNCHANGED authority
  BY <1>3 DEF OrphanEnds
<1>4. ASSUME NEW e \in Estops, Press(e) PROVE UNCHANGED authority
  BY <1>4 DEF Press
<1>5. CASE CmdRefuse
  BY <1>5 DEF CmdRefuse
<1>6. CASE EsResumes \/ EsPauses \/ EsActs
  BY <1>6 DEF EsResumes, EsPauses, EsActs
<1>7. CASE Release \/ Quiescent \/ UNCHANGED vars
  BY <1>7 DEF Release, Quiescent, vars
<1> QED
  BY <1>1, <1>2, <1>3, <1>4, <1>5, <1>6, <1>7
  DEF Next, AuthorityStep, ToolStep, CmdStep, EsStep

-----------------------------------------------------------------------------
(* Generations.                                                             *)

LEMMA GenerationUnchanged ==
  GenerationInv /\ UNCHANGED authority => GenerationInv'
BY DEF GenerationInv, authority, InProgress, Live

(* register() hands its task a generation above everybody else's.           *)
LEMMA GenerationRegister ==
  ASSUME TypeOK, GenerationInv, NEW t \in Tasks, Register(t),
         NEW s \in {"created", "running"}, task' = [task EXCEPT ![t] = s]
  PROVE  GenerationInv'
<1> USE DEF TypeOK
<1>1. gen' = [gen EXCEPT ![t] = generation + 1] /\ generation' = generation + 1
      /\ slot' = t
  BY DEF Register
<1>2. gen'[t] = generation + 1 /\ task'[t] = s
  BY <1>1
<1>3. \A u \in Tasks : u # t => gen'[u] = gen[u] /\ task'[u] = task[u]
  BY <1>1
<1>4. \A u \in Tasks : gen[u] <= generation /\ gen[u] \in Nat
  BY DEF GenerationInv
<1>5. slot' # None => gen'[slot'] = generation' /\ task'[slot'] \in Owning \cup {"done"}
  BY <1>1, <1>2 DEF Owning
<1>6. \A u \in Tasks : gen'[u] <= generation'
  BY <1>1, <1>2, <1>3, <1>4
<1>7. \A u \in Tasks : InProgress(u)' => gen'[u] > 0
  <2> SUFFICES ASSUME NEW u \in Tasks, InProgress(u)' PROVE gen'[u] > 0
    OBVIOUS
  <2>1. CASE u = t
    BY <2>1, <1>2
  <2>2. CASE u # t
    BY <2>2, <1>3 DEF GenerationInv, InProgress
  <2> QED
    BY <2>1, <2>2
<1>8. \A u \in Tasks : task'[u] = "unwinding" => gen'[u] # generation'
  <2> SUFFICES ASSUME NEW u \in Tasks, task'[u] = "unwinding" PROVE gen'[u] # generation'
    OBVIOUS
  <2>1. u # t
    BY <1>2
  <2> QED
    BY <2>1, <1>1, <1>3, <1>4
<1>9. \A u, v \in Tasks : gen'[u] = gen'[v] /\ u # v => gen'[u] = 0
  BY <1>1, <1>2, <1>3, <1>4 DEF GenerationInv
<1> QED
  BY <1>5, <1>6, <1>7, <1>8, <1>9 DEF GenerationInv

(* cancel_current outdates every generation handed out so far.              *)
LEMMA GenerationCancel ==
  ASSUME TypeOK, GenerationInv, SlotBusy, CancelSlot
  PROVE  GenerationInv'
<1> USE DEF TypeOK
<1>1. slot \in Tasks /\ slot' = None /\ generation' = generation + 1 /\ gen' = gen
  BY DEF SlotBusy, CancelSlot
<1>2. \A u \in Tasks : u # slot => task'[u] = task[u]
  BY DEF CancelSlot
<1>3. \A u \in Tasks : gen'[u] < generation' /\ gen'[u] \in Nat
  BY <1>1 DEF GenerationInv
<1>4. \A u \in Tasks : InProgress(u)' => InProgress(u)
  BY <1>1, <1>2 DEF SlotBusy, InProgress
<1>5. \A u \in Tasks : InProgress(u)' => gen'[u] > 0
  BY <1>1, <1>4 DEF GenerationInv
<1> QED
  BY <1>1, <1>3, <1>5 DEF GenerationInv

(* A task that ends, or moves on within its own code, keeps its generation. *)
LEMMA GenerationTaskMoves ==
  ASSUME TypeOK, GenerationInv, NEW t \in Tasks,
         NEW s \in (Owning \cup {"done"}) \ {"created"},
         task' = [task EXCEPT ![t] = s],
         InProgress(t) \/ s = "done",
         generation' = generation, gen' = gen,
         slot' \in {slot, None}
  PROVE  GenerationInv'
<1> USE DEF TypeOK
<1>1. task'[t] = s /\ \A u \in Tasks : u # t => task'[u] = task[u]
  OBVIOUS
<1>2. \A u \in Tasks : InProgress(u)' => InProgress(u)
  BY <1>1 DEF InProgress, Unfinished, Owning
<1>3. \A u \in Tasks : task'[u] = "unwinding" => task[u] = "unwinding"
  BY <1>1 DEF Owning
<1>4. slot' # None => task'[slot'] \in Owning \cup {"done"}
  BY <1>1 DEF GenerationInv
<1> QED
  BY <1>2, <1>3, <1>4 DEF GenerationInv

LEMMA GenerationStep ==
  TypeOK /\ GenerationInv /\ [Next]_vars => GenerationInv'
<1> SUFFICES ASSUME TypeOK, GenerationInv, [Next]_vars PROVE GenerationInv'
  OBVIOUS
<1> USE DEF registry
<1>1. ASSUME NEW c \in Calls, StartTool(c) PROVE GenerationInv'
  BY <1>1, GenerationRegister DEF StartTool, Tasks
<1>2. ASSUME NEW c \in Calls, RejectTool(c) PROVE GenerationInv'
  BY <1>2, GenerationTaskMoves DEF RejectTool, Tasks
<1>3. ASSUME NEW c \in Calls, ToolReturns(c) PROVE GenerationInv'
  BY <1>3, GenerationTaskMoves DEF ToolReturns, Clear, Tasks
<1>4. ASSUME NEW o \in Ops, LeaseStep(o) PROVE GenerationInv'
  <2>1. PICK s \in {"running", "expiring", "holding", "done"} :
          task' = [task EXCEPT ![o] = s] /\ (InProgress(o) \/ s = "done")
    BY <1>4 DEF LeaseStep, LeaseStarts, LeaseReturns, LeaseExpires, LeaseHolds,
                LeaseHoldEnds, InProgress, Unfinished, Owning
  <2>2. UNCHANGED <<slot, generation, gen>>
    BY <1>4 DEF LeaseStep, LeaseStarts, LeaseReturns, LeaseExpires, LeaseHolds,
                LeaseHoldEnds
  <2> QED
    BY <2>1, <2>2, GenerationTaskMoves DEF Tasks, Owning
<1>5. CASE CmdTakesIdle
  BY <1>5, QueueHeads, GenerationRegister DEF CmdTakesIdle, CmdAdmitted, TakeLease, Tasks
<1>6. CASE CmdPreempts
  BY <1>6, GenerationCancel DEF CmdPreempts
<1>7. CASE CmdTakesOver
  BY <1>7, QueueHeads, GenerationRegister DEF CmdTakesOver, TakeLease, TypeOK, Tasks
<1>8. CASE EsFindsIdle
  BY <1>8 DEF EsFindsIdle, GenerationInv, InProgress
<1>9. CASE EsCancels
  BY <1>9, GenerationCancel DEF EsCancels
<1> QED
  BY <1>1, <1>2, <1>3, <1>4, <1>5, <1>6, <1>7, <1>8, <1>9, Frame, GenerationUnchanged
  DEF AuthorityStep

-----------------------------------------------------------------------------
(* Leases.                                                                  *)

(* A returning tool frees the slot only when the slot is its own.           *)
LEMMA ClearIsOwn ==
  ASSUME TypeOK, GenerationInv, NEW c \in Calls, ToolReturns(c),
         NEW t \in Tasks, t # c, slot = t
  PROVE  slot' = t
<1>1. gen[t] = generation /\ gen[t] \in Nat
  BY AuthorityAssumption DEF GenerationInv, TypeOK
<1>2. gen[c] > 0 /\ gen[c] \in Nat
  BY DEF GenerationInv, ToolReturns, InProgress, Unfinished, Owning, Tasks, TypeOK
<1>3. gen[c] # generation
  BY <1>1, <1>2 DEF GenerationInv, Tasks
<1> QED
  BY <1>3 DEF ToolReturns, Clear

LEMMA LeaseInvStep ==
  TypeOK /\ GenerationInv /\ LeaseInv /\ [Next]_vars => LeaseInv'
<1> SUFFICES ASSUME TypeOK, GenerationInv, LeaseInv, [Next]_vars PROVE LeaseInv'
  OBVIOUS
<1> USE AuthorityAssumption DEF LeaseInv, Live, Owning, Tasks, registry, cmdVars
<1>1. ASSUME NEW c \in Calls, StartTool(c) PROVE LeaseInv'
  <2>1. \A o \in Ops : task'[o] = task[o] /\ ~ Live(o)
    BY <1>1 DEF StartTool, Guard, LeaseHeld, InProgress, Unfinished, TypeOK
  <2> QED
    BY <2>1
<1>2. ASSUME NEW c \in Calls, RejectTool(c) PROVE LeaseInv'
  <2>1. \A o \in Ops : task'[o] = task[o]
    BY <1>2 DEF RejectTool, TypeOK
  <2> QED
    BY <1>2, <2>1 DEF RejectTool
<1>3. ASSUME NEW c \in Calls, ToolReturns(c) PROVE LeaseInv'
  <2>1. \A o \in Ops : task'[o] = task[o] /\ o # c
    BY <1>3 DEF ToolReturns, TypeOK
  <2>2. \A o \in Ops : slot = o => slot' = o
    BY <1>3, <2>1, ClearIsOwn
  <2> QED
    BY <1>3, <2>1, <2>2 DEF ToolReturns
<1>4. ASSUME NEW o \in Ops, LeaseStep(o) PROVE LeaseInv'
  <2>1. \A p \in Ops : Live(p)' => Live(p)
    BY <1>4 DEF LeaseStep, LeaseStarts, LeaseReturns, LeaseExpires, LeaseHolds,
                LeaseHoldEnds, TypeOK
  <2>2. UNCHANGED <<slot, cmdPc>>
    BY <1>4 DEF LeaseStep, LeaseStarts, LeaseReturns, LeaseExpires, LeaseHolds,
                LeaseHoldEnds
  <2>3. lease' = lease \/ (lease = o /\ ~ Live(o)')
    BY <1>4 DEF LeaseStep, LeaseStarts, LeaseReturns, LeaseExpires, LeaseHolds,
                LeaseHoldEnds, ReleaseLease, TypeOK
  <2> QED
    BY <2>1, <2>2, <2>3
<1>5. CASE CmdTakesIdle
  <2>1. \A p \in Ops : ~ Live(p)
    BY <1>5 DEF CmdTakesIdle, SlotBusy, InProgress, Unfinished
  <2>2. Head(cmdQ) \in Ops
    BY <1>5, QueueHeads DEF CmdTakesIdle, CmdAdmitted
  <2>3. \A p \in Ops : p # Head(cmdQ) => ~ Live(p)'
    BY <1>5, <2>1 DEF CmdTakesIdle, TakeLease, TypeOK
  <2> QED
    BY <1>5, <2>2, <2>3 DEF CmdTakesIdle, CmdAdmitted, TakeLease, Register
<1>6. CASE CmdPreempts
  <2>1. \A p \in Ops : ~ Live(p)'
    BY <1>6 DEF CmdPreempts, CancelSlot, SlotBusy, TypeOK
  <2> QED
    BY <2>1
<1>7. CASE CmdTakesOver
  <2>1. \A p \in Ops : ~ Live(p)
    BY <1>7 DEF CmdTakesOver
  <2>2. Head(cmdQ) \in Ops
    BY <1>7, QueueHeads DEF CmdTakesOver, TypeOK
  <2>3. \A p \in Ops : p # Head(cmdQ) => ~ Live(p)'
    BY <1>7, <2>1 DEF CmdTakesOver, TakeLease, TypeOK
  <2> QED
    BY <1>7, <2>2, <2>3 DEF CmdTakesOver, TakeLease, Register
<1>8. CASE EsFindsIdle
  <2>1. \A p \in Ops : ~ Live(p)
    BY <1>8 DEF EsFindsIdle, SlotBusy, InProgress, Unfinished
  <2> QED
    BY <1>8, <2>1 DEF EsFindsIdle
<1>9. CASE EsCancels
  <2>1. \A p \in Ops : ~ Live(p)'
    BY <1>9 DEF EsCancels, CancelSlot, SlotBusy, TypeOK
  <2> QED
    BY <2>1
<1>10. CASE UNCHANGED authority
  BY <1>10 DEF authority
<1> QED
  BY <1>1, <1>2, <1>3, <1>4, <1>5, <1>6, <1>7, <1>8, <1>9, <1>10, Frame
  DEF AuthorityStep

LEMMA BaseInvariant == Spec => [](TypeOK /\ GenerationInv /\ LeaseInv)
<1>1. Init => TypeOK
  BY InitType
<1>2. Init => GenerationInv /\ LeaseInv
  BY AuthorityAssumption
  DEF Init, GenerationInv, LeaseInv, InProgress, Live, Unfinished, Owning, Tasks
<1> QED
  BY <1>1, <1>2, TypeStep, GenerationStep, LeaseInvStep, PTL DEF Spec

(* The last task to register keeps the slot until it ends or is cancelled.  *)
LEMMA NewestStep ==
  TypeOK /\ GenerationInv /\ NewestOwnsSlot /\ [Next]_vars => NewestOwnsSlot'
<1> SUFFICES ASSUME TypeOK, GenerationInv, NewestOwnsSlot, [Next]_vars,
                    NEW t \in Tasks, Live(t)', gen'[t] = generation'
             PROVE  slot' = t
  BY DEF NewestOwnsSlot
<1> USE AuthorityAssumption DEF Live, Owning, registry, cmdVars
<1>0. ASSUME NEW u \in Tasks, Register(u) PROVE slot' = t
  <2>1. gen[t] <= generation /\ gen[t] \in Nat /\ generation \in Nat
    BY DEF GenerationInv, TypeOK
  <2> QED
    BY <1>0, <2>1 DEF Register, TypeOK
<1>1. ASSUME CancelSlot PROVE FALSE
  <2>1. gen[t] <= generation /\ gen[t] \in Nat /\ generation \in Nat
    BY DEF GenerationInv, TypeOK
  <2> QED
    BY <1>1, <2>1 DEF CancelSlot
<1>2. ASSUME NEW c \in Calls, StartTool(c) PROVE slot' = t
  BY <1>0, <1>2 DEF StartTool, Tasks
<1>3. ASSUME NEW c \in Calls, RejectTool(c) PROVE slot' = t
  BY <1>3 DEF RejectTool, NewestOwnsSlot, TypeOK
<1>4. ASSUME NEW c \in Calls, ToolReturns(c) PROVE slot' = t
  <2>1. t # c /\ task[t] = task'[t]
    BY <1>4 DEF ToolReturns, TypeOK
  <2>2. slot = t
    BY <1>4, <2>1 DEF ToolReturns, Clear, NewestOwnsSlot
  <2> QED
    BY <1>4, <2>1, <2>2, ClearIsOwn
<1>5. ASSUME NEW o \in Ops, LeaseStep(o) PROVE slot' = t
  <2>1. Live(t) /\ UNCHANGED registry
    BY <1>5 DEF LeaseStep, LeaseStarts, LeaseReturns, LeaseExpires, LeaseHolds,
                LeaseHoldEnds, TypeOK
  <2> QED
    BY <2>1 DEF NewestOwnsSlot
<1>6. CASE CmdTakesIdle
  BY <1>0, <1>6, QueueHeads DEF CmdTakesIdle, CmdAdmitted, TakeLease, Tasks
<1>7. CASE CmdPreempts
  BY <1>1, <1>7 DEF CmdPreempts
<1>8. CASE CmdTakesOver
  BY <1>0, <1>8, QueueHeads DEF CmdTakesOver, TakeLease, TypeOK, Tasks
<1>9. CASE EsFindsIdle
  BY <1>9 DEF EsFindsIdle, NewestOwnsSlot, SlotBusy, InProgress, Unfinished
<1>10. CASE EsCancels
  BY <1>1, <1>10 DEF EsCancels
<1>11. CASE UNCHANGED authority
  BY <1>11 DEF authority, NewestOwnsSlot
<1> QED
  BY <1>2, <1>3, <1>4, <1>5, <1>6, <1>7, <1>8, <1>9, <1>10, <1>11, Frame
  DEF AuthorityStep

(* NewestOwnsSlot for every instance: overlapping calls, slow cleanups and  *)
(* both estop wirings included.                                             *)
THEOREM NewestRegistrantKeepsSlot == Spec => []NewestOwnsSlot
<1>1. Init => NewestOwnsSlot
  BY AuthorityAssumption DEF Init, NewestOwnsSlot, Live, Owning, Tasks
<1> QED
  BY <1>1, BaseInvariant, NewestStep, PTL DEF Spec

(* LiveOpClosesGate for every instance, likewise.                           *)
THEOREM GateClosedWhileOpFlies == Spec => []LiveOpClosesGate
<1>1. LeaseInv => LiveOpClosesGate
  BY AuthorityAssumption
  DEF LeaseInv, LiveOpClosesGate, LeaseHeld, Live, InProgress, Unfinished, Tasks
<1> QED
  BY <1>1, BaseInvariant, PTL

-----------------------------------------------------------------------------
(* How command changes hands, for a model that does not overlap its calls.  *)

(* Such a model starts no tool while anything flies; an op that waits for   *)
(* its predecessor has preempted an op then, never a call.                  *)
LEMMA ToolStartsAlone ==
  ASSUME ~ Overlap, TypeOK, LeaseInv, NEW c \in Calls, StartTool(c)
  PROVE  /\ \A t \in Tasks : ~ Live(t)
         /\ ~ (cmdPc = "preempt" /\ cmdVictim \in Calls)
BY AuthorityAssumption
DEF StartTool, LlmMayCall, Guard, LeaseHeld, LeaseInv, Live, InProgress, Unfinished, Tasks

(* The slot never holds a task that is being cancelled: a busy one flies.   *)
LEMMA BusySlotFlies ==
  ASSUME TypeOK, GenerationInv, SlotBusy
  PROVE  slot \in Tasks /\ Live(slot)
BY DEF SlotBusy, GenerationInv, Live, InProgress, Unfinished, Owning, TypeOK

(* What t.cancel() leaves of the slot's task.                               *)
LEMMA CancelTakesSlot ==
  ASSUME TypeOK, SlotBusy, CancelSlot
  PROVE  /\ slot \in Tasks /\ slot' = None /\ task'[slot] \notin Owning
         /\ \A t \in Tasks : t # slot => task'[t] = task[t]
         /\ \A t \in Tasks : InProgress(t)' => InProgress(t)
<1>1. /\ slot \in Tasks /\ InProgress(slot) /\ slot' = None
      /\ task' = [task EXCEPT ![slot] = IF task[slot] = "created" THEN "done" ELSE "unwinding"]
  BY DEF SlotBusy, CancelSlot, TypeOK
<1>2. /\ task'[slot] \in {"done", "unwinding"}
      /\ \A t \in Tasks : t # slot => task'[t] = task[t]
  BY <1>1 DEF TypeOK
<1>3. task'[slot] \notin Owning
  BY <1>2 DEF Owning
<1>4. \A t \in Tasks : InProgress(t)' => InProgress(t)
  BY <1>1, <1>2 DEF InProgress
<1> QED
  BY <1>1, <1>2, <1>3, <1>4

LEMMA OwnerInvStep ==
  ASSUME ~ Overlap
  PROVE  TypeOK /\ LeaseInv /\ OwnerInv /\ [Next]_vars => OwnerInv'
<1> SUFFICES ASSUME TypeOK, LeaseInv, OwnerInv, [Next]_vars PROVE OwnerInv'
  OBVIOUS
<1> USE AuthorityAssumption DEF OwnerInv, registry, cmdVars
<1>0. ASSUME \A c \in Calls : InProgress(c)' => InProgress(c),
             \/ cmdPc' # "preempt"
             \/ slot' = None
             \/ UNCHANGED <<cmdPc, cmdVictim, slot>>
      PROVE  OwnerInv'
  BY <1>0
<1>1. ASSUME NEW c \in Calls, StartTool(c) PROVE OwnerInv'
  <2>1. \A d \in Calls : d # c => ~ InProgress(d)'
    BY <1>1 DEF StartTool, LlmMayCall, InProgress, Tasks, TypeOK
  <2>2. ~ (cmdPc' = "preempt" /\ cmdVictim' \in Calls)
    BY <1>1, ToolStartsAlone DEF StartTool
  <2> QED
    BY <2>1, <2>2
<1>2. ASSUME NEW c \in Calls, RejectTool(c) \/ ToolReturns(c) PROVE OwnerInv'
  <2>1. \A d \in Calls : InProgress(d)' => InProgress(d)
    BY <1>2 DEF RejectTool, ToolReturns, InProgress, Unfinished, Owning, Tasks, TypeOK
  <2>2. slot' = None \/ UNCHANGED slot
    BY <1>2 DEF RejectTool, ToolReturns, Clear
  <2>3. UNCHANGED <<cmdPc, cmdVictim>>
    BY <1>2 DEF RejectTool, ToolReturns
  <2> QED
    BY <1>0, <2>1, <2>2, <2>3
<1>3. ASSUME NEW o \in Ops, LeaseStep(o) PROVE OwnerInv'
  <2>1. \A d \in Calls : InProgress(d)' => InProgress(d)
    BY <1>3 DEF LeaseStep, LeaseStarts, LeaseReturns, LeaseExpires, LeaseHolds,
                LeaseHoldEnds, InProgress, Tasks, TypeOK
  <2>2. UNCHANGED <<slot, cmdPc, cmdVictim>>
    BY <1>3 DEF LeaseStep, LeaseStarts, LeaseReturns, LeaseExpires, LeaseHolds,
                LeaseHoldEnds
  <2> QED
    BY <1>0, <2>1, <2>2
<1>4. CASE CmdTakesIdle \/ CmdTakesOver
  <2>1. Head(cmdQ) \in Ops /\ TakeLease(Head(cmdQ)) /\ cmdPc' # "preempt"
    BY <1>4, QueueHeads DEF CmdTakesIdle, CmdTakesOver, CmdAdmitted, TypeOK
  <2>2. \A d \in Calls : InProgress(d)' => InProgress(d)
    BY <2>1 DEF TakeLease, InProgress, Tasks, TypeOK
  <2> QED
    BY <1>0, <2>1, <2>2
<1>5. CASE CmdPreempts \/ EsCancels
  BY <1>0, <1>5, CancelTakesSlot DEF CmdPreempts, EsCancels, Tasks
<1>6. CASE EsFindsIdle \/ UNCHANGED authority
  BY <1>0, <1>6 DEF EsFindsIdle, authority, InProgress
<1> QED
  BY <1>1, <1>2, <1>3, <1>4, <1>5, <1>6, Frame DEF AuthorityStep

LEMMA OwnerInvariant == ASSUME ~ Overlap PROVE Spec => []OwnerInv
<1>1. Init => OwnerInv
  BY AuthorityAssumption DEF Init, OwnerInv, InProgress, Unfinished, Owning, Tasks
<1> QED
  BY <1>1, BaseInvariant, OwnerInvStep, PTL DEF Spec

(* Two tasks that fly at once are a tool call and an op, and the op is the  *)
(* one a cancel reaches: whatever the interleaving of tools, ops, estops,   *)
(* expiring leases and slow cleanups, as long as the model awaits each tool *)
(* result before its next call.                                             *)
OneOfEach ==
  /\ \A t, u \in Tasks : Live(t) /\ Live(u) /\ t # u => {t, u} \cap Calls # {}
                                                     /\ {t, u} \cap Ops # {}
  /\ \A o \in Ops : Live(o) => slot = o

THEOREM OneCommanderOfEach == ASSUME ~ Overlap PROVE Spec => []OneOfEach
<1>1. LeaseInv /\ OwnerInv => OneOfEach
  <2> SUFFICES ASSUME LeaseInv, OwnerInv PROVE OneOfEach
    OBVIOUS
  <2>1. \A o \in Ops : Live(o) => slot = o
    BY DEF LeaseInv
  <2>2. \A c, d \in Calls : Live(c) /\ Live(d) => c = d
    BY DEF OwnerInv, Live, InProgress, Unfinished
  <2> QED
    BY <2>1, <2>2 DEF OneOfEach, Tasks
<1> QED
  BY <1>1, BaseInvariant, OwnerInvariant, PTL

-----------------------------------------------------------------------------
(* Refinement of CommandHandover.                                           *)

commanding == <<Holder, Loose, HandingOver>>

(* A step after which one task does not fly, and which leaves the slot as   *)
(* it is or frees it of that task, ends a commander or none.                *)
LEMMA OneEnds ==
  ASSUME TypeOK, UNCHANGED <<cmdPc, cmdVictim>>,
         NEW t \in Tasks, ~ Live(t)',
         slot' = slot \/ (slot' = None /\ slot \in {t, None}),
         \A u \in Tasks : u # t => (Live(u)' <=> Live(u))
  PROVE  [Handover!Next]_commanding
<1> USE AuthorityAssumption DEF TypeOK
<1>1. HandingOver' = HandingOver
  BY DEF HandingOver
<1>2. CASE slot = t
  <2>1. Holder' = None /\ Loose' = Loose
    BY <1>2 DEF Holder, Loose
  <2> QED
    BY <1>1, <2>1 DEF Handover!Next, Handover!Revoke, commanding
<1>3. CASE slot # t
  <2>1. Holder' = Holder
    BY <1>3 DEF Holder, Live
  <2>2. Loose' = Loose \ {t}
    <3>1. \A u \in Tasks : (Live(u)' /\ slot' # u) <=> (u # t /\ Live(u) /\ slot # u)
      BY <1>3 DEF Tasks
    <3> QED
      BY <3>1 DEF Loose
  <2>3. CASE t \in Loose
    BY <1>1, <2>1, <2>2, <2>3 DEF Handover!Next, Handover!LooseEnds
  <2>4. CASE t \notin Loose
    BY <1>1, <2>1, <2>2, <2>4 DEF commanding
  <2> QED
    BY <2>3, <2>4
<1> QED
  BY <1>2, <1>3

(* Taking the lease: the op holds the slot, what held it is loose.          *)
LEMMA LeaseTaken ==
  ASSUME TypeOK, LeaseInv, NEW o \in Ops, TakeLease(o), cmdPc' = "poll",
         \A p \in Ops : ~ Live(p)
  PROVE  /\ Holder' = o /\ ~ HandingOver'
         /\ Holder \notin Ops
         /\ Loose' = Loose \cup (IF Holder = None THEN {} ELSE {Holder})
<1> USE AuthorityAssumption DEF TypeOK, Tasks
<1>1. slot' = o /\ Live(o)' /\ \A t \in Tasks : t # o => (Live(t)' <=> Live(t))
  BY DEF TakeLease, Register, Live, Owning
<1>2. Holder' = o /\ ~ HandingOver' /\ Holder \notin Ops
  BY <1>1 DEF Holder, HandingOver
<1>3. Loose' = {t \in Tasks : Live(t)}
  BY <1>1 DEF Loose
<1>4. {t \in Tasks : Live(t)} = Loose \cup (IF Holder = None THEN {} ELSE {Holder})
  BY DEF Loose, Holder
<1> QED
  BY <1>2, <1>3, <1>4

LEMMA HandoverStep ==
  ASSUME ~ Overlap
  PROVE  TypeOK /\ GenerationInv /\ LeaseInv /\ OwnerInv /\ [Next]_vars
         => [Handover!Next]_commanding
<1> SUFFICES ASSUME TypeOK, GenerationInv, LeaseInv, OwnerInv, [Next]_vars
             PROVE  [Handover!Next]_commanding
  OBVIOUS
<1> USE AuthorityAssumption DEF registry, cmdVars
<1>1. ASSUME NEW c \in Calls, StartTool(c) PROVE Handover!Next
  <2>1. \A t \in Tasks : ~ Live(t)
    BY <1>1, ToolStartsAlone
  <2>2. slot' = c /\ Live(c)' /\ \A t \in Tasks : t # c => ~ Live(t)'
    BY <1>1, <2>1 DEF StartTool, Register, Live, Owning, Tasks, TypeOK
  <2>3. Holder = None /\ Loose = {}
    BY <2>1 DEF Holder, Loose, TypeOK
  <2>4. Holder' = c /\ Loose' = {}
    BY <2>2 DEF Holder, Loose, Tasks
  <2>5. HandingOver' = HandingOver
    BY <1>1 DEF StartTool, HandingOver
  <2> QED
    BY <2>3, <2>4, <2>5 DEF Handover!Next, Handover!GrantCall
<1>2. ASSUME NEW c \in Calls, RejectTool(c) PROVE [Handover!Next]_commanding
  <2>1. c \in Tasks /\ ~ Live(c)' /\ UNCHANGED <<slot, cmdPc, cmdVictim>>
    BY <1>2 DEF RejectTool, Live, Owning, Tasks, TypeOK
  <2>2. \A u \in Tasks : u # c => (Live(u)' <=> Live(u))
    BY <1>2 DEF RejectTool, Live, TypeOK
  <2> QED
    BY <2>1, <2>2, OneEnds
<1>3. ASSUME NEW c \in Calls, ToolReturns(c) PROVE [Handover!Next]_commanding
  <2>1. c \in Tasks /\ ~ Live(c)' /\ UNCHANGED <<cmdPc, cmdVictim>>
    BY <1>3 DEF ToolReturns, Live, Owning, Tasks, TypeOK
  <2>2. \A u \in Tasks : u # c => (Live(u)' <=> Live(u))
    BY <1>3 DEF ToolReturns, Live, TypeOK
  <2>3. slot' = slot \/ (slot' = None /\ slot \in {c, None})
    BY <1>3, ClearIsOwn DEF ToolReturns, Clear, TypeOK
  <2> QED
    BY <2>1, <2>2, <2>3, OneEnds
<1>4. ASSUME NEW o \in Ops, LeaseStep(o) PROVE [Handover!Next]_commanding
  <2>1. o \in Tasks /\ UNCHANGED <<slot, cmdPc, cmdVictim>>
    BY <1>4 DEF LeaseStep, LeaseStarts, LeaseReturns, LeaseExpires, LeaseHolds,
                LeaseHoldEnds, Tasks
  <2>2. \A u \in Tasks : u # o => (Live(u)' <=> Live(u))
    BY <1>4 DEF LeaseStep, LeaseStarts, LeaseReturns, LeaseExpires, LeaseHolds,
                LeaseHoldEnds, Live, TypeOK
  <2>3. CASE Live(o)'
    <3>1. Live(o)
      BY <1>4, <2>3 DEF LeaseStep, LeaseStarts, LeaseReturns, LeaseExpires, LeaseHolds,
                        LeaseHoldEnds, Live, Owning, TypeOK, Tasks
    <3>2. \A u \in Tasks : Live(u)' <=> Live(u)
      BY <2>2, <2>3, <3>1
    <3>3. Holder' = Holder /\ Loose' = Loose /\ HandingOver' = HandingOver
      BY <2>1, <3>2 DEF Holder, Loose, HandingOver, TypeOK
    <3> QED
      BY <3>3 DEF commanding
  <2>4. CASE ~ Live(o)'
    BY <2>1, <2>2, <2>4, OneEnds
  <2> QED
    BY <2>3, <2>4
<1>5. CASE CmdTakesIdle
  <2>1. Head(cmdQ) \in Ops /\ TakeLease(Head(cmdQ)) /\ cmdPc' = "poll"
    BY <1>5, QueueHeads DEF CmdTakesIdle, CmdAdmitted
  <2>2. Holder = None
    BY <1>5 DEF CmdTakesIdle, SlotBusy, Holder, Live, InProgress, Unfinished
  <2>3. \A p \in Ops : ~ Live(p)
    BY <2>2 DEF LeaseInv, Holder, Tasks
  <2>4. Holder' = Head(cmdQ) /\ Loose' = Loose /\ HandingOver' = FALSE
    BY <2>1, <2>2, <2>3, LeaseTaken DEF HandingOver
  <2> QED
    BY <2>1, <2>2, <2>4 DEF Handover!Next, Handover!GrantOp
<1>6. CASE CmdTakesOver
  <2>1. /\ Head(cmdQ) \in Ops /\ TakeLease(Head(cmdQ)) /\ cmdPc' = "poll"
        /\ cmdPc = "preempt" /\ cmdVictim \in Tasks
    BY <1>6, QueueHeads DEF CmdTakesOver, TypeOK
  <2>2. \A p \in Ops : ~ Live(p)
    BY <2>1 DEF LeaseInv
  <2>3. /\ Holder' = Head(cmdQ) /\ HandingOver' = FALSE /\ Holder \notin Ops
        /\ Loose' = Loose \cup (IF Holder = None THEN {} ELSE {Holder})
    BY <2>1, <2>2, LeaseTaken DEF HandingOver
  <2>4. CASE Holder = None
    BY <2>1, <2>3, <2>4 DEF Handover!Next, Handover!GrantOp
  <2>5. CASE Holder # None
    <3>1. slot # None /\ Holder = slot /\ slot \in Calls
      BY <2>3, <2>5 DEF Holder, TypeOK, Tasks
    <3>2. HandingOver
      BY <2>1, <3>1 DEF OwnerInv, HandingOver, Tasks
    <3> QED
      BY <2>1, <2>3, <2>5, <3>1, <3>2 DEF Handover!Next, Handover!Overtake
  <2> QED
    BY <2>4, <2>5
<1>7. ASSUME SlotBusy, CancelSlot
      PROVE  Holder = slot /\ slot \in Tasks /\ Holder' = None /\ Loose' = Loose
  <2>1. slot \in Tasks /\ Holder = slot
    BY <1>7, BusySlotFlies DEF Holder
  <2>2. slot' = None /\ \A t \in Tasks : t # slot => task'[t] = task[t]
    BY <1>7, CancelTakesSlot
  <2>3. Holder' = None
    BY <2>2 DEF Holder
  <2>4. \A t \in Tasks : (Live(t)' /\ slot' # t) <=> (Live(t) /\ slot # t)
    BY <1>7, <2>1, <2>2, CancelTakesSlot DEF Live
  <2>5. Loose' = Loose
    BY <2>4 DEF Loose
  <2> QED
    BY <2>1, <2>3, <2>5
<1>8. CASE CmdPreempts
  <2>1. Holder = slot /\ slot \in Tasks /\ Holder' = None /\ Loose' = Loose
    BY <1>7, <1>8 DEF CmdPreempts
  <2>2. HandingOver = FALSE
    BY <1>8 DEF CmdPreempts, CmdAdmitted, HandingOver
  <2>3. HandingOver' = FALSE \/ (slot \in Ops /\ HandingOver' = TRUE)
    BY <1>8 DEF CmdPreempts, HandingOver
  <2>4. Holder # None
    BY <2>1 DEF Tasks
  <2> QED
    BY <2>1, <2>2, <2>3, <2>4 DEF Handover!Next, Handover!Revoke
<1>9. CASE EsCancels
  <2>1. Holder = slot /\ slot \in Tasks /\ Holder' = None /\ Loose' = Loose
    BY <1>7, <1>9 DEF EsCancels
  <2>2. HandingOver' = HandingOver
    BY <1>9 DEF EsCancels, HandingOver
  <2> QED
    BY <2>1, <2>2 DEF Handover!Next, Handover!Revoke, Tasks
<1>10. CASE EsFindsIdle
  <2>1. Holder = None /\ Holder' = None
    BY <1>10 DEF EsFindsIdle, SlotBusy, Holder, Live, InProgress, Unfinished
  <2>2. \A t \in Tasks : (Live(t)' /\ slot' # t) <=> (Live(t) /\ slot # t)
    BY <1>10, <2>1 DEF EsFindsIdle, Live, Holder, Tasks
  <2>3. Loose' = Loose /\ HandingOver' = HandingOver
    BY <1>10, <2>2 DEF EsFindsIdle, Loose, HandingOver
  <2> QED
    BY <2>1, <2>3 DEF commanding
<1>11. CASE UNCHANGED authority
  BY <1>11 DEF authority, commanding, Holder, Loose, HandingOver, Live
<1> QED
  BY <1>1, <1>2, <1>3, <1>4, <1>5, <1>6, <1>8, <1>9, <1>10, <1>11, Frame
  DEF AuthorityStep

(* The registry, the arbiter and the tool wrapper implement the abstract    *)
(* arbiter of CommandHandover, for a model that awaits each tool result:    *)
(* the call overtaken in an op's handover to the next is the only commander *)
(* that ever escapes a cancel.                                              *)
THEOREM Refinement == ASSUME ~ Overlap PROVE Spec => ImplementsHandover
<1>1. Init => Handover!Init
  BY AuthorityAssumption
  DEF Init, Handover!Init, Holder, Loose, HandingOver, Live, Owning, Tasks
<1>2. Init /\ [][Next]_vars => [][Handover!Next]_commanding
  BY HandoverStep, BaseInvariant, OwnerInvariant, PTL DEF Spec
<1>3. [][Handover!Next]_commanding => [][Handover!Next]_Handover!command
  BY DEF commanding, Handover!command
<1> QED
  BY <1>1, <1>2, <1>3, PTL DEF Spec, ImplementsHandover, Handover!Spec

-----------------------------------------------------------------------------
(* What the estop cancelled never moves the drone again, when its cleanup   *)
(* fits the 5 s wait.                                                       *)

(* Handling the line at the head of the queue settles that line only.       *)
LEMMA HeadSettled ==
  ASSUME TypeOK, LineInv, cmdQ # <<>>,
         NEW answer \in {"ok", "refused", "dropped"}, CmdAnswer(answer),
         \A o \in Ops : o # Head(cmdQ) => task'[o] = task[o]
  PROVE  LineInv'
<1> USE DEF TypeOK, Lines, Tasks
<1>1. /\ Head(cmdQ) \in Ops /\ Head(cmdQ) = cmdQ[1]
      /\ Len(cmdQ') = Len(cmdQ) - 1
      /\ \A i \in 1..Len(cmdQ') : cmdQ'[i] = cmdQ[i + 1]
      /\ Len(cmdQ) \in Nat
  BY HeadTailProperties DEF CmdAnswer
<1>2. \A o \in Ops : IF o = Head(cmdQ) THEN line'[o] = answer ELSE line'[o] = line[o]
  BY <1>1 DEF CmdAnswer
<1>3. \A o \in Ops : line'[o] \in {"unsent", "queued"} => task'[o] = "idle"
  BY <1>2 DEF LineInv
<1>4. \A i \in 1..Len(cmdQ') : line'[cmdQ'[i]] = "queued"
  <2> SUFFICES ASSUME NEW i \in 1..Len(cmdQ') PROVE line'[cmdQ'[i]] = "queued"
    OBVIOUS
  <2>1. cmdQ'[i] = cmdQ[i + 1] /\ i + 1 \in 1..Len(cmdQ) /\ 1 \in 1..Len(cmdQ)
    BY <1>1
  <2>2. cmdQ[i + 1] # cmdQ[1] /\ line[cmdQ[i + 1]] = "queued" /\ cmdQ[i + 1] \in Ops
    BY <2>1 DEF LineInv
  <2> QED
    BY <1>1, <1>2, <2>1, <2>2
<1>5. \A i, j \in 1..Len(cmdQ') : cmdQ'[i] = cmdQ'[j] => i = j
  <2> SUFFICES ASSUME NEW i \in 1..Len(cmdQ'), NEW j \in 1..Len(cmdQ'), cmdQ'[i] = cmdQ'[j]
               PROVE  i = j
    OBVIOUS
  <2>1. i + 1 \in 1..Len(cmdQ) /\ j + 1 \in 1..Len(cmdQ) /\ cmdQ[i + 1] = cmdQ[j + 1]
    BY <1>1
  <2>2. i + 1 = j + 1
    BY <2>1 DEF LineInv
  <2> QED
    BY <2>2
<1> QED
  BY <1>3, <1>4, <1>5 DEF LineInv

LEMMA LineStep == TypeOK /\ LineInv /\ [Next]_vars => LineInv'
<1> SUFFICES ASSUME TypeOK, LineInv, [Next]_vars PROVE LineInv'
  OBVIOUS
<1> USE AuthorityAssumption DEF TypeOK, Tasks, Lines, cmdVars, estopVars
<1>1. ASSUME UNCHANGED cmdQ, \A o \in Ops : line'[o] = line[o],
             \A o \in Ops : task[o] = "idle" => task'[o] = "idle"
      PROVE  LineInv'
  BY <1>1, ElementOfSeq DEF LineInv
<1>2. ASSUME NEW c \in Calls, ToolStep(c) PROVE LineInv'
  BY <1>1, <1>2 DEF ToolStep, StartTool, RejectTool, ToolReturns
<1>3. ASSUME NEW o \in Ops, LeaseStep(o) PROVE LineInv'
  BY <1>1, <1>3 DEF LeaseStep, LeaseStarts, LeaseReturns, LeaseExpires, LeaseHolds,
                    LeaseHoldEnds
<1>4. ASSUME NEW o \in Ops, Click(o) PROVE LineInv'
  <2>1. /\ cmdQ' \in Seq(Ops) /\ Len(cmdQ') = Len(cmdQ) + 1 /\ Len(cmdQ) \in Nat
        /\ \A i \in 1..Len(cmdQ) : cmdQ'[i] = cmdQ[i]
        /\ cmdQ'[Len(cmdQ) + 1] = o
    BY <1>4, AppendProperties DEF Click
  <2>2. \A i \in 1..Len(cmdQ) : cmdQ[i] # o /\ cmdQ[i] \in Ops
    BY <1>4 DEF Click, LineInv
  <2>3. \A p \in Ops : line'[p] = IF p = o THEN "queued" ELSE line[p]
    BY <1>4 DEF Click
  <2>4. \A p \in Ops : line'[p] \in {"unsent", "queued"} => task'[p] = "idle"
    BY <1>4, <2>3 DEF Click, LineInv
  <2>5. \A i \in 1..Len(cmdQ') : line'[cmdQ'[i]] = "queued"
    <3> SUFFICES ASSUME NEW i \in 1..Len(cmdQ') PROVE line'[cmdQ'[i]] = "queued"
      OBVIOUS
    <3>1. CASE i = Len(cmdQ) + 1
      BY <2>1, <2>3, <3>1
    <3>2. CASE i \in 1..Len(cmdQ)
      <4>1. cmdQ'[i] = cmdQ[i] /\ cmdQ[i] \in Ops /\ line[cmdQ[i]] = "queued"
        BY <2>1, <2>2, <3>2 DEF LineInv
      <4> QED
        BY <2>3, <4>1
    <3> QED
      BY <2>1, <3>1, <3>2
  <2>6. \A i, j \in 1..Len(cmdQ') : cmdQ'[i] = cmdQ'[j] => i = j
    <3> SUFFICES ASSUME NEW i \in 1..Len(cmdQ'), NEW j \in 1..Len(cmdQ'), cmdQ'[i] = cmdQ'[j]
                 PROVE  i = j
      OBVIOUS
    <3>1. CASE i \in 1..Len(cmdQ) /\ j \in 1..Len(cmdQ)
      <4>1. cmdQ[i] = cmdQ[j]
        BY <2>1, <3>1
      <4> QED
        BY <3>1, <4>1 DEF LineInv
    <3>2. CASE i = Len(cmdQ) + 1 /\ j \in 1..Len(cmdQ)
      BY <2>1, <2>2, <3>2
    <3>3. CASE j = Len(cmdQ) + 1 /\ i \in 1..Len(cmdQ)
      BY <2>1, <2>2, <3>3
    <3>4. (i = Len(cmdQ) + 1 \/ i \in 1..Len(cmdQ)) /\ (j = Len(cmdQ) + 1 \/ j \in 1..Len(cmdQ))
      BY <2>1
    <3> QED
      BY <3>1, <3>2, <3>3, <3>4
  <2> QED
    BY <2>4, <2>5, <2>6 DEF LineInv
<1>5. ASSUME NEW t \in Tasks, Command(t) \/ OrphanEnds(t) PROVE LineInv'
  BY <1>1, <1>5 DEF Command, OrphanEnds
<1>6. ASSUME NEW e \in Estops, Press(e) PROVE LineInv'
  BY <1>1, <1>6 DEF Press
<1>7. CASE CmdRefuse
  BY <1>7, HeadSettled DEF CmdRefuse
<1>8. CASE CmdTakesIdle \/ CmdTakesOver
  <2>1. TakeLease(Head(cmdQ)) /\ cmdQ # <<>>
    BY <1>8 DEF CmdTakesIdle, CmdAdmitted, CmdTakesOver
  <2> QED
    BY <2>1, HeadSettled DEF TakeLease
<1>9. CASE CmdPreempts
  BY <1>1, <1>9 DEF CmdPreempts, CancelSlot, SlotBusy, InProgress, Unfinished, Owning
<1>10. CASE EsCancels
  BY <1>1, <1>10 DEF EsCancels, CancelSlot, SlotBusy, InProgress, Unfinished, Owning
<1>11. CASE EsFindsIdle \/ EsResumes \/ EsPauses
  BY <1>1, <1>11 DEF EsFindsIdle, EsResumes, EsPauses
<1>12. CASE EsActs
  BY <1>1, <1>12, QueueHeads DEF EsActs
<1>13. CASE Release \/ Quiescent \/ UNCHANGED vars
  BY <1>1, <1>13 DEF Release, Quiescent, vars
<1> QED
  BY <1>2, <1>3, <1>4, <1>5, <1>6, <1>7, <1>8, <1>9, <1>10, <1>11, <1>12, <1>13
  DEF Next, CmdStep, EsStep

LEMMA VictimInvStep ==
  TypeOK /\ GenerationInv /\ LineInv /\ VictimInv /\ [Next]_vars => VictimInv'
<1> SUFFICES ASSUME TypeOK, GenerationInv, LineInv, VictimInv, [Next]_vars
             PROVE  VictimInv'
  OBVIOUS
<1> USE AuthorityAssumption DEF TypeOK, Tasks, cmdVars, estopVars
(* A victim is unwinding or done: no step brings it back.                   *)
<1>1. ASSUME UNCHANGED <<esVictim, esPc>>,
             \A t \in Tasks : task[t] = "done" => task'[t] = "done",
             \A t \in Tasks : task[t] = "unwinding" => task'[t] \in {"unwinding", "done"}
      PROVE  VictimInv'
  BY <1>1 DEF VictimInv
<1>2. ASSUME NEW c \in Calls, ToolStep(c) PROVE VictimInv'
  BY <1>1, <1>2 DEF ToolStep, StartTool, RejectTool, ToolReturns
<1>3. ASSUME NEW o \in Ops, LeaseStep(o) PROVE VictimInv'
  BY <1>1, <1>3 DEF LeaseStep, LeaseStarts, LeaseReturns, LeaseExpires, LeaseHolds,
                    LeaseHoldEnds
<1>4. CASE CmdTakesIdle \/ CmdTakesOver
  <2>1. cmdQ # <<>> /\ TakeLease(Head(cmdQ)) /\ UNCHANGED <<esVictim, esPc>>
    BY <1>4 DEF CmdTakesIdle, CmdAdmitted, CmdTakesOver
  <2>2. Head(cmdQ) \in Ops /\ Head(cmdQ) = cmdQ[1] /\ 1 \in 1..Len(cmdQ)
    BY <2>1, QueueHeads
  <2>3. line[cmdQ[1]] = "queued"
    BY <2>2 DEF LineInv
  <2>4. task[Head(cmdQ)] = "idle"
    BY <2>2, <2>3 DEF LineInv
  <2> QED
    BY <1>1, <2>1, <2>2, <2>4 DEF TakeLease
<1>5. CASE CmdPreempts
  <2>1. /\ slot \in Tasks /\ task[slot] \in Owning
        /\ task' = [task EXCEPT ![slot] = IF task[slot] = "created" THEN "done" ELSE "unwinding"]
        /\ UNCHANGED <<esVictim, esPc>>
    BY <1>5 DEF CmdPreempts, CancelSlot, SlotBusy, InProgress, Unfinished, Owning, GenerationInv
  <2> QED
    BY <1>1, <2>1 DEF Owning
<1>6. CASE EsCancels
  BY <1>6 DEF EsCancels, CancelSlot, SlotBusy, InProgress, VictimInv
<1>7. CASE EsFindsIdle
  BY <1>7 DEF EsFindsIdle, VictimInv
<1>8. CASE EsResumes
  BY <1>8 DEF EsResumes, WaitOver, InProgress, Unfinished, VictimInv
<1>9. CASE EsPauses
  BY <1>9 DEF EsPauses, EsActs, VictimInv
<1>10. CASE EsActs
  BY <1>10 DEF EsActs, VictimInv
<1>11. ASSUME UNCHANGED <<task, esVictim, esPc>> PROVE VictimInv'
  BY <1>1, <1>11
<1> QED
  BY <1>2, <1>3, <1>4, <1>5, <1>6, <1>7, <1>8, <1>9, <1>10, <1>11
  DEF Next, CmdStep, EsStep, CmdRefuse, Click, Press, Command, OrphanEnds, Release,
      Quiescent, vars

LEMMA VictimInvariant == Spec => [](LineInv /\ VictimInv)
<1>1. Init => LineInv /\ VictimInv
  BY DEF Init, LineInv, VictimInv, Tasks, Lines
<1> QED
  BY <1>1, BaseInvariant, LineStep, VictimInvStep, PTL DEF Spec

(* Whatever the task an estop cancelled was doing, no flight command of its *)
(* reaches PX4 once pause_mission and the emergency action are under way,   *)
(* unless its cleanup outlasts the 5 s of cancel_current.                   *)
THEOREM CancelledStaysStopped == Spec => VictimStaysStopped
<1> DEFINE Quiet == esPc # "preempt" /\ esVictim \notin Slow \cup {None}
                      /\ vehicle' # vehicle => vehicle' # esVictim
<1>1. TypeOK /\ VictimInv /\ [Next]_vars => Quiet
  <2> SUFFICES ASSUME TypeOK, VictimInv, [Next]_vars, esPc # "preempt",
                      esVictim \notin Slow \cup {None}, vehicle' # vehicle
               PROVE  vehicle' # esVictim
    OBVIOUS
  <2> USE AuthorityAssumption DEF TypeOK
  <2>1. esVictim \in Tasks /\ task[esVictim] = "done" /\ esVictim \notin {"hold", "land"}
    BY DEF VictimInv
  <2>2. ASSUME NEW t \in Tasks, Command(t) PROVE vehicle' # esVictim
    BY <2>1, <2>2 DEF Command
  <2>3. ASSUME vehicle' \in {"hold", "land"} PROVE vehicle' # esVictim
    BY <2>1, <2>3
  <2>4. ASSUME NEW o \in Ops, LeaseStep(o) PROVE vehicle' # esVictim
    BY <2>3, <2>4 DEF LeaseStep, LeaseStarts, LeaseReturns, LeaseExpires, LeaseHolds,
                      LeaseHoldEnds
  <2>5. CASE EsPauses \/ EsActs
    BY <2>3, <2>5 DEF EsPauses, EsActs, Emergency
  <2>6. ASSUME NEW t \in Tasks, OrphanEnds(t) PROVE vehicle' # esVictim
    BY <2>3, <2>6 DEF OrphanEnds
  <2> QED
    BY <2>2, <2>4, <2>5, <2>6
    DEF Next, ToolStep, StartTool, RejectTool, ToolReturns, Click, Press, CmdStep, CmdRefuse,
        CmdTakesIdle, CmdPreempts, CmdTakesOver, EsStep, EsFindsIdle, EsCancels, EsResumes,
        Release, Quiescent, vars
<1>2. Spec => [][Quiet]_vars
  BY <1>1, BaseInvariant, VictimInvariant, PTL DEF Spec
<1> QED
  BY <1>2 DEF VictimStaysStopped
=============================================================================
