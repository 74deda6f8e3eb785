---------------------------- MODULE PilotProcess ----------------------------
(***************************************************************************)
(* The pilot process and its session with the model: the single-instance    *)
(* lock, the boot (pilot/run.py), the operator's command topic, the command *)
(* loop beside the two supervisors (pilot/agent.py), and the Codex session  *)
(* it runs in (flight/codex_backend.py), a stack of a work directory, a     *)
(* loopback MCP server with the flight tools, the SDK and its thread.       *)
(* Processes start, fail, crash and are started again, two at once if the   *)
(* operator tries; the topic is volatile, so a command reaches the          *)
(* subscribers of that moment and nobody later.                             *)
(***************************************************************************)
EXTENDS Naturals, Sequences, SequencesExt

CONSTANTS
  Pilots,   \* processes the operator may have started
  NoPilot,  \* nobody holds the lock file
  MaxCmd,   \* bound: the commands the operator gives, numbered from 1
  MaxStart  \* bound: how often a process is started

ASSUME PilotAssumption == NoPilot \notin Pilots /\ MaxCmd \in Nat /\ MaxStart \in Nat

(* The session's parts in the order of __aenter__.                          *)
Parts == <<"tmpdir", "mcp", "sdk", "thread">>
Levels == 0 .. Len(Parts)

VARIABLES
  started,  \* processes started so far
  holder,   \* the process that holds the lock file
  at,       \* "off", "boot", "connect", "enter", "run", "cleanup"
  sent,     \* the newest command
  log,      \* TopicLog._items
  seen,     \* PilotAgent._seen
  todo,     \* the commands the loop took in this turn and has not begun
  level,    \* how many of Parts the session has
  turn,     \* is a model turn in progress at the provider?
  query,    \* the command whose query the loop awaits, 0 for none
  loop,     \* is the command loop's task alive?
  guard,    \* is the estop supervisor's task alive?
  begun     \* history: the commands ever handed to a model, in that order

session == <<level, turn, query, loop, guard>>
inbox == <<log, seen, todo>>
vars == <<started, holder, at, sent, inbox, session, begun>>

-----------------------------------------------------------------------------
(* Mutant of Start: the lock file is opened, not locked.                    *)
StartUnlocked(p) ==
  /\ at[p] = "off" /\ started < MaxStart
  /\ started' = started + 1
  /\ holder' = p
  /\ at' = [at EXCEPT ![p] = "boot"]
  /\ log' = [log EXCEPT ![p] = <<>>]
  /\ seen' = [seen EXCEPT ![p] = 0]
  /\ UNCHANGED <<sent, todo, session, begun>>

(* acquire_singleton_lock: the other process is told so and exits.          *)
Start(p) ==
  /\ at[p] = "off" /\ started < MaxStart /\ holder = NoPilot
  /\ started' = started + 1
  /\ holder' = p
  /\ at' = [at EXCEPT ![p] = "boot"]
  /\ log' = [log EXCEPT ![p] = <<>>]
  /\ seen' = [seen EXCEPT ![p] = 0]
  /\ UNCHANGED <<sent, todo, session, begun>>

(* The process is gone, by itself or killed, and the system frees its lock. *)
Ends(p) ==
  /\ at' = [at EXCEPT ![p] = "off"]
  /\ holder' = IF holder = p THEN NoPilot ELSE holder
  /\ todo' = [todo EXCEPT ![p] = <<>>]
  /\ level' = [level EXCEPT ![p] = 0]
  /\ turn' = [turn EXCEPT ![p] = FALSE]
  /\ query' = [query EXCEPT ![p] = 0]
  /\ loop' = [loop EXCEPT ![p] = FALSE]
  /\ guard' = [guard EXCEPT ![p] = FALSE]
  /\ UNCHANGED <<started, sent, log, seen, begun>>

Crash(p) == at[p] # "off" /\ Ends(p)

(* A backend that is not one, or a Kimi tier without its CLI, raises when   *)
(* the agent is built; a perception that does not boot does not.            *)
BootFails(p) == at[p] = "boot" /\ Ends(p)

Boots(p) ==
  /\ at[p] = "boot"
  /\ at' = [at EXCEPT ![p] = "connect"]
  /\ UNCHANGED <<started, holder, sent, inbox, session, begun>>

(* The operator's command on /pilot/user_input.                             *)
Send ==
  /\ sent < MaxCmd
  /\ sent' = sent + 1
  /\ log' = [p \in Pilots |-> IF at[p] = "off" THEN log[p] ELSE Append(log[p], sent')]
  /\ UNCHANGED <<started, holder, at, seen, todo, session, begun>>

(* connect() is through, and run() skips what came in before it.            *)
Connected(p) ==
  /\ at[p] = "connect"
  /\ at' = [at EXCEPT ![p] = "enter"]
  /\ seen' = [seen EXCEPT ![p] = Len(log[p])]
  /\ UNCHANGED <<started, holder, sent, log, todo, session, begun>>

-----------------------------------------------------------------------------
(* CodexBackendClient.__aenter__, part by part.                             *)
EnterPart(p) ==
  /\ at[p] = "enter" /\ level[p] < Len(Parts)
  /\ level' = [level EXCEPT ![p] = @ + 1]
  /\ UNCHANGED <<started, holder, at, sent, inbox, turn, query, loop, guard, begun>>

(* Without credentials, or with an MCP server that does not come up, nothing*)
(* is cleaned up; later failures go through _cleanup.                       *)
EnterFails(p) ==
  /\ at[p] = "enter" /\ level[p] < Len(Parts)
  /\ IF level[p] < 2 THEN Ends(p)
     ELSE /\ at' = [at EXCEPT ![p] = "cleanup"]
          /\ UNCHANGED <<started, holder, sent, inbox, session, begun>>

(* gather: the loop and the two supervisors.                                *)
Entered(p) ==
  /\ at[p] = "enter" /\ level[p] = Len(Parts)
  /\ at' = [at EXCEPT ![p] = "run"]
  /\ loop' = [loop EXCEPT ![p] = TRUE]
  /\ guard' = [guard EXCEPT ![p] = TRUE]
  /\ UNCHANGED <<started, holder, sent, inbox, level, turn, query, begun>>

-----------------------------------------------------------------------------
(* Mutant of Poll: the cursor is left where it was.                         *)
PollAgain(p) ==
  /\ loop[p] /\ query[p] = 0 /\ todo[p] = <<>> /\ seen[p] < Len(log[p])
  /\ todo' = [todo EXCEPT ![p] = SubSeq(log[p], seen[p] + 1, Len(log[p]))]
  /\ UNCHANGED <<started, holder, at, sent, log, seen, session, begun>>

(* Mutant of Poll: only the newest of the commands is taken.                *)
PollNewest(p) ==
  /\ loop[p] /\ query[p] = 0 /\ todo[p] = <<>> /\ seen[p] < Len(log[p])
  /\ todo' = [todo EXCEPT ![p] = <<Last(log[p])>>]
  /\ seen' = [seen EXCEPT ![p] = Len(log[p])]
  /\ UNCHANGED <<started, holder, at, sent, log, session, begun>>

(* TopicLog.since in the loop's turn, a second after the one before.        *)
Poll(p) ==
  /\ loop[p] /\ query[p] = 0 /\ todo[p] = <<>> /\ seen[p] < Len(log[p])
  /\ todo' = [todo EXCEPT ![p] = SubSeq(log[p], seen[p] + 1, Len(log[p]))]
  /\ seen' = [seen EXCEPT ![p] = Len(log[p])]
  /\ UNCHANGED <<started, holder, at, sent, log, session, begun>>

Query(p) ==
  /\ loop[p] /\ query[p] = 0 /\ todo[p] # <<>> /\ level[p] >= 3
  /\ query' = [query EXCEPT ![p] = Head(todo[p])]
  /\ todo' = [todo EXCEPT ![p] = Tail(@)]
  /\ turn' = [turn EXCEPT ![p] = TRUE]
  /\ begun' = Append(begun, Head(todo[p]))
  /\ UNCHANGED <<started, holder, at, sent, log, seen, level, loop, guard>>

(* The stream ends with a completed turn, one that failed included: a       *)
(* Result with is_error is no exception, and the next command follows.      *)
QueryEnds(p) ==
  /\ query[p] # 0
  /\ query' = [query EXCEPT ![p] = 0]
  /\ turn' = [turn EXCEPT ![p] = FALSE]
  /\ UNCHANGED <<started, holder, at, sent, inbox, level, loop, guard, begun>>

(* The stream raises, or ends without its TurnCompleted, or the session is  *)
(* closed by now: the loop's task is gone, with the commands it had taken,  *)
(* and through gather and `async with` the process is on its way out.       *)
(* gather cancels nobody: the supervisors go on until the loop is closed.   *)
QueryRaises(p) ==
  /\ loop[p] /\ (query[p] # 0 \/ (todo[p] # <<>> /\ level[p] < 3))
  /\ at' = [at EXCEPT ![p] = "cleanup"]
  /\ query' = [query EXCEPT ![p] = 0]
  /\ todo' = [todo EXCEPT ![p] = <<>>]
  /\ loop' = [loop EXCEPT ![p] = FALSE]
  /\ UNCHANGED <<started, holder, sent, log, seen, level, turn, guard, begun>>

(* Mutant of SupervisorRaises: gather(..., return_exceptions=True).         *)
RaiseKept(p) ==
  /\ at[p] \in {"run", "cleanup"} /\ guard[p]
  /\ \E estop \in BOOLEAN : guard' = [guard EXCEPT ![p] = estop]
  /\ UNCHANGED <<started, holder, at, sent, inbox, level, turn, query, loop, begun>>

(* A supervisor itself raises, from a publish or its subscription: the      *)
(* estop supervisor, which is then gone, or the command supervisor.  The    *)
(* command loop goes on beside the clean-up, and so does the model's turn.  *)
SupervisorRaises(p) ==
  /\ at[p] \in {"run", "cleanup"} /\ guard[p]
  /\ at' = [at EXCEPT ![p] = "cleanup"]
  /\ \E estop \in BOOLEAN : guard' = [guard EXCEPT ![p] = estop]
  /\ UNCHANGED <<started, holder, sent, inbox, level, turn, query, loop, begun>>

(* SIGINT: asyncio.run cancels main(), gather cancels all three tasks, and  *)
(* the turn at the provider lives until the SDK is closed.                  *)
Interrupt(p) ==
  /\ at[p] = "run"
  /\ at' = [at EXCEPT ![p] = "cleanup"]
  /\ query' = [query EXCEPT ![p] = 0]
  /\ todo' = [todo EXCEPT ![p] = <<>>]
  /\ loop' = [loop EXCEPT ![p] = FALSE]
  /\ guard' = [guard EXCEPT ![p] = FALSE]
  /\ UNCHANGED <<started, holder, sent, log, seen, level, turn, begun>>

(* _cleanup: the SDK with its thread, the MCP server, the work directory,   *)
(* each whatever the one before raised.                                     *)
Closes(p) == IF level[p] >= 3 THEN 2 ELSE level[p] - 1

CloseNext(p) ==
  /\ at[p] = "cleanup" /\ level[p] > 0
  /\ level' = [level EXCEPT ![p] = Closes(p)]
  /\ turn' = [turn EXCEPT ![p] = @ /\ level'[p] >= 3]
  /\ UNCHANGED <<started, holder, at, sent, inbox, query, loop, guard, begun>>

Exits(p) == at[p] = "cleanup" /\ level[p] = 0 /\ Ends(p)

-----------------------------------------------------------------------------
Init ==
  /\ started = 0 /\ holder = NoPilot /\ sent = 0 /\ begun = <<>>
  /\ at = [p \in Pilots |-> "off"]
  /\ log = [p \in Pilots |-> <<>>]
  /\ seen = [p \in Pilots |-> 0]
  /\ todo = [p \in Pilots |-> <<>>]
  /\ level = [p \in Pilots |-> 0]
  /\ turn = [p \in Pilots |-> FALSE]
  /\ query = [p \in Pilots |-> 0]
  /\ loop = [p \in Pilots |-> FALSE]
  /\ guard = [p \in Pilots |-> FALSE]

LoopGoesOn(p) == Poll(p) \/ Query(p)
QueryOver(p) == QueryEnds(p) \/ QueryRaises(p)
CleanupGoesOn(p) == CloseNext(p) \/ Exits(p)

Next ==
  \/ Send
  \/ \E p \in Pilots :
       \/ Start(p) \/ Boots(p) \/ BootFails(p) \/ Crash(p) \/ Connected(p)
       \/ EnterPart(p) \/ EnterFails(p) \/ Entered(p)
       \/ LoopGoesOn(p) \/ QueryOver(p) \/ CleanupGoesOn(p)
       \/ SupervisorRaises(p) \/ Interrupt(p)

(* The event loop runs what is due, and a model's turn comes to an end.  No *)
(* fairness for what fails, or for the operator.                            *)
Fairness == \A p \in Pilots :
  WF_vars(LoopGoesOn(p)) /\ WF_vars(QueryOver(p)) /\ WF_vars(CleanupGoesOn(p))

Spec == Init /\ [][Next]_vars
FairSpec == Spec /\ Fairness

-----------------------------------------------------------------------------
Cmds == 1 .. MaxCmd
Numbers(s) == \A i \in 1 .. Len(s) : s[i] \in Cmds

(* Every variable keeps its type; only the process that holds the lock file *)
(* is alive, and nobody runs without the whole session.                     *)
TypeOK ==
  /\ started \in 0 .. MaxStart /\ holder \in Pilots \cup {NoPilot} /\ sent \in 0 .. MaxCmd
  /\ at \in [Pilots -> {"off", "boot", "connect", "enter", "run", "cleanup"}]
  /\ level \in [Pilots -> Levels] /\ seen \in [Pilots -> 0 .. MaxCmd]
  /\ query \in [Pilots -> 0 .. MaxCmd]
  /\ turn \in [Pilots -> BOOLEAN]
  /\ loop \in [Pilots -> BOOLEAN] /\ guard \in [Pilots -> BOOLEAN]
  /\ Numbers(begun) /\ \A p \in Pilots : Numbers(log[p]) /\ Numbers(todo[p])
  /\ \A p \in Pilots : /\ at[p] # "off" => holder = p
                       /\ at[p] = "run" => level[p] = Len(Parts)
                       /\ loop[p] => at[p] \in {"run", "cleanup"}

(* No command is carried out twice, late or out of turn, over crashes,      *)
(* restarts and second instances: a restarted pilot never replays a stale   *)
(* "take off" (core/bus.py).                                                *)
EachCommandOnce == \A i, j \in 1 .. Len(begun) : i < j => begun[i] < begun[j]

(* While a turn of the model may call the flight tools there is an estop.   *)
(* It fails: a turn outlives an estop supervisor that raised, and, behind a *)
(* SIGINT, one that gather cancelled, until the SDK is closed.              *)
EstopCoversTurn == \A p \in Pilots : turn[p] => guard[p]

(* What the code has instead: a pilot whose loop may begin turns, or whose  *)
(* turn may fly, without an estop does not stay; whichever task was lost,   *)
(* the process ends, and with it the turn.                                  *)
EstopOrExit == \A p \in Pilots :
  ((turn[p] \/ loop[p]) /\ ~ guard[p]) ~> at[p] = "off"

(* A command that reaches a running pilot is carried out, or the pilot ends.*)
CommandsBegin == \A p \in Pilots, c \in Cmds :
  (at[p] = "run" /\ c \in ToSet(log[p]) /\ c \notin ToSet(SubSeq(log[p], 1, seen[p])))
    ~> (c \in ToSet(begun) \/ at[p] # "run")
=============================================================================
