------------------------- MODULE PilotProcessProofs -------------------------
(* Theorems of PilotProcess, for any number of processes, starts and        *)
(* commands.                                                                *)
EXTENDS PilotProcess, SequenceTheorems, TLAPS

Phases == {"off", "boot", "connect", "enter", "run", "cleanup"}

(* TypeOK without its sequences.                                            *)
Kinds ==
  /\ started \in 0 .. MaxStart /\ holder \in Pilots \cup {NoPilot} /\ sent \in 0 .. MaxCmd
  /\ at \in [Pilots -> Phases]
  /\ level \in [Pilots -> Levels] /\ seen \in [Pilots -> 0 .. MaxCmd]
  /\ query \in [Pilots -> 0 .. MaxCmd]

Flags ==
  /\ turn \in [Pilots -> BOOLEAN]
  /\ loop \in [Pilots -> BOOLEAN] /\ guard \in [Pilots -> BOOLEAN]

(* A log is no longer than the commands sent, a cursor inside its log.      *)
Lists ==
  /\ log \in [Pilots -> Seq(Cmds)] /\ todo \in [Pilots -> Seq(Cmds)] /\ begun \in Seq(Cmds)
  /\ \A p \in Pilots : Len(log[p]) <= sent /\ seen[p] <= Len(log[p])

(* Whoever is alive holds the lock.                                         *)
OneAlive == \A p \in Pilots : at[p] # "off" => holder = p

(* Nobody runs without the whole session, and a loop that lives has a       *)
(* process that runs or cleans up.                                          *)
WholeSession == \A p \in Pilots : /\ at[p] = "run" => level[p] = 4
                                  /\ loop[p] => at[p] \in {"run", "cleanup"}
                                  /\ query[p] # 0 => loop[p]

TypeInv == Kinds /\ Flags /\ Lists /\ OneAlive /\ WholeSession

-----------------------------------------------------------------------------
LEMMA PartsAre == Len(Parts) = 4 /\ Levels = 0 .. 4
BY DEF Parts, Levels

LEMMA CmdsAre == MaxCmd \in Nat /\ MaxStart \in Nat /\ NoPilot \notin Pilots /\ Cmds = 1 .. MaxCmd
BY PilotAssumption DEF Cmds

LEMMA InitType == Init => TypeInv
<1> SUFFICES ASSUME Init PROVE TypeInv
  OBVIOUS
<1>1. Kinds
  BY PartsAre, CmdsAre DEF Init, Kinds, Phases
<1>2. Flags
  BY DEF Init, Flags
<1>3. Lists
  BY CmdsAre DEF Init, Lists
<1>4. OneAlive
  BY DEF Init, OneAlive
<1>5. WholeSession
  BY DEF Init, WholeSession
<1> QED BY <1>1, <1>2, <1>3, <1>4, <1>5 DEF TypeInv

(* The end of a process, however it comes about, clears what is its own.    *)
LEMMA EndsType == ASSUME TypeInv, NEW p \in Pilots, Ends(p) PROVE TypeInv'
<1> USE DEF TypeInv, Ends
<1>1. Kinds'
  BY PartsAre, CmdsAre DEF Kinds, Phases
<1>2. Flags'
  BY DEF Flags
<1>3. Lists'
  BY DEF Lists, Kinds
<1>4. OneAlive'
  BY DEF OneAlive, Kinds
<1>5. WholeSession'
  BY DEF WholeSession, Kinds, Flags
<1> QED BY <1>1, <1>2, <1>3, <1>4, <1>5

(* Actions that leave the flags, the session and the lists alone but for the*)
(* phase they move to, and so on: one step per action, one per part.        *)
LEMMA StartType == ASSUME TypeInv, NEW p \in Pilots, Start(p) PROVE TypeInv'
<1> USE DEF TypeInv, Start, session
<1>1. Kinds'
  BY CmdsAre DEF Kinds, Phases
<1>2. Flags'
  BY DEF Flags
<1>3. Lists'
  BY DEF Lists, Kinds
<1>4. OneAlive'
  BY CmdsAre DEF OneAlive, Kinds
<1>5. WholeSession'
  BY DEF WholeSession, Kinds
<1> QED BY <1>1, <1>2, <1>3, <1>4, <1>5

LEMMA BootsType == ASSUME TypeInv, NEW p \in Pilots, Boots(p) PROVE TypeInv'
<1> USE DEF TypeInv, Boots, session, inbox
<1>1. Kinds' /\ Flags' /\ Lists'
  BY DEF Kinds, Flags, Lists, Phases
<1>2. OneAlive' /\ WholeSession'
  BY DEF OneAlive, WholeSession, Kinds
<1> QED BY <1>1, <1>2

LEMMA SendType == ASSUME TypeInv, Send PROVE TypeInv'
<1> USE DEF TypeInv, Send, session
<1>1. Kinds' /\ Flags'
  BY CmdsAre DEF Kinds, Flags
<1>2. Lists'
  <2>1. sent' \in Cmds /\ sent' = sent + 1 /\ sent \in Nat
    BY CmdsAre DEF Kinds
  <2>2. ASSUME NEW q \in Pilots
        PROVE  /\ log'[q] \in Seq(Cmds) /\ Len(log'[q]) <= sent'
               /\ seen[q] <= Len(log'[q])
    <3>1. /\ log[q] \in Seq(Cmds) /\ Len(log[q]) <= sent /\ seen[q] <= Len(log[q])
          /\ Len(log[q]) \in Nat /\ seen[q] \in Nat
      BY CmdsAre, LenProperties DEF Lists, Kinds
    <3>2. /\ Append(log[q], sent') \in Seq(Cmds)
          /\ Len(Append(log[q], sent')) = Len(log[q]) + 1
      BY <2>1, <3>1, AppendProperties
    <3> QED BY <2>1, <3>1, <3>2
  <2>3. log' \in [Pilots -> Seq(Cmds)]
    BY <2>2
  <2> QED BY <2>2, <2>3 DEF Lists
<1>3. OneAlive' /\ WholeSession'
  BY DEF OneAlive, WholeSession
<1> QED BY <1>1, <1>2, <1>3

LEMMA ConnectedType == ASSUME TypeInv, NEW p \in Pilots, Connected(p) PROVE TypeInv'
<1> USE DEF TypeInv, Connected, session
<1>0. Len(log[p]) \in 0 .. MaxCmd
  BY CmdsAre, LenProperties DEF Lists, Kinds
<1>1. Kinds' /\ Flags'
  BY <1>0 DEF Kinds, Flags, Phases
<1>2. Lists'
  BY <1>0 DEF Lists, Kinds
<1>3. OneAlive' /\ WholeSession'
  BY DEF OneAlive, WholeSession, Kinds
<1> QED BY <1>1, <1>2, <1>3

LEMMA EnterType ==
  ASSUME TypeInv, NEW p \in Pilots, EnterPart(p) \/ EnterFails(p) \/ Entered(p)
  PROVE  TypeInv'
<1>1. CASE EnterPart(p)
  <2> USE <1>1 DEF TypeInv, EnterPart, inbox
  <2>1. Kinds'
    BY PartsAre DEF Kinds
  <2>2. Flags' /\ Lists'
    BY DEF Flags, Lists
  <2>3. OneAlive' /\ WholeSession'
    BY DEF OneAlive, WholeSession, Kinds
  <2> QED BY <2>1, <2>2, <2>3
<1>2. CASE EnterFails(p) /\ level[p] < 2
  BY <1>2, EndsType DEF EnterFails
<1>3. CASE EnterFails(p) /\ ~ (level[p] < 2)
  <2> USE <1>3 DEF TypeInv, EnterFails, inbox, session
  <2>1. Kinds' /\ Flags'
    BY DEF Kinds, Flags, Phases
  <2>3. Lists'
    BY DEF Lists
  <2>2. OneAlive' /\ WholeSession'
    BY DEF OneAlive, WholeSession, Kinds
  <2> QED BY <2>1, <2>2, <2>3
<1>4. CASE Entered(p)
  <2> USE <1>4 DEF TypeInv, Entered, inbox
  <2>1. Kinds' /\ Lists'
    BY DEF Kinds, Lists, Phases
  <2>2. Flags'
    BY DEF Flags
  <2>3. OneAlive'
    BY DEF OneAlive, Kinds
  <2>4. WholeSession'
    BY PartsAre DEF WholeSession, Kinds, Flags
  <2> QED BY <2>1, <2>2, <2>3, <2>4
<1> QED BY <1>1, <1>2, <1>3, <1>4

LEMMA PollType == ASSUME TypeInv, NEW p \in Pilots, Poll(p) PROVE TypeInv'
<1> USE DEF TypeInv, Poll, session
<1>0. /\ log[p] \in Seq(Cmds) /\ Len(log[p]) \in 0 .. MaxCmd
      /\ seen[p] \in 0 .. MaxCmd
  BY CmdsAre, LenProperties DEF Lists, Kinds
<1>1. SubSeq(log[p], seen[p] + 1, Len(log[p])) \in Seq(Cmds)
  BY <1>0, SubSeqProperties
<1>2. Kinds' /\ Flags'
  BY <1>0 DEF Kinds, Flags
<1>3. Lists'
  BY <1>0, <1>1 DEF Lists, Kinds
<1>4. OneAlive' /\ WholeSession'
  BY DEF OneAlive, WholeSession
<1> QED BY <1>2, <1>3, <1>4

LEMMA QueryType == ASSUME TypeInv, NEW p \in Pilots, Query(p) PROVE TypeInv'
<1> USE DEF TypeInv, Query
<1>1. todo[p] \in Seq(Cmds) /\ todo[p] # <<>>
  BY DEF Lists
<1>2. Head(todo[p]) \in Cmds /\ Tail(todo[p]) \in Seq(Cmds)
  BY <1>1, HeadTailProperties
<1>3. Append(begun, Head(todo[p])) \in Seq(Cmds)
  BY <1>2, AppendProperties DEF Lists
<1>4. Kinds'
  BY <1>2, CmdsAre DEF Kinds
<1>5. Flags'
  BY DEF Flags
<1>6. Lists'
  BY <1>2, <1>3 DEF Lists
<1>7. OneAlive' /\ WholeSession'
  BY DEF OneAlive, WholeSession
<1> QED BY <1>4, <1>5, <1>6, <1>7

LEMMA QueryOverType == ASSUME TypeInv, NEW p \in Pilots, QueryOver(p) PROVE TypeInv'
<1>1. CASE QueryEnds(p)
  <2> USE <1>1 DEF TypeInv, QueryEnds, inbox
  <2>1. Kinds' /\ Lists'
    BY CmdsAre DEF Kinds, Lists
  <2>2. Flags'
    BY DEF Flags
  <2>3. OneAlive' /\ WholeSession'
    BY DEF OneAlive, WholeSession, Flags
  <2> QED BY <2>1, <2>2, <2>3
<1>2. CASE QueryRaises(p)
  <2> USE <1>2 DEF TypeInv, QueryRaises
  <2>1. Kinds' /\ Flags'
    BY CmdsAre DEF Kinds, Flags, Phases
  <2>2. Lists'
    BY DEF Lists
  <2>3. at[p] \in {"run", "cleanup"}
    BY DEF WholeSession
  <2>4. OneAlive' /\ WholeSession'
    BY <2>3 DEF OneAlive, WholeSession, Kinds, Flags
  <2> QED BY <2>1, <2>2, <2>4
<1> QED BY <1>1, <1>2 DEF QueryOver

(* A supervisor that raises, and SIGINT.                                    *)
LEMMA LeavingType ==
  ASSUME TypeInv, NEW p \in Pilots, SupervisorRaises(p) \/ Interrupt(p)
  PROVE  TypeInv'
<1>1. CASE SupervisorRaises(p)
  <2> USE <1>1 DEF TypeInv, SupervisorRaises, inbox
  <2>1. Kinds' /\ Flags' /\ Lists'
    BY DEF Kinds, Flags, Lists, Phases
  <2>2. OneAlive' /\ WholeSession'
    BY DEF OneAlive, WholeSession, Kinds
  <2> QED BY <2>1, <2>2
<1>2. CASE Interrupt(p)
  <2> USE <1>2 DEF TypeInv, Interrupt
  <2>1. Kinds' /\ Flags'
    BY CmdsAre DEF Kinds, Flags, Phases
  <2>2. Lists'
    BY DEF Lists
  <2>3. OneAlive' /\ WholeSession'
    BY DEF OneAlive, WholeSession, Kinds, Flags
  <2> QED BY <2>1, <2>2, <2>3
<1> QED BY <1>1, <1>2

LEMMA CloseNextType == ASSUME TypeInv, NEW p \in Pilots, CloseNext(p) PROVE TypeInv'
<1> USE DEF TypeInv, CloseNext, inbox
<1>1. level'[p] \in 0 .. 4
  BY PartsAre DEF Kinds, Closes
<1>2. Kinds'
  BY <1>1, PartsAre DEF Kinds, Closes
<1>3. Flags'
  BY DEF Flags
<1>4. Lists'
  BY DEF Lists
<1>5. OneAlive' /\ WholeSession'
  BY DEF OneAlive, WholeSession, Kinds
<1> QED BY <1>2, <1>3, <1>4, <1>5

LEMMA TypeStep == TypeInv /\ [Next]_vars => TypeInv'
<1> SUFFICES ASSUME TypeInv, [Next]_vars PROVE TypeInv'
  OBVIOUS
<1>1. CASE Send
  BY <1>1, SendType
<1>2. ASSUME NEW p \in Pilots,
             \/ Start(p) \/ Boots(p) \/ BootFails(p) \/ Crash(p) \/ Connected(p)
             \/ EnterPart(p) \/ EnterFails(p) \/ Entered(p)
             \/ LoopGoesOn(p) \/ QueryOver(p) \/ CleanupGoesOn(p)
             \/ SupervisorRaises(p) \/ Interrupt(p)
      PROVE  TypeInv'
  BY <1>2, StartType, BootsType, EndsType, ConnectedType, EnterType, PollType, QueryType,
     QueryOverType, LeavingType, CloseNextType
  DEF BootFails, Crash, LoopGoesOn, CleanupGoesOn, Exits
<1>3. CASE UNCHANGED vars
  BY <1>3
  DEF vars, inbox, session, TypeInv, Kinds, Flags, Lists, OneAlive, WholeSession
<1> QED BY <1>1, <1>2, <1>3 DEF Next

LEMMA AlwaysTyped == Spec => []TypeInv
BY InitType, TypeStep, PTL DEF Spec

(* Type correctness: also, only the process that holds the lock file is     *)
(* alive, and nobody runs on half a session.                                *)
THEOREM OnePilot == Spec => []TypeOK
<1>1. TypeInv => TypeOK
  <2> SUFFICES ASSUME TypeInv PROVE TypeOK
    OBVIOUS
  <2>1. ASSUME NEW s \in Seq(Cmds) PROVE Numbers(s)
    BY <2>1, ElementOfSeq DEF Numbers
  <2>2. Numbers(begun) /\ \A p \in Pilots : Numbers(log[p]) /\ Numbers(todo[p])
    BY <2>1 DEF TypeInv, Lists
  <2>3. \A p \in Pilots : /\ at[p] # "off" => holder = p
                          /\ at[p] = "run" => level[p] = Len(Parts)
                          /\ loop[p] => at[p] \in {"run", "cleanup"}
    BY PartsAre DEF TypeInv, OneAlive, WholeSession
  <2>4. /\ turn \in [Pilots -> BOOLEAN]
        /\ loop \in [Pilots -> BOOLEAN] /\ guard \in [Pilots -> BOOLEAN]
    BY DEF TypeInv, Flags
  <2> QED BY <2>2, <2>3, <2>4 DEF TypeInv, Kinds, Phases, TypeOK
<1> QED BY <1>1, AlwaysTyped, PTL

-----------------------------------------------------------------------------
(* What has begun is behind what the loop has taken, and that behind what   *)
(* it has not taken yet; nothing is ahead of the newest command.            *)
Ordered(s) == \A i, j \in 1 .. Len(s) : i < j => s[i] < s[j]
Sent(s) == \A i \in 1 .. Len(s) : s[i] <= sent
Behind(s, n) == \A i \in 1 .. Len(s) : s[i] < n

QueueOf(p) ==
  /\ Ordered(log[p]) /\ Ordered(todo[p]) /\ Sent(log[p]) /\ Sent(todo[p])
  /\ \A j \in 1 .. Len(todo[p]) : Behind(begun, todo[p][j])
  /\ \A j \in seen[p] + 1 .. Len(log[p]) : Behind(begun, log[p][j]) /\ Behind(todo[p], log[p][j])

OrderInv ==
  /\ Ordered(begun) /\ Sent(begun)
  /\ \A p \in Pilots : IF at[p] = "off" THEN todo[p] = <<>> ELSE QueueOf(p)

LEMMA InitOrder == Init => OrderInv
BY DEF Init, OrderInv, Ordered, Sent

(* A new command is ahead of all there is.                                  *)
LEMMA SendOrder == ASSUME TypeInv, OrderInv, Send PROVE OrderInv'
<1>1. sent \in Nat /\ sent' = sent + 1 /\ UNCHANGED <<at, begun, todo, seen>>
  BY CmdsAre DEF TypeInv, Kinds, Send, session
<1>2. ASSUME NEW s \in Seq(Cmds), Sent(s)
      PROVE  Sent(s)' /\ Behind(s, sent')
  <2>1. ASSUME NEW i \in 1 .. Len(s) PROVE s[i] <= sent' /\ s[i] < sent'
    <3>1. s[i] \in Nat /\ s[i] <= sent
      BY <1>2, ElementOfSeq, CmdsAre DEF Sent
    <3> QED BY <1>1, <3>1
  <2> QED BY <2>1 DEF Sent, Behind
<1>3. ASSUME NEW p \in Pilots, at[p] # "off", QueueOf(p) PROVE QueueOf(p)'
  <2> DEFINE l == log[p]
             a == Append(l, sent')
  <2>1. /\ l \in Seq(Cmds) /\ todo[p] \in Seq(Cmds) /\ begun \in Seq(Cmds)
        /\ log'[p] = a /\ Len(l) \in Nat /\ seen[p] \in Nat /\ seen[p] <= Len(l)
    BY <1>3, CmdsAre, LenProperties DEF TypeInv, Lists, Kinds, Send
  <2>2. /\ Len(a) = Len(l) + 1 /\ a[Len(l) + 1] = sent'
        /\ \A i \in 1 .. Len(l) : a[i] = l[i]
    BY <2>1
  <2>3. /\ Ordered(l) /\ Ordered(todo[p]) /\ Sent(l) /\ Sent(todo[p]) /\ Sent(begun)
        /\ \A j \in 1 .. Len(todo[p]) : Behind(begun, todo[p][j])
        /\ \A j \in seen[p] + 1 .. Len(l) : Behind(begun, l[j]) /\ Behind(todo[p], l[j])
    BY <1>3 DEF QueueOf, OrderInv
  <2>4. /\ \A i \in 1 .. Len(l) : l[i] <= sent'
        /\ Behind(l, sent') /\ Sent(todo[p])' /\ Behind(todo[p], sent') /\ Behind(begun, sent')
    BY <1>1, <1>2, <2>1, <2>3 DEF Sent, Behind
  <2> HIDE DEF a, l
  <2>5. Ordered(a)
    <3>1. ASSUME NEW i \in 1 .. Len(a), NEW j \in 1 .. Len(a), i < j PROVE a[i] < a[j]
      <4>1. i \in 1 .. Len(l) /\ a[i] = l[i]
        BY <2>1, <2>2, <3>1
      <4>2. CASE j = Len(l) + 1
        BY <2>2, <2>4, <4>1, <4>2 DEF Behind
      <4>3. CASE j # Len(l) + 1
        <5>1. j \in 1 .. Len(l) /\ a[j] = l[j]
          BY <2>1, <2>2, <4>3
        <5> QED BY <2>3, <3>1, <4>1, <5>1 DEF Ordered
      <4> QED BY <4>2, <4>3
    <3> QED BY <3>1 DEF Ordered
  <2>6. \A i \in 1 .. Len(a) : a[i] <= sent'
    BY <1>1, <2>1, <2>2, <2>4
  <2>7. ASSUME NEW j \in seen[p] + 1 .. Len(a)
        PROVE  Behind(begun, a[j]) /\ Behind(todo[p], a[j])
    BY <2>1, <2>2, <2>3, <2>4
  <2> QED BY <1>1, <2>1, <2>3, <2>4, <2>5, <2>6, <2>7 DEF QueueOf, Ordered, Sent, Behind
<1>4. Ordered(begun)' /\ Sent(begun)'
  BY <1>1, <1>2 DEF OrderInv, Ordered, Sent, TypeInv, Lists
<1> QED BY <1>1, <1>3, <1>4 DEF OrderInv

(* What a process leaves alone keeps its order.                             *)
LEMMA OthersOrder ==
  ASSUME OrderInv, NEW p \in Pilots, UNCHANGED <<sent, begun>>,
         \A q \in Pilots \ {p} : UNCHANGED <<at[q], log[q], todo[q], seen[q]>>,
         IF at'[p] = "off" THEN todo'[p] = <<>> ELSE QueueOf(p)'
  PROVE  OrderInv'
<1>1. Ordered(begun)' /\ Sent(begun)'
  BY DEF OrderInv, Ordered, Sent
<1>2. ASSUME NEW q \in Pilots PROVE IF at'[q] = "off" THEN todo'[q] = <<>> ELSE QueueOf(q)'
  <2>1. CASE q = p
    BY <2>1
  <2>2. CASE q # p
    <3>1. UNCHANGED <<at[q], log[q], todo[q], seen[q]>>
      BY <2>2
    <3> QED BY <3>1 DEF OrderInv, QueueOf, Ordered, Sent, Behind
  <2> QED BY <2>1, <2>2
<1> QED BY <1>1, <1>2 DEF OrderInv

LEMMA StartOrder == ASSUME TypeInv, OrderInv, NEW p \in Pilots, Start(p) PROVE OrderInv'
<1>1. /\ log'[p] = <<>> /\ seen'[p] = 0 /\ todo'[p] = <<>>
      /\ UNCHANGED <<sent, begun, todo>>
      /\ \A q \in Pilots \ {p} : UNCHANGED <<at[q], log[q], todo[q], seen[q]>>
  BY DEF TypeInv, Kinds, Lists, OrderInv, Start
<1>2. QueueOf(p)'
  BY <1>1 DEF QueueOf, Ordered, Sent, Behind
<1>3. at'[p] = "boot"
  BY DEF Start, TypeInv, Kinds
<1> QED BY <1>1, <1>2, <1>3, OthersOrder

LEMMA EndsOrder == ASSUME TypeInv, OrderInv, NEW p \in Pilots, Ends(p) PROVE OrderInv'
<1>1. /\ at'[p] = "off" /\ todo'[p] = <<>> /\ UNCHANGED <<sent, begun>>
      /\ \A q \in Pilots \ {p} : UNCHANGED <<at[q], log[q], todo[q], seen[q]>>
  BY DEF TypeInv, Kinds, Lists, Ends
<1> QED BY <1>1, OthersOrder

(* A live process that moves on, and at most skips a part of its log.       *)
LEMMA OnwardOrder ==
  ASSUME TypeInv, OrderInv, NEW p \in Pilots, at[p] # "off", at'[p] # "off",
         UNCHANGED <<sent, begun, log, todo>>,
         seen'[p] \in Nat, seen[p] <= seen'[p],
         \A q \in Pilots \ {p} : UNCHANGED <<at[q], seen[q]>>
  PROVE  OrderInv'
<1>1. QueueOf(p) /\ seen[p] \in Nat
  BY CmdsAre DEF OrderInv, TypeInv, Kinds
<1>2. /\ Ordered(log[p])' /\ Ordered(todo[p])' /\ Sent(log[p])' /\ Sent(todo[p])'
      /\ \A j \in 1 .. Len(todo[p])' : Behind(begun, todo[p][j])'
  BY <1>1 DEF QueueOf, Ordered, Sent, Behind
<1>3. ASSUME NEW j \in seen'[p] + 1 .. Len(log[p])
      PROVE  Behind(begun, log[p][j])' /\ Behind(todo[p], log[p][j])'
  <2>1. j \in seen[p] + 1 .. Len(log[p])
    BY <1>1
  <2> QED BY <1>1, <2>1 DEF QueueOf, Behind
<1>4. QueueOf(p)'
  BY <1>2, <1>3 DEF QueueOf
<1> QED BY <1>4, OthersOrder

LEMMA PollOrder == ASSUME TypeInv, OrderInv, NEW p \in Pilots, Poll(p) PROVE OrderInv'
<1> DEFINE l == log[p]
           t == SubSeq(l, seen[p] + 1, Len(l))
<1>1. /\ at[p] # "off" /\ todo[p] = <<>> /\ seen[p] < Len(l) /\ seen[p] \in Nat
      /\ l \in Seq(Cmds) /\ Len(l) \in Nat /\ todo'[p] = t /\ seen'[p] = Len(l)
      /\ UNCHANGED <<at, sent, begun, log>>
      /\ \A q \in Pilots \ {p} : UNCHANGED <<at[q], log[q], todo[q], seen[q]>>
  <2>1. /\ at[p] # "off" /\ todo[p] = <<>> /\ seen[p] < Len(l)
        /\ UNCHANGED <<at, sent, begun, log>>
    BY DEF Poll, TypeInv, WholeSession
  <2>2. seen[p] \in Nat /\ l \in Seq(Cmds) /\ Len(l) \in Nat
    BY CmdsAre, LenProperties DEF TypeInv, Kinds, Lists
  <2>3. todo'[p] = t /\ seen'[p] = Len(l)
    BY DEF Poll, TypeInv, Kinds, Lists
  <2>4. \A q \in Pilots \ {p} : UNCHANGED <<at[q], log[q], todo[q], seen[q]>>
    BY DEF Poll, TypeInv, Kinds, Lists
  <2> QED BY <2>1, <2>2, <2>3, <2>4
<1>2. /\ Len(t) = Len(l) - seen[p]
      /\ \A i \in 1 .. Len(l) - seen[p] : t[i] = l[seen[p] + i]
  <2>1. /\ \A i \in seen[p] + 1 .. Len(l) : l[i] \in Cmds
        /\ seen[p] + 1 \in Int /\ Len(l) \in Int /\ seen[p] + 1 <= Len(l)
    BY <1>1, ElementOfSeq
  <2>2. /\ Len(t) = Len(l) - (seen[p] + 1) + 1
        /\ \A i \in 1 .. Len(l) - (seen[p] + 1) + 1 : t[i] = l[(seen[p] + 1) + i - 1]
    BY <2>1, SubSeqProperties DEF t
  <2>3. Len(l) - (seen[p] + 1) + 1 = Len(l) - seen[p]
    BY <1>1
  <2>4. ASSUME NEW i \in 1 .. Len(l) - seen[p] PROVE t[i] = l[seen[p] + i]
    <3>1. (seen[p] + 1) + i - 1 = seen[p] + i
      BY <1>1
    <3> QED BY <2>2, <2>3, <3>1
  <2> QED BY <2>2, <2>3, <2>4
<1>3. /\ Ordered(l) /\ Sent(l)
      /\ \A j \in seen[p] + 1 .. Len(l) : Behind(begun, l[j])
  BY <1>1 DEF OrderInv, QueueOf
<1> HIDE DEF l, t
<1>4. Ordered(t) /\ Sent(t) /\ \A j \in 1 .. Len(t) : Behind(begun, t[j])
  <2>1. \A i \in 1 .. Len(t) : seen[p] + i \in 1 .. Len(l) /\ seen[p] + i \in seen[p] + 1 .. Len(l)
                               /\ t[i] = l[seen[p] + i]
    BY <1>1, <1>2
  <2>2. ASSUME NEW i \in 1 .. Len(t), NEW j \in 1 .. Len(t), i < j PROVE t[i] < t[j]
    <3>1. /\ seen[p] + i \in 1 .. Len(l) /\ seen[p] + j \in 1 .. Len(l)
          /\ seen[p] + i < seen[p] + j
      BY <1>1, <2>1, <2>2
    <3>2. l[seen[p] + i] < l[seen[p] + j]
      BY <1>3, <3>1 DEF Ordered
    <3> QED BY <2>1, <3>2
  <2>3. Ordered(t)
    BY <2>2 DEF Ordered
  <2> QED BY <1>3, <2>1, <2>3 DEF Sent
<1>5. QueueOf(p)'
  <2>1. log'[p] = l
    BY <1>1 DEF l
  <2>2. Len(l) + 1 .. Len(l) = {}
    BY <1>1
  <2> QED BY <1>1, <1>3, <1>4, <2>1, <2>2 DEF QueueOf, Ordered, Sent, Behind
<1> QED BY <1>1, <1>5, OthersOrder

(* The first of the commands taken is behind every other, and becomes the   *)
(* last that has begun; nobody else is alive to hold another list.          *)
LEMMA QueryOrder == ASSUME TypeInv, OrderInv, NEW p \in Pilots, Query(p) PROVE OrderInv'
<1> DEFINE t == todo[p]
           h == Head(t)
           b == Append(begun, h)
<1>0. at[p] # "off"
  BY DEF TypeInv, WholeSession, Query
<1>1. /\ at[p] # "off" /\ t # <<>> /\ t \in Seq(Cmds) /\ begun \in Seq(Cmds)
      /\ todo'[p] = Tail(t) /\ begun' = b /\ UNCHANGED <<at, sent, log, seen>>
      /\ \A q \in Pilots \ {p} : UNCHANGED todo[q]
      /\ seen[p] \in Nat /\ log[p] \in Seq(Cmds)
  BY <1>0, CmdsAre DEF TypeInv, Kinds, Lists, Query
<1>2. /\ Len(t) \in Nat \ {0} /\ h = t[1] /\ Len(Tail(t)) = Len(t) - 1
      /\ \A i \in 1 .. Len(t) - 1 : Tail(t)[i] = t[i + 1]
  BY <1>1, LenProperties, EmptySeq, HeadTailProperties
<1>3. /\ Len(begun) \in Nat /\ Len(b) = Len(begun) + 1 /\ b[Len(begun) + 1] = h
      /\ \A i \in 1 .. Len(begun) : b[i] = begun[i]
  BY <1>1, <1>2, LenProperties, ElementOfSeq
<1>4. /\ Ordered(begun) /\ Sent(begun) /\ QueueOf(p)
  BY <1>1 DEF OrderInv
<1>5. /\ Ordered(t) /\ Sent(t) /\ \A j \in 1 .. Len(t) : Behind(begun, t[j])
      /\ Ordered(log[p]) /\ Sent(log[p])
      /\ \A j \in seen[p] + 1 .. Len(log[p]) : Behind(begun, log[p][j]) /\ Behind(t, log[p][j])
  BY <1>4 DEF QueueOf
<1> HIDE DEF t, h, b
<1>6. Ordered(b) /\ Sent(b)
  <2>1. Behind(begun, h) /\ h <= sent
    BY <1>2, <1>5 DEF Sent
  <2> QED BY <1>3, <1>4, <2>1 DEF Ordered, Sent, Behind
<1>7. Ordered(Tail(t)) /\ Sent(Tail(t))
  <2>1. \A i \in 1 .. Len(Tail(t)) : i + 1 \in 1 .. Len(t) /\ Tail(t)[i] = t[i + 1]
    BY <1>2
  <2> QED BY <1>2, <1>5, <2>1 DEF Ordered, Sent
<1>8. ASSUME NEW j \in 1 .. Len(Tail(t)) PROVE Behind(b, Tail(t)[j])
  <2>1. j + 1 \in 1 .. Len(t) /\ 1 \in 1 .. Len(t) /\ 1 < j + 1 /\ Tail(t)[j] = t[j + 1]
    BY <1>2
  <2>2. Behind(begun, t[j + 1]) /\ h < t[j + 1]
    BY <1>2, <1>5, <2>1 DEF Ordered
  <2> QED BY <1>3, <2>1, <2>2 DEF Behind
<1>9. ASSUME NEW j \in seen[p] + 1 .. Len(log[p])
      PROVE  Behind(b, log[p][j]) /\ Behind(Tail(t), log[p][j])
  <2>1. Behind(begun, log[p][j]) /\ Behind(t, log[p][j]) /\ h < log[p][j]
    BY <1>2, <1>5 DEF Behind
  <2>2. \A i \in 1 .. Len(Tail(t)) : i + 1 \in 1 .. Len(t) /\ Tail(t)[i] = t[i + 1]
    BY <1>2
  <2> QED BY <1>3, <2>1, <2>2 DEF Behind
<1>10. QueueOf(p)'
  BY <1>1, <1>5, <1>7, <1>8, <1>9 DEF QueueOf, Ordered, Sent, Behind
<1>11. ASSUME NEW q \in Pilots \ {p} PROVE at'[q] = "off" /\ todo'[q] = <<>>
  <2>1. at[q] = "off"
    BY <1>1 DEF TypeInv, OneAlive
  <2> QED BY <1>1, <2>1 DEF OrderInv
<1>12. Ordered(begun)' /\ Sent(begun)'
  BY <1>1, <1>6 DEF Ordered, Sent
<1> QED BY <1>1, <1>10, <1>11, <1>12 DEF OrderInv

(* A loop that is lost takes the commands it had not begun with it.         *)
LEMMA LostOrder ==
  ASSUME TypeInv, OrderInv, NEW p \in Pilots, QueryRaises(p) \/ Interrupt(p)
  PROVE  OrderInv'
<1>1. /\ at[p] # "off" /\ at'[p] = "cleanup" /\ todo'[p] = <<>>
      /\ UNCHANGED <<sent, begun, log, seen>>
      /\ \A q \in Pilots \ {p} : UNCHANGED <<at[q], log[q], todo[q], seen[q]>>
  BY DEF QueryRaises, Interrupt, TypeInv, Kinds, Lists, WholeSession
<1>2. QueueOf(p)'
  BY <1>1 DEF OrderInv, QueueOf, Ordered, Sent, Behind
<1> QED BY <1>1, <1>2, OthersOrder

LEMMA OrderStep == TypeInv /\ OrderInv /\ [Next]_vars => OrderInv'
<1> SUFFICES ASSUME TypeInv, OrderInv, [Next]_vars PROVE OrderInv'
  OBVIOUS
<1>1. CASE Send
  BY <1>1, SendOrder
<1>2. ASSUME NEW p \in Pilots, Connected(p) PROVE OrderInv'
  <2>1. /\ Len(log[p]) \in Nat /\ seen[p] <= Len(log[p]) /\ seen'[p] = Len(log[p])
        /\ at[p] # "off" /\ at'[p] # "off" /\ UNCHANGED <<sent, begun, log, todo>>
        /\ \A q \in Pilots \ {p} : UNCHANGED <<at[q], seen[q]>>
    BY <1>2, LenProperties DEF TypeInv, Kinds, Lists, Connected
  <2> QED BY <2>1, OnwardOrder
<1>3. ASSUME NEW p \in Pilots, \/ Boots(p) \/ EnterPart(p) \/ Entered(p) \/ QueryEnds(p) \/ CloseNext(p)
                               \/ SupervisorRaises(p) \/ (EnterFails(p) /\ ~ Ends(p))
      PROVE OrderInv'
  <2>1. /\ at[p] # "off" /\ at'[p] # "off" /\ UNCHANGED <<sent, begun, log, todo, seen>>
        /\ \A q \in Pilots \ {p} : UNCHANGED at[q]
    BY <1>3 DEF TypeInv, Kinds, WholeSession, Boots, EnterPart, Entered, QueryEnds,
                CloseNext, SupervisorRaises, EnterFails, inbox
  <2>2. seen'[p] \in Nat /\ seen[p] <= seen'[p]
    BY <2>1, CmdsAre DEF TypeInv, Kinds
  <2> QED BY <2>1, <2>2, OnwardOrder
<1>4. ASSUME NEW p \in Pilots, \/ Start(p) \/ BootFails(p) \/ Crash(p) \/ LoopGoesOn(p) \/ Exits(p)
                               \/ (EnterFails(p) /\ Ends(p))
      PROVE OrderInv'
  BY <1>4, StartOrder, EndsOrder, PollOrder, QueryOrder
  DEF BootFails, Crash, EnterFails, LoopGoesOn, Exits
<1>5. CASE UNCHANGED vars
  BY <1>5 DEF vars, inbox, OrderInv, QueueOf, Ordered, Sent, Behind
<1>6. ASSUME NEW p \in Pilots,
             \/ Start(p) \/ Boots(p) \/ BootFails(p) \/ Crash(p) \/ Connected(p)
             \/ EnterPart(p) \/ EnterFails(p) \/ Entered(p)
             \/ LoopGoesOn(p) \/ QueryOver(p) \/ CleanupGoesOn(p)
             \/ SupervisorRaises(p) \/ Interrupt(p)
      PROVE  OrderInv'
  <2>1. CASE Connected(p)
    BY <1>2, <2>1
  <2>2. CASE Boots(p) \/ EnterPart(p) \/ Entered(p) \/ QueryEnds(p) \/ CloseNext(p) \/ SupervisorRaises(p)
    BY <1>3, <2>2
  <2>3. CASE EnterFails(p) /\ ~ Ends(p)
    BY <1>3, <2>3
  <2>4. CASE EnterFails(p) /\ Ends(p)
    BY <1>4, <2>4
  <2>5. CASE Start(p) \/ BootFails(p) \/ Crash(p) \/ LoopGoesOn(p) \/ Exits(p)
    BY <1>4, <2>5
  <2>6. CASE QueryRaises(p) \/ Interrupt(p)
    BY <2>6, LostOrder
  <2> QED BY <1>6, <2>1, <2>2, <2>3, <2>4, <2>5, <2>6 DEF CleanupGoesOn, QueryOver
<1> QED BY <1>1, <1>5, <1>6 DEF Next

(* No command is begun twice or out of turn, over any number of crashes and *)
(* restarts: what a pilot has not begun when it dies is never begun.        *)
THEOREM CommandsInTurn == Spec => []EachCommandOnce
<1>1. OrderInv => EachCommandOnce
  BY DEF OrderInv, Ordered, EachCommandOnce
<1> QED BY <1>1, InitOrder, OrderStep, AlwaysTyped, PTL DEF Spec
=============================================================================
