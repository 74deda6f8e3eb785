-------------------------- MODULE DeepSidecarProofs --------------------------
(* Theorems of DeepSidecar, for any tool threads, any terms, any caps and   *)
(* any number of abandoned messages.                                        *)
EXTENDS DeepSidecar, FiniteSetTheorems, TLAPS

(* What the pilot may ask; with mirrored caps it is not malformed.          *)
Legal(r) == /\ r.op \in {"detect", "segment"}
            /\ r.op = "segment" <=> r.prompts = {}
            /\ Mirrored => Canonical(r)

(* No fault of the prompts, and one of the frame only if it is the camera's.*)
Fit(a) == /\ Mirrored => a.status # "422"
          /\ a.status = "413" => camera = "large"
          /\ a.status = "400" => camera = "other"
          /\ a.valid

(* A message whose caller is not gone is the call that caller waits in.     *)
OfCaller(m) == m.by # NoOne => /\ phase[m.by] = "wait" /\ answer[m.by] = NoAnswer
                               /\ req[m.by].op = m.op /\ req[m.by].prompts = m.prompts

Asked == \A c \in Callers : phase[c] # "idle" => Legal(req[c])
Waiting == \A c \in Callers : answer[c] # NoAnswer => phase[c] = "wait"
Wired == \A m \in wire : Legal(m) /\ OfCaller(m)
Held == OfCaller(lock) /\ (lock # NoMessage => Legal(lock))

(* A caller has one message, on the wire or with a handler.                 *)
OneMessage == lock.by # NoOne => \A m \in wire : m.by # lock.by

(* The cache names the vocabulary the embeddings are of, and behind Prepare *)
(* that is the one of the call that holds the lock.                         *)
Switched == /\ vocab = classes
            /\ stage = "predict" /\ lock.op = "detect" => classes = lock.prompts

(* WireAgrees, its first conjunct for mirrored caps.                        *)
Agreed == \A c \in Callers : Fit(answer[c])

IInv == /\ TypeOK /\ Asked /\ Waiting /\ Wired /\ Held /\ OneMessage /\ Switched
        /\ OwnVocabulary /\ Agreed

-----------------------------------------------------------------------------
LEMMA Names == Slow \notin Tools /\ NoOne \notin Callers /\ Callers = Tools \cup {Slow}
BY DeepAssumption DEF Callers

Answers == [status : Statuses, used : SUBSET Terms, valid : BOOLEAN]

(* An answer that a handler or the client's own clock may bring.            *)
Proper(a, r) == /\ a \in Answers /\ a # NoAnswer /\ Fit(a)
                /\ a.status = "200" => a.used = r.prompts

LEMMA ProperStatus ==
  ASSUME NEW s \in Statuses \ {"none", "200"}, NEW r, Fit(Status(s))
  PROVE  Proper(Status(s), r)
<1>1. [status |-> s, used |-> {}, valid |-> TRUE] \in Answers
  BY DEF Answers
<1>2. Status(s).status = s /\ Status(s).valid
  BY DEF Status
<1>3. Status(s) # NoAnswer
  BY <1>2 DEF NoAnswer
<1> QED BY <1>1, <1>2, <1>3 DEF Proper, Status

(* The schema the client checks is kept by every mask the service makes.    *)
LEMMA ProperResult ==
  ASSUME NEW m \in Messages, Legal(m), NEW found \in BOOLEAN, classes \subseteq Terms,
         m.op = "detect" => classes = m.prompts
  PROVE  Proper(Result(m, found), m)
<1>1. SchemaOk(MaskResult(found))
  BY DEF SchemaOk, MaskResult
<1>2. (m.op = "detect" \/ SchemaOk(MaskResult(found))) = TRUE
  BY <1>1
<1> DEFINE u == IF m.op = "detect" THEN classes ELSE {}
<1>3. Result(m, found) = [status |-> "200", used |-> u, valid |-> TRUE]
  BY <1>2 DEF Result
<1>4. u = m.prompts /\ u \subseteq Terms
  BY DEF Legal
<1> HIDE DEF u
<1>5. [status |-> "200", used |-> u, valid |-> TRUE] \in Answers
  BY <1>4 DEF Answers, Statuses
<1>6. Result(m, found).status = "200" /\ Result(m, found).used = m.prompts /\ Result(m, found).valid
  BY <1>3, <1>4
<1>7. Result(m, found) # NoAnswer
  BY <1>6 DEF NoAnswer
<1> QED BY <1>3, <1>5, <1>6, <1>7 DEF Proper, Fit

LEMMA InitInv == Init => IInv
<1> SUFFICES ASSUME Init PROVE IInv
  OBVIOUS
<1>1. NoAnswer \in Answers /\ NoAnswer.valid /\ NoAnswer.status = "none"
  BY DEF NoAnswer, Answers, Statuses
<1>2. TypeOK
  <2>1. up \in BOOLEAN /\ answer \in [Callers -> Answers]
    BY <1>1 DEF Init
  <2>2. /\ lock \in Messages /\ wire \subseteq Messages
        /\ req \in [Callers -> [op : Ops, prompts : SUBSET Terms]]
    BY DEF Init, Messages, NoMessage, NoReq, Ops
  <2> QED BY <2>1, <2>2 DEF Init, TypeOK, Answers, Callers
<1>3. Asked /\ Waiting /\ Wired /\ OneMessage
  BY DEF Init, Asked, Waiting, Wired, OneMessage
<1>4. Held /\ Switched
  BY DEF Init, Held, Switched, OfCaller, NoMessage
<1>5. OwnVocabulary /\ Agreed
  BY <1>1 DEF Init, OwnVocabulary, Agreed, Fit
<1> QED BY <1>2, <1>3, <1>4, <1>5 DEF IInv

-----------------------------------------------------------------------------
(* A caller that no message is of moves on; what it asks is legal.          *)
LEMMA CallerMoves ==
  ASSUME IInv, NEW c \in Callers,
         NEW ph \in {"idle", "grabbed", "sent"}, NEW r \in [op : Ops, prompts : SUBSET Terms],
         phase[c] # "wait" \/ answer[c] # NoAnswer,
         phase' = [phase EXCEPT ![c] = ph], req' = [req EXCEPT ![c] = r],
         answer' = [answer EXCEPT ![c] = NoAnswer],
         ph # "idle" => Legal(r),
         busy' \in Tools \cup {NoOne},
         \A s \in Tools \ {c} : phase[s] = "wait" => busy' = s,
         UNCHANGED <<client, camera, up, wire, lock, stage, registry>>
  PROVE  IInv'
<1>1. NoAnswer \in Answers /\ NoAnswer.valid /\ NoAnswer.status = "none"
  BY DEF NoAnswer, Answers, Statuses
<1>2. UNCHANGED <<client, camera, up, wire, lock, stage, loaded, vocab, classes>>
  BY DEF registry
<1>3. TypeOK'
  <2>1. answer' \in [Callers -> Answers]
    BY <1>1 DEF IInv, TypeOK, Answers
  <2>2. /\ phase' \in [Callers -> {"idle", "grabbed", "sent", "wait"}]
        /\ req' \in [Callers -> [op : Ops, prompts : SUBSET Terms]]
    BY DEF IInv, TypeOK
  <2>3. \A s \in Tools : phase'[s] = "wait" => busy' = s
    BY DEF IInv, TypeOK, Callers
  <2> QED BY <1>2, <2>1, <2>2, <2>3 DEF IInv, TypeOK, Answers
<1>4. \A m \in wire \cup {lock} : m.by # NoOne => m.by # c
  BY DEF IInv, Wired, Held, OfCaller
<1>5. ASSUME NEW m \in wire \cup {lock}, OfCaller(m), m \in Messages PROVE OfCaller(m)'
  BY <1>4, <1>5 DEF OfCaller, Messages, IInv, TypeOK
<1>6. Asked'
  BY DEF IInv, TypeOK, Asked, Legal, Canonical, Mirrored
<1>7. Waiting'
  BY DEF IInv, TypeOK, Waiting
<1>8. Wired'
  BY <1>2, <1>5 DEF IInv, TypeOK, Wired, Legal, Canonical, Mirrored
<1>9. Held'
  BY <1>2, <1>5 DEF IInv, TypeOK, Held, Legal, Canonical, Mirrored
<1>10. OneMessage' /\ Switched'
  BY <1>2 DEF IInv, OneMessage, Switched
<1>11. OwnVocabulary' /\ Agreed'
  BY <1>1 DEF IInv, TypeOK, OwnVocabulary, Agreed, Fit
<1> QED BY <1>3, <1>6, <1>7, <1>8, <1>9, <1>10, <1>11 DEF IInv

(* A message the service takes no further is taken from the wire, or from   *)
(* the handler, and its caller, if it still waits, has a proper answer.     *)
LEMMA Answering ==
  ASSUME IInv, NEW m \in Messages, Legal(m), OfCaller(m), NEW a, Proper(a, m),
         Answered(m, a),
         \/ m \in wire /\ wire' = wire \ {m} /\ UNCHANGED <<lock, stage>>
         \/ m = lock /\ lock' = NoMessage /\ stage' = "none" /\ UNCHANGED wire,
         UNCHANGED <<client, camera, busy, phase, req, up, registry>>
  PROVE  IInv'
<1>1. UNCHANGED <<client, camera, busy, phase, req, up, loaded, vocab, classes>>
  BY DEF registry
<1>2. NoMessage \in Messages /\ NoMessage.by = NoOne
  BY DEF NoMessage, Messages, Ops
<1>3. wire' \subseteq wire /\ lock' \in {lock, NoMessage}
  OBVIOUS
<1>4. answer' \in [Callers -> Answers]
  BY DEF Answered, IInv, TypeOK, Answers, Proper, Messages
<1>5. \A c \in Callers : m.by # c => answer'[c] = answer[c]
  BY DEF Answered, IInv, TypeOK
<1>6. m.by # NoOne => m.by \in Callers /\ answer'[m.by] = a
  BY DEF Answered, IInv, TypeOK, Messages
<1>7. ASSUME NEW n \in wire' \cup {lock'}, n.by # NoOne PROVE n.by # m.by
  <2>1. CASE m = lock
    BY <1>2, <1>7, <2>1 DEF IInv, OneMessage
  <2>2. CASE m # lock
    <3>1. m \in wire /\ wire' = wire \ {m} /\ lock' = lock
      BY <2>2
    <3>2. CASE n = lock
      BY <1>7, <3>1, <3>2 DEF IInv, OneMessage
    <3>3. CASE n \in wire \ {m} /\ n.by = m.by
      <4>1. n \in Messages /\ OfCaller(n)
        BY <3>3 DEF IInv, TypeOK, Wired
      <4>2. n.op = m.op /\ n.prompts = m.prompts
        BY <1>7, <3>3, <4>1 DEF OfCaller
      <4>3. n = m
        BY <3>3, <4>1, <4>2 DEF Messages
      <4> QED BY <3>3, <4>3
    <3> QED BY <1>7, <3>1, <3>2, <3>3
  <2> QED BY <2>1, <2>2
<1>8. ASSUME NEW n \in wire' \cup {lock'} PROVE OfCaller(n)'
  <2>1. n \in Messages /\ OfCaller(n)
    BY <1>2, <1>3 DEF IInv, TypeOK, Wired, Held, OfCaller
  <2>2. n.by # NoOne => n.by \in Callers /\ answer'[n.by] = answer[n.by]
    BY <1>5, <1>7, <2>1 DEF Messages
  <2> QED BY <1>1, <2>1, <2>2 DEF OfCaller
<1>9. TypeOK'
  <2>1. stage' \in {"none", "load", "predict"} /\ (stage' = "none" <=> lock' = NoMessage)
    BY DEF IInv, TypeOK
  <2>2. wire' \subseteq Messages /\ lock' \in Messages
    BY <1>2, <1>3 DEF IInv, TypeOK
  <2> QED BY <1>1, <1>4, <2>1, <2>2 DEF IInv, TypeOK, Answers
<1>10. Asked'
  BY <1>1 DEF IInv, Asked, Legal, Canonical, Mirrored
<1>11. ASSUME NEW c \in Callers
       PROVE  \/ answer'[c] = answer[c]
              \/ phase[c] = "wait" /\ answer'[c] = a /\ req[c].prompts = m.prompts
  <2>1. CASE m.by = c
    BY <1>6, <2>1, Names DEF OfCaller
  <2> QED BY <1>5, <2>1
<1>17. Waiting'
  BY <1>1, <1>11 DEF IInv, Waiting
<1>12. Wired'
  BY <1>3, <1>8 DEF IInv, Wired, Legal, Canonical, Mirrored
<1>13. Held'
  BY <1>3, <1>8 DEF IInv, Held, Legal, Canonical, Mirrored
<1>14. OneMessage'
  BY <1>2, <1>3 DEF IInv, OneMessage
<1>15. Switched'
  BY <1>1 DEF IInv, Switched
<1>16. OwnVocabulary' /\ Agreed'
  <2>1. ASSUME NEW c \in Callers
        PROVE  /\ answer'[c].status = "200" => answer'[c].used = req[c].prompts
    BY <1>11 DEF IInv, OwnVocabulary, Proper
  <2>2. ASSUME NEW c \in Callers PROVE Fit(answer'[c])
    <3>1. CASE answer'[c] = answer[c]
      BY <3>1 DEF IInv, Agreed
    <3>2. CASE answer'[c] = a
      BY <3>2 DEF Proper
    <3> QED BY <1>11, <3>1, <3>2
  <2> QED BY <1>1, <2>1, <2>2 DEF OwnVocabulary, Agreed, Fit
<1> QED BY <1>9, <1>10, <1>17, <1>12, <1>13, <1>14, <1>15, <1>16 DEF IInv

(* A caller sends: its message joins the wire, or it is told at once.       *)
LEMMA Calling ==
  ASSUME IInv, NEW c \in Callers, phase[c] \in {"grabbed", "sent"}, Call(c),
         phase' = [phase EXCEPT ![c] = "wait"],
         busy' \in Tools \cup {NoOne}, \A s \in Tools : phase'[s] = "wait" => busy' = s,
         UNCHANGED <<client, camera, req, up, lock, stage, registry>>
  PROVE  IInv'
<1>0. PICK m : m = Message(c)
  OBVIOUS
<1>1. UNCHANGED <<client, camera, req, up, lock, stage, loaded, vocab, classes>>
  BY DEF registry
<1>2. /\ m \in Messages /\ m.by = c /\ m.op = req[c].op /\ m.prompts = req[c].prompts
      /\ Legal(req[c]) /\ answer[c] = NoAnswer
  BY <1>0 DEF Message, Messages, IInv, TypeOK, Asked, Waiting
<1>3. Legal(m)
  BY <1>2 DEF Legal, Canonical, Mirrored
<1>4. \A n \in wire \cup {lock} : n.by # NoOne => n.by # c
  BY DEF IInv, Wired, Held, OfCaller
<1>5. /\ phase' \in [Callers -> {"idle", "grabbed", "sent", "wait"}]
      /\ phase'[c] = "wait" /\ \A d \in Callers : d # c => phase'[d] = phase[d]
  BY DEF IInv, TypeOK
<1>6. CASE answer' = [answer EXCEPT ![c] = Status("UNAVAILABLE")] /\ UNCHANGED wire
  <2>1. Proper(Status("UNAVAILABLE"), req[c])
    BY ProperStatus DEF Statuses, Fit, Status
  <2> DEFINE a == Status("UNAVAILABLE")
  <2>2. a \in Answers /\ Fit(a) /\ a.status # "200"
    BY <2>1 DEF Proper, Status
  <2> HIDE DEF a
  <2>3. /\ answer' \in [Callers -> Answers] /\ answer'[c] = a
        /\ \A d \in Callers : d # c => answer'[d] = answer[d]
    BY <1>6, <2>2 DEF IInv, TypeOK, Answers, a
  <2>4. TypeOK'
    BY <1>1, <1>5, <1>6, <2>3 DEF IInv, TypeOK, Answers
  <2>5. ASSUME NEW n \in wire \cup {lock} PROVE OfCaller(n)'
    <3>1. OfCaller(n) /\ n \in Messages
      BY DEF IInv, TypeOK, Wired, Held
    <3> QED BY <1>1, <1>4, <1>5, <2>3, <3>1 DEF OfCaller, Messages
  <2>6. Wired' /\ Held'
    BY <1>1, <1>6, <2>5 DEF IInv, Wired, Held, Legal, Canonical, Mirrored
  <2>7. Asked'
    BY <1>1, <1>2, <1>5 DEF IInv, Asked, Legal, Canonical, Mirrored
  <2>8. Waiting'
    BY <1>5, <2>3 DEF IInv, Waiting
  <2>9. OneMessage' /\ Switched'
    BY <1>1, <1>6 DEF IInv, OneMessage, Switched
  <2>10. OwnVocabulary' /\ Agreed'
    BY <1>1, <2>2, <2>3 DEF IInv, OwnVocabulary, Agreed, Fit
  <2> QED BY <2>4, <2>6, <2>7, <2>8, <2>9, <2>10 DEF IInv
<1>7. CASE wire' = wire \cup {m} /\ UNCHANGED answer
  <2>1. TypeOK'
    BY <1>1, <1>2, <1>5, <1>7 DEF IInv, TypeOK
  <2>2. ASSUME NEW n \in wire \cup {lock} PROVE OfCaller(n)'
    <3>1. OfCaller(n) /\ n \in Messages
      BY DEF IInv, TypeOK, Wired, Held
    <3> QED BY <1>1, <1>4, <1>5, <1>7, <3>1 DEF OfCaller, Messages
  <2>3. OfCaller(m)'
    BY <1>1, <1>2, <1>5, <1>7 DEF OfCaller
  <2>4. Wired'
    BY <1>3, <1>7, <2>2, <2>3 DEF IInv, Wired, Legal, Canonical, Mirrored
  <2>5. Held'
    BY <1>1, <2>2 DEF IInv, Held, Legal, Canonical, Mirrored
  <2>6. Asked'
    BY <1>1, <1>2, <1>5 DEF IInv, Asked, Legal, Canonical, Mirrored
  <2>7. Waiting'
    BY <1>5, <1>7 DEF IInv, Waiting
  <2>8. OneMessage'
    BY <1>1, <1>2, <1>4, <1>7 DEF IInv, OneMessage
  <2>9. Switched' /\ OwnVocabulary' /\ Agreed'
    BY <1>1, <1>7 DEF IInv, Switched, OwnVocabulary, Agreed, Fit
  <2> QED BY <2>1, <2>4, <2>5, <2>6, <2>7, <2>8, <2>9 DEF IInv
<1> QED BY <1>0, <1>6, <1>7 DEF Call

(* A caller gives up: its message is dropped, or is nobody's from now on.   *)
LEMMA GivingUp ==
  ASSUME IInv, NEW c \in Callers, GiveUp(c)
  PROVE  IInv'
<1>1. UNCHANGED <<client, camera, busy, phase, req, up, stage, loaded, vocab, classes>>
  BY DEF GiveUp, registry
<1> DEFINE a == Status("UNAVAILABLE")
<1>2. a \in Answers /\ Fit(a) /\ a.status # "200"
  BY ProperStatus DEF Proper, Fit, Status, Statuses
<1> HIDE DEF a
<1>3. /\ answer' \in [Callers -> Answers] /\ answer'[c] = a
      /\ \A d \in Callers : d # c => answer'[d] = answer[d]
  BY <1>2 DEF GiveUp, IInv, TypeOK, Answers, a
<1>4. ASSUME NEW n \in Messages
      PROVE  /\ Orphan(c, n) \in Messages /\ Orphan(c, n).by # c
             /\ Orphan(c, n).op = n.op /\ Orphan(c, n).prompts = n.prompts
             /\ Orphan(c, n).by # NoOne => Orphan(c, n) = n
  BY Names DEF Orphan, Messages
<1>5. lock' = Orphan(c, lock) /\ lock \in Messages /\ wire \subseteq Messages
  BY DEF GiveUp, IInv, TypeOK
<1>6. \A n \in wire' : n.by # c /\ \E o \in wire : n \in {o, Orphan(c, o)}
  BY <1>4, <1>5 DEF GiveUp
<1>7. lock' = NoMessage <=> lock = NoMessage
  <2>1. lock # NoMessage => Legal(lock)
    BY DEF IInv, Held
  <2>2. lock # NoMessage => lock'.op \in {"detect", "segment"}
    BY <1>4, <1>5, <2>1 DEF Legal
  <2>3. lock = NoMessage => lock' = NoMessage
    BY <1>5, Names DEF Orphan, NoMessage
  <2> QED BY <2>2, <2>3 DEF NoMessage
<1>8. ASSUME NEW n, OfCaller(n), n \in Messages, n.by # c PROVE OfCaller(n)'
  BY <1>1, <1>3, <1>8 DEF OfCaller, Messages
<1>9. \A n \in wire' : n \in Messages /\ Legal(n) /\ OfCaller(n)
  <2>1. ASSUME NEW o \in wire
        PROVE /\ o \in Messages /\ Legal(o) /\ OfCaller(o)
              /\ Orphan(c, o) \in Messages /\ Legal(Orphan(c, o)) /\ OfCaller(Orphan(c, o))
    <3>1. o \in Messages /\ Legal(o) /\ OfCaller(o)
      BY DEF IInv, TypeOK, Wired
    <3>2. Legal(Orphan(c, o))
      BY <1>4, <3>1 DEF Legal, Canonical, Mirrored
    <3>3. OfCaller(Orphan(c, o))
      BY <1>4, <3>1 DEF OfCaller
    <3> QED BY <1>4, <3>1, <3>2, <3>3
  <2> QED BY <1>6, <2>1
<1>10. TypeOK'
  BY <1>1, <1>3, <1>4, <1>5, <1>7, <1>9 DEF IInv, TypeOK, Answers
<1>11. Asked'
  BY <1>1 DEF IInv, Asked, Legal, Canonical, Mirrored
<1>12. Waiting'
  BY <1>1, <1>3 DEF IInv, Waiting, GiveUp
<1>13. Wired'
  BY <1>6, <1>8, <1>9 DEF Wired, Legal, Canonical, Mirrored
<1>14. Held'
  <2>1. OfCaller(lock') /\ (lock' # NoMessage => Legal(lock'))
    BY <1>4, <1>5, <1>7 DEF IInv, Held, OfCaller, Legal, Canonical, Mirrored
  <2>2. lock'.by # c /\ lock' \in Messages
    BY <1>4, <1>5
  <2>3. lock'.by # NoOne => /\ phase'[lock'.by] = "wait" /\ answer'[lock'.by] = NoAnswer
                            /\ req'[lock'.by].op = lock'.op
                            /\ req'[lock'.by].prompts = lock'.prompts
    BY <1>1, <1>3, <2>1, <2>2 DEF OfCaller, Messages
  <2> QED BY <2>1, <2>3 DEF Held, OfCaller, Legal, Canonical, Mirrored
<1>15. OneMessage'
  <2>1. ASSUME lock'.by # NoOne, NEW n \in wire', n.by = lock'.by PROVE FALSE
    <3>1. PICK o \in wire : n \in {o, Orphan(c, o)}
      BY <1>6
    <3>2. n = o /\ lock' = lock
      BY <1>4, <1>5, <2>1, <3>1
    <3> QED BY <2>1, <3>2 DEF IInv, OneMessage
  <2> QED BY <2>1 DEF OneMessage
<1>16. Switched'
  BY <1>1, <1>4, <1>5 DEF IInv, Switched
<1>17. OwnVocabulary' /\ Agreed'
  BY <1>1, <1>2, <1>3 DEF IInv, OwnVocabulary, Agreed, Fit
<1> QED BY <1>10, <1>11, <1>12, <1>13, <1>14, <1>15, <1>16, <1>17 DEF IInv

LEMMA Refusing == ASSUME IInv, Refuse PROVE IInv'
<1>1. PICK m \in wire : /\ Refusal(m) # "none" /\ wire' = wire \ {m}
                        /\ Answered(m, Status(Refusal(m)))
                        /\ UNCHANGED <<client, camera, busy, phase, req, up, lock, stage, registry>>
  BY DEF Refuse
<1>2. m \in Messages /\ Legal(m) /\ OfCaller(m)
  BY DEF IInv, TypeOK, Wired
<1>3. /\ Refusal(m) \in Statuses \ {"none", "200"}
      /\ Refusal(m) = "413" => camera = "large"
      /\ Refusal(m) = "400" => camera = "other"
      /\ Mirrored => Refusal(m) # "422"
  BY <1>1, <1>2 DEF Refusal, Legal, Statuses
<1>4. Proper(Status(Refusal(m)), m)
  <2>1. Fit(Status(Refusal(m)))
    BY <1>3 DEF Fit, Status
  <2> QED BY <1>3, <2>1, ProperStatus
<1>5. PICK a : a = Status(Refusal(m))
  OBVIOUS
<1>6. Proper(a, m) /\ Answered(m, a)
  BY <1>1, <1>4, <1>5
<1> QED BY <1>1, <1>2, <1>6, Answering

LEMMA Inferring == ASSUME IInv, Infer PROVE IInv'
<1>1. PICK m : m = lock
  OBVIOUS
<1>2. m \in Messages /\ Legal(m) /\ OfCaller(m)
  BY <1>1 DEF IInv, TypeOK, Held, Infer
<1>3. PICK a : Proper(a, m) /\ Answered(m, a)
  <2>1. CASE Answered(lock, Status("500"))
    <3>1. Proper(Status("500"), m)
      BY ProperStatus DEF Statuses, Fit, Status
    <3> QED BY <1>1, <2>1, <3>1
  <2>2. CASE stage = "predict" /\ \E found \in BOOLEAN : Answered(lock, Result(lock, found))
    <3>1. PICK found \in BOOLEAN : Answered(m, Result(m, found))
      BY <1>1, <2>2
    <3>2. classes \subseteq Terms /\ (m.op = "detect" => classes = m.prompts)
      BY <1>1, <2>2 DEF IInv, TypeOK, Switched
    <3>3. Proper(Result(m, found), m)
      BY <1>2, <3>2, ProperResult
    <3> QED BY <3>1, <3>3
  <2> QED BY <2>1, <2>2 DEF Infer
<1>4. /\ m = lock /\ lock' = NoMessage /\ stage' = "none"
      /\ UNCHANGED <<client, camera, busy, phase, req, up, wire, registry>>
  BY <1>1 DEF Infer
<1> QED BY <1>2, <1>3, <1>4, Answering

LEMMA Accepting == ASSUME IInv, Accept PROVE IInv'
<1>1. PICK m \in wire : /\ Refusal(m) = "none" /\ wire' = wire \ {m} /\ lock' = m
                        /\ stage' = "load" /\ UNCHANGED <<calls, up, registry>>
  BY DEF Accept
<1>2. UNCHANGED <<client, camera, busy, phase, req, answer, up, loaded, vocab, classes>>
  BY <1>1 DEF calls, registry
<1>3. m \in Messages /\ Legal(m) /\ OfCaller(m)
  BY DEF IInv, TypeOK, Wired
<1>4. m # NoMessage
  BY <1>3 DEF Legal, NoMessage
<1>5. ASSUME NEW n \in wire, OfCaller(n) PROVE OfCaller(n)'
  BY <1>2, <1>5 DEF OfCaller
<1>6. TypeOK'
  BY <1>1, <1>2, <1>3, <1>4 DEF IInv, TypeOK
<1>7. Asked'
  BY <1>2 DEF IInv, Asked, Legal, Canonical, Mirrored
<1>8. Wired'
  BY <1>1, <1>5 DEF IInv, Wired, Legal, Canonical, Mirrored
<1>9. Held'
  BY <1>1, <1>3, <1>5 DEF Held, Legal, Canonical, Mirrored
<1>10. OneMessage'
  <2>1. ASSUME m.by # NoOne, NEW n \in wire, n.by = m.by PROVE n = m
    <3>1. n \in Messages /\ OfCaller(n)
      BY DEF IInv, TypeOK, Wired
    <3>2. n.op = m.op /\ n.prompts = m.prompts
      BY <1>3, <2>1, <3>1 DEF OfCaller
    <3> QED BY <1>3, <2>1, <3>1, <3>2 DEF Messages
  <2> QED BY <1>1, <2>1 DEF OneMessage
<1>11. Waiting' /\ Switched' /\ OwnVocabulary' /\ Agreed'
  BY <1>1, <1>2 DEF IInv, Waiting, Switched, OwnVocabulary, Agreed, Fit
<1> QED BY <1>6, <1>7, <1>8, <1>9, <1>10, <1>11 DEF IInv

(* Behind it the embeddings are of the held call's own words: a cache that  *)
(* matches is of them already, any other is replaced.                       *)
LEMMA Preparing == ASSUME IInv, Prepare PROVE IInv'
<1>1. UNCHANGED <<client, camera, busy, phase, req, answer, up, wire, lock>> /\ stage' = "predict"
  BY DEF Prepare, calls
<1>2. Legal(lock) /\ lock \in Messages /\ lock # NoMessage
  BY DEF Prepare, IInv, TypeOK, Held
<1>3. lock.op = "detect" => lock.prompts # {}
  BY <1>2 DEF Legal, Canonical, Mirrored
<1>4. /\ vocab' = classes' /\ vocab' \subseteq Terms
      /\ lock.op = "detect" => classes' = lock.prompts
  BY <1>2, <1>3 DEF Prepare, CachedVocab, IInv, TypeOK, Switched, Messages
<1>5. TypeOK'
  <2>1. loaded' \subseteq {"world", "sam"}
    BY DEF Prepare, ModelOf, IInv, TypeOK
  <2>2. stage' \in {"none", "load", "predict"} /\ stage' # "none" /\ lock' # NoMessage
    BY <1>1, <1>2
  <2> QED BY <1>1, <1>4, <2>1, <2>2 DEF IInv, TypeOK
<1>6. Asked' /\ Wired' /\ Held'
  BY <1>1 DEF IInv, Asked, Wired, Held, OfCaller, Legal, Canonical, Mirrored
<1>7. Waiting' /\ OneMessage' /\ OwnVocabulary' /\ Agreed'
  BY <1>1 DEF IInv, Waiting, OneMessage, OwnVocabulary, Agreed, Fit
<1>8. Switched'
  BY <1>1, <1>4 DEF Switched
<1> QED BY <1>5, <1>6, <1>7, <1>8 DEF IInv

LEMMA Crashing == ASSUME IInv, Crash PROVE IInv'
<1>1. /\ UNCHANGED <<client, camera, busy, phase, req>> /\ up' = FALSE /\ wire' = {}
      /\ lock' = NoMessage /\ stage' = "none"
      /\ loaded' = {} /\ vocab' = {} /\ classes' = {}
  BY DEF Crash
<1> DEFINE a == Status("UNAVAILABLE")
<1>2. a \in Answers /\ Fit(a) /\ a.status # "200"
  BY ProperStatus DEF Proper, Fit, Status, Statuses
<1> HIDE DEF a
<1>3. answer' = [c \in Callers |-> IF phase[c] = "wait" /\ answer[c] = NoAnswer THEN a ELSE answer[c]]
  BY DEF Crash, a
<1>4. ASSUME NEW c \in Callers
      PROVE  \/ answer'[c] = answer[c]
             \/ phase[c] = "wait" /\ answer'[c] = a
  BY <1>3
<1>5. TypeOK'
  <2>1. answer' \in [Callers -> Answers]
    <3>1. answer \in [Callers -> Answers]
      BY DEF IInv, TypeOK, Answers
    <3> QED BY <1>2, <1>3, <3>1
  <2>2. lock' \in Messages
    BY <1>1 DEF NoMessage, Messages, Ops
  <2>3. up' \in BOOLEAN
    BY <1>1
  <2> QED BY <1>1, <2>1, <2>2, <2>3 DEF IInv, TypeOK, Answers
<1>6. Asked'
  BY <1>1 DEF IInv, Asked, Legal, Canonical, Mirrored
<1>7. Wired' /\ Held' /\ OneMessage' /\ Switched'
  BY <1>1 DEF Wired, Held, OfCaller, OneMessage, Switched, NoMessage
<1>8. Waiting'
  BY <1>1, <1>4 DEF IInv, Waiting
<1>9. OwnVocabulary' /\ Agreed'
  BY <1>1, <1>2, <1>4 DEF IInv, OwnVocabulary, Agreed, Fit
<1> QED BY <1>5, <1>6, <1>7, <1>8, <1>9 DEF IInv

-----------------------------------------------------------------------------
(* A legal look passes the service's own check.                             *)
LEMMA AskedIsLegal ==
  /\ \A what \in SUBSET Terms :
       LET r == [op |-> "detect", prompts |-> what]
       IN PromptsOk(what) => Legal(r) /\ r \in [op : Ops, prompts : SUBSET Terms]
  /\ LET r == [op |-> "segment", prompts |-> {}]
     IN Legal(r) /\ r \in [op : Ops, prompts : SUBSET Terms]
  /\ LET r == [op |-> "detect", prompts |-> LaneVocab]
     IN Legal(r) /\ r \in [op : Ops, prompts : SUBSET Terms]
<1>1. ASSUME NEW what \in SUBSET Terms, PromptsOk(what), Mirrored
      PROVE  Cardinality(what) <= ServiceMax /\ what \cap ServiceLong = {}
  <2>1. IsFiniteSet(what)
    BY DeepAssumption, FS_Subset
  <2>2. Cardinality(what) \in Nat
    BY <2>1, FS_CardinalityType
  <2> QED BY <1>1, <2>2, DeepAssumption DEF PromptsOk, Mirrored
<1>2. \A what \in SUBSET Terms :
        LET r == [op |-> "detect", prompts |-> what]
        IN PromptsOk(what) => Legal(r) /\ r \in [op : Ops, prompts : SUBSET Terms]
  BY <1>1 DEF PromptsOk, Legal, Canonical, Ops
<1>3. LET r == [op |-> "segment", prompts |-> {}]
      IN Legal(r) /\ r \in [op : Ops, prompts : SUBSET Terms]
  BY DEF Legal, Canonical, Ops
<1>4. LET r == [op |-> "detect", prompts |-> LaneVocab]
      IN Legal(r) /\ r \in [op : Ops, prompts : SUBSET Terms]
  BY DeepAssumption DEF Legal, Mirrored, Ops
<1> QED BY <1>2, <1>3, <1>4

LEMMA Step == ASSUME IInv, [Next]_vars PROVE IInv'
<1>1. NoReq \in [op : Ops, prompts : SUBSET Terms] /\ busy \in Tools \cup {NoOne}
  BY DEF NoReq, Ops, IInv, TypeOK
<1>2. /\ \A s \in Tools : phase[s] = "wait" => busy = s
      /\ \A c \in Callers : answer[c] # NoAnswer => phase[c] = "wait"
      /\ answer \in [Callers -> Answers]
  BY DEF IInv, TypeOK, Waiting, Answers
<1>3. ASSUME NEW t \in Tools, NEW r, Grab(t, r), Legal(r), r \in [op : Ops, prompts : SUBSET Terms]
      PROVE  IInv'
  <2>1. answer' = [answer EXCEPT ![t] = NoAnswer]
    BY <1>2, <1>3 DEF Grab, Callers
  <2> QED BY <1>1, <1>2, <1>3, <2>1, CallerMoves DEF Grab, Callers
<1>4. ASSUME NEW t \in Tools, Look(t) PROVE IInv'
  BY <1>3, <1>4, AskedIsLegal DEF Look
<1>5. ASSUME NEW t \in Tools, Pinpoint(t) PROVE IInv'
  BY <1>3, <1>5, AskedIsLegal DEF Pinpoint
<1>6. ASSUME NEW t \in Tools, TakeBusy(t) PROVE IInv'
  <2>1. \A s \in Tools : phase'[s] = "wait" => busy' = s
    BY <1>2, <1>6, Names DEF TakeBusy, IInv, TypeOK
  <2> QED BY <1>6, <2>1, Calling DEF TakeBusy, Callers
<1>7. ASSUME NEW t \in Tools, BusyRefuses(t) PROVE IInv'
  BY <1>1, <1>2, <1>7, CallerMoves DEF BusyRefuses, Idle, Callers
<1>8. ASSUME NEW t \in Tools, ToolBack(t) PROVE IInv'
  <2>1. \A s \in Tools \ {t} : phase[s] # "wait"
    BY <1>2, <1>8 DEF ToolBack
  <2> QED BY <1>1, <1>8, <2>1, CallerMoves DEF ToolBack, Idle, Callers
<1>9. CASE LaneCalls
  <2>1. answer' = [answer EXCEPT ![Slow] = NoAnswer]
    BY <1>2, <1>9, Names DEF LaneCalls
  <2> DEFINE r == [op |-> "detect", prompts |-> LaneVocab]
  <2>2. Legal(r) /\ r \in [op : Ops, prompts : SUBSET Terms]
    BY AskedIsLegal
  <2> HIDE DEF r
  <2>3. req' = [req EXCEPT ![Slow] = r]
    BY <1>9 DEF LaneCalls, r
  <2> QED BY <1>1, <1>2, <1>9, <2>1, <2>2, <2>3, Names, CallerMoves DEF LaneCalls
<1>10. CASE LaneSends
  <2>1. \A s \in Tools : phase'[s] = "wait" => busy' = s
    BY <1>2, <1>10, Names DEF LaneSends, IInv, TypeOK
  <2> QED BY <1>1, <1>10, <2>1, Names, Calling DEF LaneSends
<1>11. CASE LaneBack
  BY <1>1, <1>2, <1>11, Names, CallerMoves DEF LaneBack, Idle
<1>12. CASE Restart
  <2>1. up' \in BOOLEAN /\ UNCHANGED <<client, camera, busy, phase, req, answer, wire, lock, stage, loaded, vocab, classes>>
    BY <1>12 DEF Restart, calls, registry
  <2>2. TypeOK'
    BY <2>1 DEF IInv, TypeOK
  <2>3. Asked' /\ Wired' /\ Held'
    BY <2>1 DEF IInv, Asked, Wired, Held, OfCaller, Legal, Canonical, Mirrored
  <2> QED BY <2>1, <2>2, <2>3 DEF IInv, Waiting, OneMessage, Switched, OwnVocabulary, Agreed, Fit
<1>13. CASE UNCHANGED vars
  <2>1. UNCHANGED <<client, camera, busy, phase, req, answer, up, wire, lock, stage, loaded, vocab, classes>>
    BY <1>13 DEF vars, calls, registry
  <2>2. TypeOK'
    BY <2>1 DEF IInv, TypeOK
  <2>3. Asked' /\ Wired' /\ Held'
    BY <2>1 DEF IInv, Asked, Wired, Held, OfCaller, Legal, Canonical, Mirrored
  <2> QED BY <2>1, <2>2, <2>3 DEF IInv, Waiting, OneMessage, Switched, OwnVocabulary, Agreed, Fit
<1> QED BY <1>4, <1>5, <1>6, <1>7, <1>8, <1>9, <1>10, <1>11, <1>12, <1>13,
          GivingUp, Refusing, Accepting, Preparing, Inferring, Crashing
       DEF Next, ToolGoesOn, LaneGoesOn

LEMMA AlwaysInv == Spec => []IInv
<1> QED BY InitInv, Step, PTL DEF Spec

(* The path's variables keep their types, a tool thread that waits for the  *)
(* sidecar holds the busy flag (take_busy of deep_tools), and the service   *)
(* infers exactly while its lock is held.                                   *)
THEOREM PathTyped == Spec => []TypeOK
<1>1. IInv => TypeOK
  BY DEF IInv
<1> QED BY <1>1, AlwaysInv, PTL

(* deep_tools' busy flag does what its comment says: one call in flight     *)
(* across look and pinpoint, for any number of tool threads.                *)
THEOREM OneInFlight == Spec => []OneToolCall
<1>1. IInv => OneToolCall
  BY DEF IInv, TypeOK, OneToolCall
<1> QED BY <1>1, AlwaysInv, PTL

(* registry.py switches the vocabulary of its one world model from call to  *)
(* call, and yet every 200 was inferred on the words of its own caller.     *)
THEOREM AnsweredForOwnWords == Spec => []OwnVocabulary
<1>1. IInv => OwnVocabulary
  BY DEF IInv
<1> QED BY <1>1, AlwaysInv, PTL

(* deep_tools.py, slowlane.py and registry.py each hold their own copy of   *)
(* the caps, deep_client.py and service.py their own of the schema.  While  *)
(* the copies on the pilot's side are no laxer, whatever their values, the  *)
(* service finds fault with nothing but the camera's frame.                 *)
THEOREM EndsAgree == ASSUME Mirrored PROVE Spec => []WireAgrees
<1>1. IInv => WireAgrees
  BY DEF IInv, Agreed, Fit, WireAgrees
<1> QED BY <1>1, AlwaysInv, PTL
=============================================================================
