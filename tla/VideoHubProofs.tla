-------------------------- MODULE VideoHubProofs --------------------------
(* Theorems of VideoHub, for any number of viewers, any GOP and any queue   *)
(* bound that holds a GOP.                                                  *)
EXTENDS VideoHub, SequenceTheorems, TLAPS

Units == {"key", "delta", "cut"}

(* TypeOK, with the operators of a queue folded.                            *)
LEMMA QueueBounds ==
  ASSUME TypeOK, NEW v \in Viewers
  PROVE  /\ queue[v] \in Seq(Units)
         /\ Len(queue[v]) \in Nat
         /\ Len(queue[v]) <= Maxsize
         /\ Maxsize \in Nat \ {0}
         /\ age \in 0 .. Gop - 1
         /\ Gop \in Nat \ {0}
<1>1. queue[v] \in Seq(Units)
  BY DEF TypeOK, Units
<1> QED BY <1>1, LenProperties, VideoAssumption DEF TypeOK

(* Dropping the oldest unit: every other keyframe keeps its distance from   *)
(* the newest unit, and the newest is kept.                                 *)
LEMMA PutDrops ==
  ASSUME NEW q \in Seq(Units), NEW au \in Units,
         Maxsize \in Nat \ {0}, Len(q) = Maxsize
  PROVE  /\ Put(q, au) \in Seq(Units)
         /\ Len(Put(q, au)) = Maxsize
         /\ au = "key" => Put(q, au)[Maxsize] = "key"
         /\ \A i \in 2 .. Maxsize : q[i] = "key" => Put(q, au)[i - 1] = "key"
<1> DEFINE kept == Append(Tail(q), au)
           head == IF kept[1] = "delta" THEN "cut" ELSE kept[1]
<1>1. q # <<>>
  BY EmptySeq
<1>2. /\ Tail(q) \in Seq(Units)
      /\ Len(Tail(q)) = Maxsize - 1
      /\ \A i \in 1 .. Maxsize - 1 : Tail(q)[i] = q[i + 1]
  BY <1>1, HeadTailProperties
<1>3. /\ kept \in Seq(Units)
      /\ Len(kept) = Maxsize
      /\ kept[Maxsize] = au
      /\ \A i \in 1 .. Maxsize - 1 : kept[i] = q[i + 1]
  BY <1>2, AppendProperties
<1>4. 1 \in 1 .. Len(kept)
  BY <1>3
<1>5. Put(q, au) = [kept EXCEPT ![1] = head]
  BY <1>1, <1>3, <1>4 DEF Put
<1> HIDE DEF kept
<1>6. kept[1] \in Units
  BY <1>3, <1>4, ElementOfSeq
<1>7. head \in Units
  BY <1>6 DEF Units
<1>8. kept[1] = "key" => head = "key"
  OBVIOUS
<1> HIDE DEF head
<1>9. /\ Put(q, au) \in Seq(Units)
      /\ Len(Put(q, au)) = Maxsize
      /\ \A j \in 1 .. Maxsize : Put(q, au)[j] = IF j = 1 THEN head ELSE kept[j]
  BY <1>3, <1>4, <1>5, <1>7, ExceptSeq
<1>10. \A j \in 1 .. Maxsize : kept[j] = "key" => Put(q, au)[j] = "key"
  BY <1>8, <1>9
<1>11. \A i \in 2 .. Maxsize : q[i] = "key" => Put(q, au)[i - 1] = "key"
  <2>1. ASSUME NEW i \in 2 .. Maxsize, q[i] = "key"
        PROVE  Put(q, au)[i - 1] = "key"
    <3>1. i - 1 \in 1 .. Maxsize - 1 /\ (i - 1) + 1 = i
      OBVIOUS
    <3>2. kept[i - 1] = q[i]
      BY <1>3, <3>1
    <3> QED BY <1>10, <2>1, <3>1, <3>2
  <2> QED BY <2>1
<1> QED BY <1>3, <1>9, <1>10, <1>11

(* A queue with room keeps everything where it is.                          *)
LEMMA PutAppends ==
  ASSUME NEW q \in Seq(Units), NEW au \in Units,
         Maxsize \in Nat, Len(q) < Maxsize
  PROVE  /\ Put(q, au) \in Seq(Units)
         /\ Len(Put(q, au)) = Len(q) + 1
         /\ au = "key" => Put(q, au)[Len(q) + 1] = "key"
         /\ \A i \in 1 .. Len(q) : q[i] = "key" => Put(q, au)[i] = "key"
<1>1. Put(q, au) = Append(q, au)
  BY DEF Put
<1> QED BY <1>1, AppendProperties

-----------------------------------------------------------------------------
(* A unit broadcast moves the last keyframe of a queue one unit back, or is *)
(* it: the two facts the theorems need of EncodeDone.                       *)
LEMMA BroadcastKeepsKey ==
  ASSUME TypeOK, KeyPlaced, NEW v \in Viewers, NEW au \in Units
  PROVE  LET q == Put(queue[v], au)
             n == IF au = "key" THEN 0 ELSE age + 1
         IN  /\ q \in Seq(Units)
             /\ Len(q) \in Nat
             /\ Len(q) <= Maxsize
             /\ Len(q) > n => q[Len(q) - n] = "key"
<1> DEFINE q == Put(queue[v], au)
           n == IF au = "key" THEN 0 ELSE age + 1
<1>1. /\ queue[v] \in Seq(Units)
      /\ Len(queue[v]) \in Nat
      /\ Len(queue[v]) <= Maxsize
      /\ Maxsize \in Nat \ {0}
      /\ age \in 0 .. Gop - 1
      /\ Gop \in Nat \ {0}
  BY QueueBounds
<1>2. Len(queue[v]) > age => queue[v][Len(queue[v]) - age] = "key"
  BY DEF KeyPlaced
<1>3. CASE Len(queue[v]) < Maxsize
  <2>1. /\ q \in Seq(Units)
        /\ Len(q) = Len(queue[v]) + 1
        /\ au = "key" => q[Len(queue[v]) + 1] = "key"
        /\ \A i \in 1 .. Len(queue[v]) : queue[v][i] = "key" => q[i] = "key"
    BY <1>1, <1>3, PutAppends
  <2> HIDE DEF q
  <2>2. ASSUME Len(q) > n
        PROVE  q[Len(q) - n] = "key"
    <3>1. CASE au = "key"
      BY <1>1, <2>1, <3>1
    <3>2. CASE au # "key"
      <4>1. /\ Len(queue[v]) > age
            /\ Len(q) - n = Len(queue[v]) - age
            /\ Len(queue[v]) - age \in 1 .. Len(queue[v])
        <5>1. n = age + 1
          BY <3>2
        <5>2. age \in Nat /\ Len(q) > age + 1
          BY <1>1, <2>2, <5>1
        <5> HIDE DEF n
        <5> QED BY <1>1, <2>1, <5>1, <5>2
      <4> QED BY <1>2, <2>1, <4>1
    <3> QED BY <3>1, <3>2
  <2>3. /\ q \in Seq(Units)
        /\ Len(q) \in Nat
        /\ Len(q) <= Maxsize
        /\ Len(q) > n => q[Len(q) - n] = "key"
    <3> HIDE DEF n
    <3> QED BY <1>1, <1>3, <2>1, <2>2
  <2> QED BY <2>3 DEF q
<1>4. CASE Len(queue[v]) = Maxsize
  <2>1. /\ q \in Seq(Units)
        /\ Len(q) = Maxsize
        /\ au = "key" => q[Maxsize] = "key"
        /\ \A i \in 2 .. Maxsize : queue[v][i] = "key" => q[i - 1] = "key"
    BY <1>1, <1>4, PutDrops
  <2> HIDE DEF q
  <2>2. ASSUME Len(q) > n
        PROVE  q[Len(q) - n] = "key"
    <3>1. CASE au = "key"
      BY <1>1, <2>1, <3>1
    <3>2. CASE au # "key"
      <4>1. /\ Len(queue[v]) > age
            /\ Len(queue[v]) - age \in 2 .. Maxsize
            /\ Len(q) - n = (Len(queue[v]) - age) - 1
        <5>1. n = age + 1
          BY <3>2
        <5>2. age \in Nat /\ Maxsize > age + 1
          BY <1>1, <2>1, <2>2, <5>1
        <5> HIDE DEF n
        <5> QED BY <1>1, <1>4, <2>1, <5>1, <5>2
      <4> QED BY <1>2, <2>1, <4>1
    <3> QED BY <3>1, <3>2
  <2>3. /\ q \in Seq(Units)
        /\ Len(q) \in Nat
        /\ Len(q) <= Maxsize
        /\ Len(q) > n => q[Len(q) - n] = "key"
    <3> HIDE DEF n
    <3> QED BY <1>1, <2>1, <2>2
  <2> QED BY <2>3 DEF q
<1> QED BY <1>1, <1>3, <1>4

(* The unit of an encode that is due a keyframe is one for every viewer.    *)
LEMMA UnitKind ==
  ASSUME NEW v \in Viewers
  PROVE  Unit(v) \in Units /\ (Unit(v) = "key" <=> KeyDue)
BY DEF Unit, Units

(* A unit taken from the front leaves the distances from the back alone.    *)
LEMMA DeliverKeepsKey ==
  ASSUME TypeOK, KeyPlaced, NEW v \in Viewers, queue[v] # <<>>
  PROVE  LET q == Tail(queue[v])
         IN  /\ q \in Seq(Units)
             /\ Len(q) \in Nat
             /\ Len(q) <= Maxsize
             /\ Len(q) > age => q[Len(q) - age] = "key"
<1> DEFINE q == Tail(queue[v])
<1>1. /\ queue[v] \in Seq(Units)
      /\ Len(queue[v]) \in Nat
      /\ Len(queue[v]) <= Maxsize
      /\ Maxsize \in Nat \ {0}
      /\ age \in 0 .. Gop - 1
      /\ Gop \in Nat \ {0}
  BY QueueBounds
<1>2. /\ q \in Seq(Units)
      /\ Len(q) = Len(queue[v]) - 1
      /\ \A i \in 1 .. Len(q) : q[i] = queue[v][i + 1]
      /\ Len(queue[v]) >= 1
  BY <1>1, HeadTailProperties, EmptySeq
<1> HIDE DEF q
<1>3. ASSUME Len(q) > age
      PROVE  q[Len(q) - age] = "key"
  <2>1. /\ Len(queue[v]) > age
        /\ Len(q) - age \in 1 .. Len(q)
        /\ (Len(q) - age) + 1 = Len(queue[v]) - age
    BY <1>1, <1>2, <1>3
  <2> QED BY <1>2, <2>1 DEF KeyPlaced
<1> QED BY <1>1, <1>2, <1>3 DEF q

-----------------------------------------------------------------------------
(* The inductive invariant of the queues.                                   *)
QueueInv == TypeOK /\ KeyPlaced

LEMMA QueueInit == Init => QueueInv
<1> SUFFICES ASSUME Init
             PROVE  QueueInv
  OBVIOUS
<1>1. /\ <<>> \in Seq(Units)
      /\ Len(<<>>) = 0
  BY EmptySeq
<1>2. Gop - 1 \in 0 .. Gop - 1 /\ Maxsize \in Nat
  BY VideoAssumption
<1>3. TypeOK
  <2>1. queue \in [Viewers -> Seq(Units)]
    BY <1>1 DEF Init
  <2>2. ASSUME NEW v \in Viewers
        PROVE  Len(queue[v]) = 0 /\ Len(queue[v]) <= Maxsize
    <3>1. queue[v] = <<>>
      BY DEF Init
    <3>2. Len(queue[v]) = 0
      BY <1>1, <3>1
    <3> QED BY <1>2, <3>2
  <2>3. age \in 0 .. Gop - 1
    BY <1>2 DEF Init
  <2>4. /\ socket \in [Viewers -> {"away", "open", "gone"}]
        /\ joined \in [Viewers -> {"unborn", "idle", "encoding"}]
        /\ first \in [Viewers -> {"none", "key", "delta", "cut"}]
        /\ picture \in [Viewers -> {"dark", "live", "torn"}]
    BY DEF Init
  <2>5. /\ frame \in {"none", "new", "old"}
        /\ force \in BOOLEAN /\ forced \in BOOLEAN /\ overtaken \in BOOLEAN
        /\ pump \in {"unborn", "idle", "encoding"}
    BY DEF Init
  <2> QED BY <2>1, <2>2, <2>3, <2>4, <2>5 DEF TypeOK, Units
<1>4. KeyPlaced
  <2>1. ASSUME NEW v \in Viewers
        PROVE  queue[v] = <<>> /\ Len(queue[v]) = 0
    <3>1. queue[v] = <<>>
      BY DEF Init
    <3> QED BY <1>1, <3>1
  <2>2. age \in Nat
    BY <1>2 DEF Init
  <2>3. ASSUME NEW v \in Viewers
        PROVE  ~ (Len(queue[v]) > age)
    <3>1. Len(queue[v]) = 0
      BY <2>1
    <3> QED BY <2>2, <3>1
  <2> QED BY <2>1, <2>3 DEF KeyPlaced
<1> QED BY <1>3, <1>4 DEF QueueInv

LEMMA QueueStep == QueueInv /\ [Next]_vars => QueueInv'
<1> SUFFICES ASSUME QueueInv, [Next]_vars
             PROVE  QueueInv'
  OBVIOUS
<1> USE DEF QueueInv
<1>0. /\ <<>> \in Seq(Units)
      /\ Len(<<>>) = 0
      /\ Maxsize \in Nat /\ Gop \in Nat \ {0}
      /\ age \in 0 .. Gop - 1
  BY EmptySeq, VideoAssumption DEF TypeOK
<1>1. CASE NewFrame
  BY <1>1 DEF NewFrame, viewers, TypeOK, KeyPlaced, Subs
<1>2. CASE PumpStarts
  BY <1>2 DEF PumpStarts, viewers, TypeOK, KeyPlaced, Subs
<1>3. CASE EncodeFails
  BY <1>3 DEF EncodeFails, viewers, TypeOK, KeyPlaced, Subs
<1>4. CASE EncodeDone
  <2>1. ASSUME NEW v \in Viewers
        PROVE  /\ queue'[v] \in Seq(Units)
               /\ Len(queue'[v]) <= Maxsize
               /\ Len(queue'[v]) > age' => queue'[v][Len(queue'[v]) - age'] = "key"
               /\ v \notin Subs => queue'[v] = <<>>
               /\ first'[v] \in {"none"} \cup Units
    <3>1. Unit(v) \in Units /\ (Unit(v) = "key" <=> KeyDue)
      BY UnitKind
    <3>2. age' = IF Unit(v) = "key" THEN 0 ELSE age + 1
      BY <1>4, <3>1 DEF EncodeDone
    <3>3. first'[v] \in {"none"} \cup Units
      BY <1>4, <3>1 DEF EncodeDone, TypeOK, Units
    <3>4. CASE v \in Subs
      <4>1. queue'[v] = Put(queue[v], Unit(v))
        BY <1>4, <3>4 DEF EncodeDone
      <4>2. LET q == Put(queue[v], Unit(v))
                n == IF Unit(v) = "key" THEN 0 ELSE age + 1
            IN  /\ q \in Seq(Units)
                /\ Len(q) \in Nat
                /\ Len(q) <= Maxsize
                /\ Len(q) > n => q[Len(q) - n] = "key"
        BY <3>1, BroadcastKeepsKey
      <4> QED BY <3>2, <3>3, <3>4, <4>1, <4>2
    <3>5. CASE v \notin Subs
      <4>1. queue'[v] = queue[v]
        BY <1>4, <3>5 DEF EncodeDone
      <4>2. queue[v] = <<>>
        BY <3>5 DEF KeyPlaced, Subs
      <4> QED BY <1>0, <3>2, <3>3, <4>1, <4>2
    <3> QED BY <3>4, <3>5
  <2>2. age' \in 0 .. Gop - 1
    BY <1>0, <1>4 DEF EncodeDone, KeyDue
  <2>3. queue' \in [Viewers -> Seq(Units)]
    BY <1>4, <2>1 DEF EncodeDone
  <2>4. first' \in [Viewers -> {"none"} \cup Units]
    BY <1>4, <2>1 DEF EncodeDone
  <2>5. TypeOK'
    BY <1>4, <2>1, <2>2, <2>3, <2>4 DEF EncodeDone, TypeOK, Units
  <2>6. Subs' = Subs
    BY <1>4 DEF EncodeDone, Subs
  <2>7. KeyPlaced'
    BY <2>1, <2>6 DEF KeyPlaced
  <2> QED BY <2>5, <2>7
<1>5. ASSUME NEW v \in Viewers, Subscribe(v)
      PROVE  QueueInv'
  <2>1. /\ queue' = [queue EXCEPT ![v] = <<>>]
        /\ socket' = [socket EXCEPT ![v] = "open"]
        /\ age' = age
    BY <1>5 DEF Subscribe
  <2>2. TypeOK'
    BY <1>0, <1>5 DEF Subscribe, TypeOK, Units
  <2>3. ASSUME NEW u \in Viewers
        PROVE  /\ Len(queue'[u]) > age => queue'[u][Len(queue'[u]) - age] = "key"
               /\ socket'[u] = "away" => queue'[u] = <<>>
    <3>1. CASE u = v
      BY <1>0, <2>1, <3>1 DEF TypeOK
    <3>2. CASE u # v
      BY <2>1, <3>2 DEF TypeOK, KeyPlaced, Subs
    <3> QED BY <3>1, <3>2
  <2> QED BY <2>1, <2>2, <2>3 DEF KeyPlaced, Subs
<1>6. ASSUME NEW v \in Viewers, Deliver(v)
      PROVE  QueueInv'
  <2> DEFINE q == Tail(queue[v])
  <2>1. /\ queue' = [queue EXCEPT ![v] = q]
        /\ socket' = socket
        /\ age' = age
        /\ socket[v] = "open"
        /\ queue[v] # <<>>
    BY <1>6 DEF Deliver, pumpVars
  <2>2. /\ q \in Seq(Units)
        /\ Len(q) \in Nat
        /\ Len(q) <= Maxsize
        /\ Len(q) > age => q[Len(q) - age] = "key"
    BY <2>1, DeliverKeepsKey
  <2> HIDE DEF q
  <2>3. queue' \in [Viewers -> Seq(Units)]
    BY <2>1, <2>2 DEF TypeOK, Units
  <2>4. picture' \in [Viewers -> {"dark", "live", "torn"}]
    BY <1>6 DEF Deliver, Decoded, TypeOK
  <2>5. ASSUME NEW u \in Viewers
        PROVE  /\ Len(queue'[u]) <= Maxsize
               /\ Len(queue'[u]) > age => queue'[u][Len(queue'[u]) - age] = "key"
               /\ socket'[u] = "away" => queue'[u] = <<>>
    <3>1. CASE u = v
      BY <2>1, <2>2, <3>1 DEF TypeOK
    <3>2. CASE u # v
      BY <2>1, <3>2 DEF TypeOK, KeyPlaced, Subs
    <3> QED BY <3>1, <3>2
  <2>6. TypeOK'
    BY <1>6, <2>3, <2>4, <2>5 DEF Deliver, pumpVars, TypeOK, Units
  <2>7. KeyPlaced'
    BY <2>1, <2>5 DEF KeyPlaced, Subs
  <2> QED BY <2>6, <2>7
<1>7. ASSUME NEW v \in Viewers, Vanish(v)
      PROVE  QueueInv'
  <2>1. TypeOK'
    BY <1>7 DEF Vanish, pumpVars, TypeOK
  <2>2. KeyPlaced'
    BY <1>7 DEF Vanish, pumpVars, TypeOK, KeyPlaced, Subs
  <2> QED BY <2>1, <2>2
<1>8. ASSUME NEW v \in Viewers, SendFails(v)
      PROVE  QueueInv'
  <2>1. /\ queue' = [queue EXCEPT ![v] = <<>>]
        /\ socket' = [socket EXCEPT ![v] = "away"]
        /\ age' = age
    BY <1>8 DEF SendFails, pumpVars
  <2>2. TypeOK'
    BY <1>0, <1>8 DEF SendFails, pumpVars, TypeOK, Units
  <2>3. ASSUME NEW u \in Viewers
        PROVE  /\ Len(queue'[u]) > age => queue'[u][Len(queue'[u]) - age] = "key"
               /\ socket'[u] = "away" => queue'[u] = <<>>
    <3>1. CASE u = v
      BY <1>0, <2>1, <3>1 DEF TypeOK
    <3>2. CASE u # v
      BY <2>1, <3>2 DEF TypeOK, KeyPlaced, Subs
    <3> QED BY <3>1, <3>2
  <2> QED BY <2>1, <2>2, <2>3 DEF KeyPlaced, Subs
<1>9. CASE UNCHANGED vars
  BY <1>9 DEF vars, viewers, pumpVars, TypeOK, KeyPlaced, Subs
<1> QED BY <1>1, <1>2, <1>3, <1>4, <1>5, <1>6, <1>7, <1>8, <1>9 DEF Next

(* Types: the hub's state, and queues no longer than their maxsize.         *)
THEOREM QueuesAreBounded == Spec => []TypeOK
<1>1. QueueInv => TypeOK
  BY DEF QueueInv
<1> QED BY <1>1, QueueInit, QueueStep, PTL DEF Spec

(* A queue a whole GOP deep still holds a keyframe, so a viewer however far *)
(* behind finds its picture again by reading what it has.                   *)
THEOREM SlowViewerRecovers == Spec => []KeyframeInReach
<1>1. ASSUME QueueInv
      PROVE  KeyframeInReach
  <2>1. ASSUME NEW v \in Viewers, Len(queue[v]) >= Gop
        PROVE  \E i \in 1 .. Len(queue[v]) :
                 queue[v][i] = "key" /\ Len(queue[v]) - i < Gop
    <3>1. /\ Len(queue[v]) \in Nat
          /\ age \in 0 .. Gop - 1
          /\ Gop \in Nat \ {0}
      BY <1>1, QueueBounds DEF QueueInv
    <3>2. /\ Len(queue[v]) > age
          /\ Len(queue[v]) - age \in 1 .. Len(queue[v])
          /\ Len(queue[v]) - (Len(queue[v]) - age) < Gop
      BY <2>1, <3>1
    <3>3. queue[v][Len(queue[v]) - age] = "key"
      BY <1>1, <3>2 DEF QueueInv, KeyPlaced
    <3> QED BY <3>2, <3>3
  <2> QED BY <2>1 DEF KeyframeInReach
<1> QED BY <1>1, QueueInit, QueueStep, PTL DEF Spec

-----------------------------------------------------------------------------
(* The newcomer's request.                                                  *)
RequestInv == TypeOK /\ RequestPending /\ PromptKeyframe

LEMMA RequestInit == Init => RequestPending /\ PromptKeyframe
BY DEF Init, RequestPending, PromptKeyframe, Subs

LEMMA RequestStep ==
  TypeOK /\ RequestPending /\ PromptKeyframe /\ [Next]_vars
    => RequestPending' /\ PromptKeyframe'
<1> SUFFICES ASSUME TypeOK, RequestPending, PromptKeyframe, [Next]_vars
             PROVE  RequestPending' /\ PromptKeyframe'
  OBVIOUS
<1> USE DEF RequestPending, PromptKeyframe, Subs, viewers, pumpVars
<1>1. CASE NewFrame
  BY <1>1 DEF NewFrame
<1>2. CASE PumpStarts
  BY <1>2 DEF PumpStarts
<1>3. CASE EncodeFails
  BY <1>3 DEF EncodeFails
<1>4. CASE EncodeDone
  <2>1. ASSUME NEW v \in Viewers
        PROVE  /\ v \in Subs => first'[v] # "none"
               /\ joined[v] # "encoding" => first'[v] \in {"none", "key"}
    <3>1. CASE v \in Subs /\ first[v] = "none"
      <4>1. first'[v] = Unit(v) /\ Unit(v) # "none"
        BY <1>4, <3>1 DEF EncodeDone, Unit
      <4>2. joined[v] # "encoding" => Unit(v) = "key"
        BY <1>4, <3>1 DEF EncodeDone, Unit, KeyDue
      <4> QED BY <4>1, <4>2
    <3>2. CASE ~ (v \in Subs /\ first[v] = "none")
      <4>1. first'[v] = first[v]
        BY <1>4, <3>2 DEF EncodeDone
      <4> QED BY <3>2, <4>1
    <3> QED BY <3>1, <3>2
  <2>2. socket' = socket /\ joined' = joined
    BY <1>4 DEF EncodeDone
  <2> QED BY <2>1, <2>2
<1>5. ASSUME NEW v \in Viewers, Subscribe(v)
      PROVE  RequestPending' /\ PromptKeyframe'
  BY <1>5 DEF Subscribe, TypeOK
<1>6. ASSUME NEW v \in Viewers, Deliver(v)
      PROVE  RequestPending' /\ PromptKeyframe'
  BY <1>6 DEF Deliver
<1>7. ASSUME NEW v \in Viewers, Vanish(v)
      PROVE  RequestPending' /\ PromptKeyframe'
  BY <1>7 DEF Vanish, TypeOK
<1>8. ASSUME NEW v \in Viewers, SendFails(v)
      PROVE  RequestPending' /\ PromptKeyframe'
  BY <1>8 DEF SendFails, TypeOK
<1>9. CASE UNCHANGED vars
  BY <1>9 DEF vars
<1> QED BY <1>1, <1>2, <1>3, <1>4, <1>5, <1>6, <1>7, <1>8, <1>9 DEF Next

(* A viewer that joins between two encodes sees a keyframe first, however   *)
(* many encodes fail and whoever else comes and goes.                       *)
THEOREM NewcomerSeesKeyframe == Spec => []PromptKeyframe
<1>1. Init => RequestInv
  BY QueueInit, RequestInit DEF RequestInv, QueueInv
<1>2. QueueInv /\ RequestInv /\ [Next]_vars => RequestInv'
  BY QueueStep, RequestStep DEF RequestInv, QueueInv
<1>3. RequestInv => PromptKeyframe
  BY DEF RequestInv
<1> QED BY <1>1, <1>2, <1>3, QueueInit, QueueStep, PTL DEF Spec
=============================================================================
