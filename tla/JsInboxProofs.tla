---------------------------- MODULE JsInboxProofs ---------------------------
(***************************************************************************)
(* JsInbox keeps its safety properties, and the promises of InboxContract  *)
(* but the third, for every number of messages, every routing mode, every  *)
(* capacity and every number of disturbances, though its drains overlap.   *)
(*                                                                         *)
(* Each part of InductiveInv gets a lemma that says a step preserves it,   *)
(* with one step of the proof per action that touches its variables.       *)
(***************************************************************************)
EXTENDS JsInboxInv, MessageOrderProofs, SequenceTheorems

----------------------------------------------------------------------------
\* Facts about single states

\* Only drains are in the stages in which something is carried.
LEMMA OnlyDrains ==
  ASSUME StageInv, NEW t \in Task, stage[t] \in {"run", "ack"}
  PROVE  t \in Drain
BY DEF StageInv, Task, Drain, Producer

\* A task that carries commands has a next one, a message that has arrived.
LEMMA LeastOfTodo ==
  ASSUME TypeOK, DrainInv, NEW t \in Task, todo[t] # {}
  PROVE  /\ Least(todo[t]) \in todo[t]
         /\ Least(todo[t]) \in Msg
         /\ Least(todo[t]) \in 1 .. sent
         /\ Disp(Least(todo[t])) = "handled"
<1>1. todo[t] \in SUBSET (1 .. MaxMsg) /\ MaxMsg \in Nat
  BY InboxAssumption DEF TypeOK, Msg
<1>2. Least(todo[t]) \in todo[t]
  BY <1>1, LeastExists
<1>. QED BY <1>1, <1>2 DEF DrainInv, Msg

\* The capacity of the buffer leaves a number of places, if only a negative one.
LEMMA RoomTyped == ASSUME TypeOK PROVE Room \in Int
<1>1. Buffered \subseteq 1 .. Len(out) /\ Len(out) \in Nat
  BY LenProperties DEF Buffered, TypeOK
<1>2. Cardinality(Buffered) \in Nat
  <2>1. IsFiniteSet(1 .. Len(out))
    BY <1>1, FS_Interval
  <2>. QED BY <1>1, <2>1, FS_Subset, FS_CardinalityType
<1>. QED BY <1>2, InboxAssumption DEF Room

\* enqueue() accepts the oldest of the fresh messages, in their order.
LEMMA AcceptedEffect ==
  ASSUME TypeOK, NEW t \in Task
  PROVE  /\ Accepted(t) \in Seq(Msg)
         /\ ToSet(Accepted(t)) = {Accepted(t)[i] : i \in 1 .. Len(Accepted(t))}
         /\ ToSet(Accepted(t)) \subseteq Fresh(t)
         /\ \A i, j \in 1 .. Len(Accepted(t)) : i < j => Accepted(t)[i] < Accepted(t)[j]
         /\ \A m \in Fresh(t) \ ToSet(Accepted(t)) : \A k \in ToSet(Accepted(t)) : k < m
<1>. DEFINE b == InArrivalOrder(Fresh(t))
            n == IF Len(b) < Room THEN Len(b) ELSE Room
            a == Accepted(t)
<1>1. Fresh(t) \in SUBSET (1 .. MaxMsg) /\ MaxMsg \in Nat
  BY InboxAssumption DEF Fresh, TypeOK, Msg
<1>2. /\ b \in Seq(Fresh(t))
      /\ \A m \in Fresh(t) : \E i \in 1 .. Len(b) : b[i] = m
      /\ \A i, j \in 1 .. Len(b) : i < j => b[i] < b[j]
  BY <1>1, ArrivalOrder
<1>3. Len(b) \in Nat /\ Room \in Int /\ \A i \in 1 .. Len(b) : b[i] \in Fresh(t)
  BY <1>2, LenProperties, RoomTyped
<1>4. a = SubSeq(b, 1, n)
  BY DEF Accepted
<1>. HIDE DEF b, a
<1>5. n \in Int /\ n <= Len(b)
  BY <1>3
<1>6. /\ a \in Seq(Fresh(t))
      /\ Len(a) = IF 1 <= n THEN n - 1 + 1 ELSE 0
      /\ \A i \in 1 .. n - 1 + 1 : a[i] = b[1 + i - 1]
  <2>. HIDE DEF n
  <2>1. \A i \in 1 .. n : b[i] \in Fresh(t)
    BY <1>3, <1>5
  <2>. QED BY <1>4, <1>5, <2>1, SubSeqProperties
<1>7. Len(a) \in Nat /\ Len(a) <= Len(b) /\ \A i \in 1 .. Len(a) : a[i] = b[i]
  <2>. HIDE DEF n
  <2>. QED BY <1>3, <1>5, <1>6
<1>8. DOMAIN a = 1 .. Len(a)
  BY <1>6, LenProperties
<1>9. ToSet(a) = {a[i] : i \in 1 .. Len(a)}
  BY <1>8 DEF ToSet
<1>10. ASSUME NEW m \in Fresh(t) \ ToSet(a), NEW k \in ToSet(a) PROVE k < m
  <2>1. PICK j \in 1 .. Len(b) : b[j] = m
    BY <1>2
  <2>2. PICK i \in 1 .. Len(a) : a[i] = k
    BY <1>9
  <2>3. j \notin 1 .. Len(a)
    BY <1>7, <1>9, <2>1
  <2>4. i \in 1 .. Len(b) /\ i < j /\ b[i] = k
    BY <1>3, <1>7, <2>2, <2>3
  <2>. QED BY <1>2, <2>1, <2>4
<1>11. a \in Seq(Msg) /\ ToSet(a) \subseteq Fresh(t)
  <2>1. \A i \in 1 .. Len(a) : a[i] \in Fresh(t)
    BY <1>6, ElementOfSeq
  <2>2. Fresh(t) \subseteq Msg
    BY <1>1 DEF Msg
  <2>. QED BY <1>6, <1>9, <2>1, <2>2, SeqMonotonic
<1>12. \A i, j \in 1 .. Len(a) : i < j => a[i] < a[j]
  <2>1. \A i \in 1 .. Len(a) : i \in 1 .. Len(b) /\ a[i] = b[i]
    BY <1>3, <1>7
  <2>. HIDE DEF n
  <2>. QED BY <1>2, <2>1
<1>. QED BY <1>9, <1>10, <1>11, <1>12 DEF a

\* What a drain has fetched and this call has not seen still waits.
LEMMA FreshWaits ==
  ASSUME DrainInv, OrderInv, phase \in {"startup", "running"}, NEW t \in Task
  PROVE  /\ Fresh(t) \subseteq Waiting
         /\ \A m \in Fresh(t) : \A k \in inFlight : k < m
<1>1. Fresh(t) \subseteq Waiting
  BY DEF Fresh, Waiting, Unread, DrainInv, OrderInv
<1>. QED BY <1>1 DEF OrderInv

----------------------------------------------------------------------------
\* Type correctness

\* Every step preserves the types.
LEMMA TypeInductive ==
  ASSUME InductiveInv, [Next]_vars
  PROVE  TypeOK'
<1>. USE InboxAssumption DEF InductiveInv, TypeOK
<1>1. CASE UNCHANGED vars
  BY <1>1 DEF vars, hubVars, sessVars, taskVars, outVars, appVars
<1>2. CallFails => faults' \in 0 .. MaxFaults
  BY DEF CallFails, Disturb
<1>3. CASE Arrive \/ Push \/ HubFails \/ Dispose
  <2>. USE DEF hubVars, sessVars, taskVars, outVars, appVars
  <2>1. CASE Arrive
    BY <2>1 DEF Arrive
  <2>2. CASE Push
    BY <2>2 DEF Push, PushRoom
  <2>3. CASE HubFails
    BY <2>3 DEF HubFails, Disturb
  <2>4. CASE Dispose
    BY <2>4 DEF Dispose, Disturb
  <2>. QED BY <1>3, <2>1, <2>2, <2>3, <2>4
<1>4. ASSUME EndCall, cur' \in Msg \cup {0}, faults' \in 0 .. MaxFaults PROVE TypeOK'
  BY <1>4, EmptySeq DEF EndCall, hubVars, sessVars, Phase, Stage
<1>5. CASE Enter
  <2>1. CASE Connect
    BY <2>1 DEF Connect, OpenCall, hubVars, taskVars, outVars, Phase
  <2>2. CASE Reenter
    BY <2>2 DEF Reenter, Disturb, OpenCall, hubVars, sessVars, taskVars, outVars, Phase
  <2>3. CASE Subscribe
    BY <2>3 DEF Subscribe, hubVars, sessVars, outVars, appVars, Phase, Stage
  <2>4. CASE StartupFails
    BY <1>2, <1>4, <2>4 DEF StartupFails
  <2>. QED BY <1>5, <2>1, <2>2, <2>3, <2>4 DEF Enter
<1>6. SignalError => out' \in Seq(Msg \cup {Error}) /\ phase' \in Phase
  <2>1. Append(out, Error) \in Seq(Msg \cup {Error})
    BY AppendProperties
  <2>. QED BY <2>1 DEF SignalError, Phase
<1>7. ASSUME NEW t \in Task, TaskStep(t) PROVE TypeOK'
  <2>1. CASE Wake(t)
    BY <2>1 DEF Wake, Due, hubVars, outVars, appVars, Stage
  <2>2. CASE Fetch(t)
    <3>1. Unread \subseteq Msg
      BY DEF Unread, Msg
    <3>2. todo' \in [Task -> SUBSET Msg] /\ kept' \in [Task -> SUBSET Msg]
      BY <2>2, <3>1 DEF Fetch
    <3>. QED BY <2>2, <3>2 DEF Fetch, hubVars, sessVars, outVars, appVars, Stage
  <2>3. CASE ProducerFails(t)
    BY <1>2, <1>6, <2>3 DEF ProducerFails, hubVars, sessVars, appVars, Stage
  <2>4. CASE Run(t)
    <3>1. Least(todo[t]) \in Msg
      BY <2>4, LeastOfTodo DEF Run
    <3>. QED BY <2>4, <3>1 DEF Run, hubVars, sessVars, outVars, Stage
  <2>5. CASE Ack(t)
    <3>. DEFINE m == Least(todo[t])
    <3>1. m \in Msg
      BY <2>5, LeastOfTodo DEF Ack, DrainInv
    <3>2. owed[m] - 1 \in Nat
      <4>1. t \in Drain
        BY <2>5, OnlyDrains DEF Ack
      <4>2. Under(t, m) = 1
        BY <2>5 DEF Ack, Under
      <4>3. \A u \in Drain : Under(u, m) \in {0, 1}
        BY DEF Under
      <4>4. InHand(m) >= 1
        BY <4>1, <4>2, <4>3 DEF InHand, Drain
      <4>5. InHand(m) <= owed[m] /\ InHand(m) \in Nat /\ owed[m] \in Nat
        BY <3>1, <4>3 DEF OwedInv, InHand, Drain
      <4>. QED BY <4>4, <4>5
    <3>3. faults' \in 0 .. MaxFaults
      BY <1>2, <2>5 DEF Ack
    <3>4. \/ read' = read \cup {m} /\ UNCHANGED owed
          \/ owed' = [owed EXCEPT ![m] = owed[m] - 1] /\ UNCHANGED read
      BY <2>5 DEF Ack, Carried, Lost
    <3>5. todo' \in [Task -> SUBSET Msg]
      BY <2>5 DEF Ack
    <3>. HIDE DEF m
    <3>6. owed' \in [Msg -> Nat] /\ read' \subseteq Msg
      BY <3>1, <3>2, <3>4
    <3>. QED BY <2>5, <3>3, <3>5, <3>6 DEF Ack, sessVars, outVars, Stage
  <2>6. CASE EnqueueAll(t)
    <3>1. /\ Accepted(t) \in Seq(Msg) /\ Accepted(t) \in Seq(Msg \cup {Error})
          /\ ToSet(Accepted(t)) \subseteq Msg
      <4>1. Fresh(t) \subseteq Msg
        BY DEF Fresh
      <4>. QED BY <4>1, AcceptedEffect, SeqMonotonic
    <3>2. out \o Accepted(t) \in Seq(Msg \cup {Error})
      BY <3>1, ConcatProperties
    <3>3. Accepted(t) # <<>> =>
            Head(Accepted(t)) \in Msg /\ Tail(Accepted(t)) \in Seq(Msg \cup {Error})
      BY <3>1, HeadTailProperties
    <3>4. inFlight' \subseteq Msg
      BY <2>6, <3>1 DEF EnqueueAll, IdsOfAccepted
    <3>5. /\ out' \in Seq(Msg \cup {Error}) /\ cur' \in Msg \cup {0}
          /\ given' \subseteq Msg /\ shown' \subseteq Msg
      <4>1. CASE Awaiting /\ Accepted(t) # <<>>
        <5>. DEFINE m == Head(Accepted(t))
        <5>1. /\ cur' = m /\ given' = given \cup {m} /\ shown' = shown \cup {m}
              /\ out' = Tail(Accepted(t))
          BY <2>6, <4>1 DEF EnqueueAll
        <5>2. m \in Msg /\ Tail(Accepted(t)) \in Seq(Msg \cup {Error})
          BY <3>3, <4>1
        <5>. HIDE DEF m
        <5>. QED BY <5>1, <5>2
      <4>2. CASE ~(Awaiting /\ Accepted(t) # <<>>)
        <5>1. out' = out \o Accepted(t) /\ UNCHANGED <<cur, given, shown>>
          BY <2>6, <4>2 DEF EnqueueAll
        <5>. QED BY <3>2, <5>1
      <4>. QED BY <4>1, <4>2
    <3>. QED BY <2>6, <3>4, <3>5 DEF EnqueueAll, hubVars, sessVars, Stage, Phase
  <2>. QED BY <1>7, <2>1, <2>2, <2>3, <2>4, <2>5, <2>6 DEF TaskStep
<1>8. CASE PushLoopEnds \/ Beat
  BY <1>8 DEF PushLoopEnds, Beat, hubVars, sessVars, outVars, appVars, Stage
<1>9. CASE Take
  <2>1. Head(out) \in Msg \cup {Error} /\ Tail(out) \in Seq(Msg \cup {Error})
    BY <1>9, HeadTailProperties DEF Take
  <2>. QED BY <1>9, <2>1 DEF Take, hubVars, sessVars, taskVars, Phase
<1>10. CASE Finish
  BY <1>10 DEF Finish, sessVars, taskVars, outVars
<1>11. CASE Leave
  <2>1. faults' \in 0 .. MaxFaults /\ read' \subseteq Msg
    BY <1>2, <1>11 DEF Leave, Disturb
  <2>. QED BY <1>11, <2>1 DEF Leave, sessVars, taskVars, outVars, Phase
<1>12. CASE Close
  BY <1>4, <1>12 DEF Close
<1>. QED BY <1>1, <1>3, <1>5, <1>7, <1>8, <1>9, <1>10, <1>11, <1>12 DEF Next

----------------------------------------------------------------------------
\* The stages of a call

\* Every step keeps the producers within their call and apart from the startup
\* drain.
LEMMA StageInductive ==
  ASSUME TypeOK, StageInv, [Next]_vars
  PROVE  StageInv'
<1>. USE DEF StageInv, Task, Drain, Producer
<1>1. CASE UNCHANGED <<stage, phase>>
  BY <1>1
<1>2. CASE UNCHANGED vars
  BY <1>1, <1>2 DEF vars, taskVars
<1>3. CASE Arrive \/ Push \/ HubFails \/ Dispose \/ Finish
  BY <1>1, <1>3 DEF Arrive, Push, HubFails, Dispose, Finish, taskVars
<1>4. CASE EndCall
  BY <1>4 DEF EndCall
<1>5. CASE Enter
  <2>1. CASE OpenCall
    BY <2>1 DEF OpenCall, taskVars
  <2>2. CASE Subscribe
    BY <2>2 DEF Subscribe, TypeOK
  <2>. QED BY <1>4, <1>5, <2>1, <2>2 DEF Enter, Connect, Reenter, StartupFails
<1>6. ASSUME NEW t \in Producer, NEW s \in Stage,
             stage' = [stage EXCEPT ![t] = s],
             s # "idle" => phase' \in {"running", "closing"},
             t = "beat" => s \in {"idle", "fetch", "ended"},
             phase' = phase \/ (phase = "running" /\ phase' = "closing")
      PROVE  StageInv'
  BY <1>6 DEF TypeOK
<1>7. ASSUME NEW s \in Stage,
             stage' = [stage EXCEPT !["startup"] = s],
             phase = "startup",
             \/ s \notin {"idle", "ended"} /\ phase' = phase
             \/ s = "idle" /\ phase' = "running"
      PROVE  StageInv'
  BY <1>7 DEF TypeOK
<1>8. ASSUME NEW t \in Task, TaskStep(t) PROVE StageInv'
  <2>1. CASE Wake(t)
    BY <1>6, <2>1 DEF Wake, Stage
  <2>2. CASE ProducerFails(t)
    <3>1. phase' = phase \/ (phase = "running" /\ phase' = "closing")
      BY <2>2 DEF ProducerFails, SignalError, Awaiting
    <3>2. phase' \in {"running", "closing"}
      BY <2>2, <3>1 DEF ProducerFails
    <3>. QED BY <1>6, <2>2, <3>1, <3>2 DEF ProducerFails, Stage
  <2>3. CASE Fetch(t) \/ Run(t) \/ Ack(t) \/ EnqueueAll(t)
    <3>1. t \in Drain /\ stage[t] \in {"fetch", "run", "ack"}
      BY <2>3 DEF Fetch, Run, Ack, EnqueueAll
    <3>2. PICK s \in {"idle", "run", "ack"} :
            /\ stage' = [stage EXCEPT ![t] = s]
            /\ phase' = IF s = "idle" /\ t = "startup" THEN "running" ELSE phase
      BY <2>3 DEF Fetch, Run, Ack, EnqueueAll
    <3>3. CASE t = "startup"
      BY <1>7, <3>1, <3>2, <3>3 DEF Stage
    <3>4. CASE t # "startup"
      BY <1>6, <3>1, <3>2, <3>4 DEF Stage
    <3>. QED BY <3>3, <3>4
  <2>. QED BY <1>8, <2>1, <2>2, <2>3 DEF TaskStep
<1>9. CASE PushLoopEnds
  BY <1>6, <1>9 DEF PushLoopEnds, Stage
<1>10. CASE Beat
  BY <1>6, <1>10 DEF Beat, Stage
<1>11. CASE Take \/ Leave
  <2>1. UNCHANGED stage /\ phase = "running" /\ phase' \in {"running", "closing"}
    BY <1>11 DEF Take, Leave, taskVars
  <2>. QED BY <2>1
<1>12. CASE Close
  BY <1>4, <1>12 DEF Close
<1>. QED BY <1>2, <1>3, <1>5, <1>8, <1>9, <1>10, <1>11, <1>12 DEF Next

----------------------------------------------------------------------------
\* What the drains carry

\* A call ends with nothing in any drain's hands.
LEMMA EndsQuiet ==
  ASSUME StageInv, StartupFails \/ Close
  PROVE  EndCall /\ \A t \in Task : stage[t] \notin {"run", "ack"}
BY DEF StartupFails, Close, AllDone, Settled, StageInv, Task, Drain, Producer

\* Every step keeps what a drain carries and its stage in agreement.
LEMMA DrainInductive ==
  ASSUME TypeOK, StageInv, DrainInv, [Next]_vars
  PROVE  DrainInv'
<1>1. CASE UNCHANGED <<sent, stage, todo, kept>> /\ shown \subseteq shown'
  BY <1>1 DEF DrainInv, Disp
<1>2. CASE UNCHANGED vars
  BY <1>1, <1>2 DEF vars, taskVars, hubVars, appVars
<1>3. CASE Push \/ HubFails \/ Dispose \/ Finish \/ Leave \/ Take
  BY <1>1, <1>3 DEF Push, HubFails, Dispose, Finish, Leave, Take, hubVars, taskVars, appVars
<1>4. CASE Arrive
  <2>1. 1 .. sent \subseteq 1 .. sent'
    BY <1>4 DEF Arrive, TypeOK
  <2>. QED BY <1>4, <2>1 DEF Arrive, DrainInv, Disp, taskVars, appVars
<1>5. CASE StartupFails \/ Close
  <2>1. \A t \in Task : todo[t] = {} /\ kept[t] = {}
    BY <1>5, EndsQuiet DEF DrainInv
  <2>. QED BY <1>5, <2>1, EndsQuiet DEF EndCall, DrainInv
\* A task changes its stage, and takes up or lays down what it carries.
<1>6. ASSUME NEW t \in Task, NEW s \in Stage, NEW T \in SUBSET Msg, NEW K \in SUBSET Msg,
             stage' = [stage EXCEPT ![t] = s],
             todo' = [todo EXCEPT ![t] = T], kept' = [kept EXCEPT ![t] = K],
             s \notin {"run", "ack"} => T = {} /\ K = {},
             s = "ack" => T # {} /\ Least(T) \in shown',
             \A m \in T : m \in 1 .. sent /\ Disp(m) = "handled",
             \A m \in K : m \in 1 .. sent /\ Disp(m) = "yield",
             sent' = sent, shown \subseteq shown'
      PROVE  DrainInv'
  <2>1. stage'[t] = s /\ todo'[t] = T /\ kept'[t] = K
    BY <1>6 DEF TypeOK
  <2>2. \A u \in Task \ {t} : stage'[u] = stage[u] /\ todo'[u] = todo[u] /\ kept'[u] = kept[u]
    BY <1>6 DEF TypeOK
  <2>. QED BY <1>6, <2>1, <2>2 DEF DrainInv, Disp
\* The same for a task that carries nothing, before and after.
<1>7. ASSUME NEW t \in Task, NEW s \in Stage, s \notin {"run", "ack"},
             stage[t] \notin {"run", "ack"}, stage' = [stage EXCEPT ![t] = s],
             UNCHANGED <<sent, todo, kept, shown>>
      PROVE  DrainInv'
  <2>1. todo[t] = {} /\ kept[t] = {}
    BY <1>7 DEF DrainInv
  <2>2. todo' = [todo EXCEPT ![t] = {}] /\ kept' = [kept EXCEPT ![t] = {}]
    BY <1>7, <2>1 DEF TypeOK
  <2>. QED BY <1>6, <1>7, <2>2
<1>8. CASE Enter
  <2>1. CASE OpenCall
    BY <1>1, <2>1 DEF OpenCall, hubVars, taskVars
  <2>2. CASE Subscribe
    <3>1. stage["startup"] \notin {"run", "ack"}
      BY <2>2 DEF Subscribe, StageInv
    <3>. QED BY <1>7, <2>2, <3>1 DEF Subscribe, Stage, Task, Drain, hubVars, appVars
  <2>. QED BY <1>5, <1>8, <2>1, <2>2 DEF Enter, Connect, Reenter
<1>9. ASSUME NEW t \in Task, TaskStep(t) PROVE DrainInv'
  <2>1. CASE Wake(t)
    BY <1>7, <2>1 DEF Wake, Stage, hubVars, appVars
  <2>2. CASE ProducerFails(t)
    BY <1>7, <2>2 DEF ProducerFails, Stage, hubVars, appVars
  <2>3. CASE Fetch(t)
    <3>. DEFINE T == {m \in Unread : Disp(m) = "handled"}
                K == {m \in Unread : Disp(m) = "yield"}
    <3>1. Unread \subseteq Msg /\ Unread \subseteq 1 .. sent
      BY InboxAssumption DEF Unread, Msg, TypeOK
    <3>2. /\ T \in SUBSET Msg /\ K \in SUBSET Msg
          /\ \A m \in T : m \in 1 .. sent /\ Disp(m) = "handled"
          /\ \A m \in K : m \in 1 .. sent /\ Disp(m) = "yield"
      BY <3>1
    <3>3. /\ todo' = [todo EXCEPT ![t] = T] /\ kept' = [kept EXCEPT ![t] = K]
          /\ stage' = [stage EXCEPT ![t] = "run"]
          /\ sent' = sent /\ shown \subseteq shown' /\ "run" \in Stage
      BY <2>3 DEF Fetch, Stage, hubVars, appVars
    <3>. HIDE DEF T, K
    <3>. QED BY <1>6, <3>2, <3>3
  <2>4. CASE Run(t)
    <3>1. /\ stage' = [stage EXCEPT ![t] = "ack"]
          /\ todo' = [todo EXCEPT ![t] = todo[t]] /\ kept' = [kept EXCEPT ![t] = kept[t]]
          /\ todo[t] # {} /\ shown' = shown \cup {Least(todo[t])} /\ sent' = sent
      BY <2>4 DEF Run, TypeOK, hubVars
    <3>2. todo[t] \in SUBSET Msg /\ kept[t] \in SUBSET Msg
      BY DEF TypeOK
    <3>3. /\ \A m \in todo[t] : m \in 1 .. sent /\ Disp(m) = "handled"
          /\ \A m \in kept[t] : m \in 1 .. sent /\ Disp(m) = "yield"
      BY DEF DrainInv
    <3>4. Least(todo[t]) \in shown' /\ shown \subseteq shown' /\ "ack" \in Stage
      BY <3>1 DEF Stage
    <3>. QED BY <1>6, <3>1, <3>2, <3>3, <3>4
  <2>5. CASE Ack(t)
    <3>1. /\ stage' = [stage EXCEPT ![t] = "run"]
          /\ todo' = [todo EXCEPT ![t] = todo[t] \ {Least(todo[t])}]
          /\ kept' = [kept EXCEPT ![t] = kept[t]]
          /\ shown' = shown /\ sent' = sent
      BY <2>5 DEF Ack, TypeOK
    <3>2. todo[t] \ {Least(todo[t])} \in SUBSET Msg /\ kept[t] \in SUBSET Msg
      BY DEF TypeOK
    <3>3. /\ \A m \in todo[t] \ {Least(todo[t])} : m \in 1 .. sent /\ Disp(m) = "handled"
          /\ \A m \in kept[t] : m \in 1 .. sent /\ Disp(m) = "yield"
      BY DEF DrainInv
    <3>4. "run" \in Stage
      BY DEF Stage
    <3>. QED BY <1>6, <3>1, <3>2, <3>3, <3>4
  <2>6. CASE EnqueueAll(t)
    <3>1. /\ stage' = [stage EXCEPT ![t] = "idle"]
          /\ todo' = [todo EXCEPT ![t] = {}] /\ kept' = [kept EXCEPT ![t] = {}]
          /\ shown \subseteq shown' /\ sent' = sent
      BY <2>6 DEF EnqueueAll, TypeOK, hubVars
    <3>. QED BY <1>6, <3>1 DEF Stage
  <2>. QED BY <1>9, <2>1, <2>2, <2>3, <2>4, <2>5, <2>6 DEF TaskStep
<1>10. CASE PushLoopEnds
  BY <1>7, <1>10 DEF PushLoopEnds, Task, Producer, Stage, hubVars, appVars
<1>11. CASE Beat
  BY <1>7, <1>11 DEF Beat, Task, Producer, Stage, hubVars, appVars
<1>. QED BY <1>2, <1>3, <1>4, <1>5, <1>8, <1>9, <1>10, <1>11 DEF Next

----------------------------------------------------------------------------
\* Commands and their acks

\* Dispatches in hand are counted task by task.
LEMMA InHandTyped ==
  ASSUME NEW m
  PROVE  InHand(m) \in Nat /\ \A t \in Drain : Under(t, m) \in {0, 1} /\ Under(t, m) <= InHand(m)
<1>1. \A t \in Drain : Under(t, m) \in {0, 1}
  BY DEF Under
<1>. QED BY <1>1 DEF InHand, Drain

\* Only what the step's own task has in hand changes.
LEMMA InHandStep ==
  ASSUME TypeOK, NEW t \in Drain, NEW s \in Stage, NEW m,
         stage' = [stage EXCEPT ![t] = s],
         \A u \in Drain \ {t} : todo'[u] = todo[u]
  PROVE  InHand(m)' = InHand(m) - Under(t, m) + Under(t, m)'
<1>1. \A u \in Drain \ {t} : stage'[u] = stage[u]
  BY DEF TypeOK, Task
<1>2. \A u \in Drain \ {t} : Under(u, m)' = Under(u, m)
  BY <1>1 DEF Under
<1>3. \A u \in Drain : Under(u, m) \in Nat /\ Under(u, m)' \in Nat
  BY DEF Under
<1>. QED BY <1>2, <1>3 DEF InHand, Drain

\* Every step keeps the books of dispatches and acks.
LEMMA OwedInductive ==
  ASSUME TypeOK, StageInv, DrainInv, OwedInv, [Next]_vars
  PROVE  OwedInv'
<1>1. CASE UNCHANGED owed /\ read \subseteq read' /\ \A m \in Msg : InHand(m)' = InHand(m)
  BY <1>1 DEF OwedInv
<1>2. CASE UNCHANGED <<owed, stage, todo>> /\ read \subseteq read'
  BY <1>1, <1>2 DEF InHand, Under
<1>3. CASE UNCHANGED vars
  BY <1>2, <1>3 DEF vars, hubVars, taskVars, appVars
<1>4. CASE Arrive \/ Push \/ HubFails \/ Dispose \/ Finish \/ Leave \/ Take
  BY <1>2, <1>4 DEF Arrive, Push, HubFails, Dispose, Finish, Leave, Take, hubVars,
                    taskVars, appVars
\* A step at whose beginning and end its task has nothing in hand.
<1>5. ASSUME NEW t \in Task, NEW s \in Stage, stage[t] # "ack", s # "ack",
             stage' = [stage EXCEPT ![t] = s],
             \A u \in Task \ {t} : todo'[u] = todo[u],
             UNCHANGED <<owed, read>>
      PROVE  OwedInv'
  <2>1. \A u \in Drain : stage'[u] = "ack" <=> stage[u] = "ack"
    BY <1>5 DEF TypeOK, Task
  <2>2. \A u \in Drain : stage[u] = "ack" => todo'[u] = todo[u]
    BY <1>5 DEF Task
  <2>3. \A m \in Msg : InHand(m)' = InHand(m)
    BY <2>1, <2>2 DEF InHand, Under, Drain
  <2>. QED BY <1>1, <1>5, <2>3
<1>6. CASE StartupFails \/ Close
  <2>1. EndCall /\ \A t \in Task : stage[t] # "ack"
    BY <1>6, EndsQuiet
  <2>2. \A t \in Task : stage'[t] # "ack"
    BY <2>1 DEF EndCall
  <2>3. \A m \in Msg : InHand(m)' = InHand(m)
    BY <2>1, <2>2 DEF InHand, Under, Task, Drain
  <2>4. UNCHANGED owed /\ read \subseteq read'
    BY <2>1 DEF EndCall, hubVars
  <2>. QED BY <1>1, <2>3, <2>4
<1>7. CASE Enter
  <2>1. CASE OpenCall
    BY <1>2, <2>1 DEF OpenCall, hubVars, taskVars
  <2>2. CASE Subscribe
    <3>1. stage["startup"] # "ack"
      BY <2>2 DEF Subscribe, StageInv
    <3>. QED BY <1>5, <2>2, <3>1 DEF Subscribe, Stage, Task, Drain, hubVars, appVars
  <2>. QED BY <1>6, <1>7, <2>1, <2>2 DEF Enter, Connect, Reenter
<1>8. ASSUME NEW t \in Task, TaskStep(t) PROVE OwedInv'
  <2>1. CASE Wake(t) \/ ProducerFails(t)
    BY <1>5, <2>1 DEF Wake, ProducerFails, Stage, hubVars, appVars
  <2>2. CASE Fetch(t)
    <3>1. \A u \in Task \ {t} : todo'[u] = todo[u]
      BY <2>2 DEF Fetch, TypeOK
    <3>. QED BY <1>5, <2>2, <3>1 DEF Fetch, Stage, hubVars, appVars
  <2>3. CASE EnqueueAll(t)
    BY <1>5, <2>3 DEF EnqueueAll, Stage, hubVars
  <2>4. CASE Run(t)
    <3>. DEFINE n == Least(todo[t])
    <3>1. t \in Drain /\ n \in Msg
      BY <2>4, OnlyDrains, LeastOfTodo DEF Run
    <3>2. stage' = [stage EXCEPT ![t] = "ack"] /\ UNCHANGED <<todo, read>>
          /\ owed' = [owed EXCEPT ![n] = @ + 1]
      BY <2>4 DEF Run, hubVars
    <3>3. \A m \in Msg : Under(t, m) = 0 /\ Under(t, m)' = IF m = n THEN 1 ELSE 0
      BY <2>4, <3>2 DEF Run, Under, TypeOK
    <3>4. ASSUME NEW m \in Msg
          PROVE  InHand(m)' = InHand(m) + (IF m = n THEN 1 ELSE 0)
      <4>1. InHand(m)' = InHand(m) - Under(t, m) + Under(t, m)'
        BY <3>1, <3>2, InHandStep DEF Stage
      <4>2. InHand(m) \in Nat
        BY InHandTyped
      <4>. QED BY <3>3, <4>1, <4>2
    <3>5. \A m \in Msg : owed'[m] = owed[m] + (IF m = n THEN 1 ELSE 0)
      BY <3>1, <3>2 DEF TypeOK
    <3>. HIDE DEF n
    <3>6. \A m \in Msg : InHand(m) \in Nat /\ owed[m] \in Nat
      BY InHandTyped DEF TypeOK
    <3>. QED BY <3>2, <3>4, <3>5, <3>6 DEF OwedInv
  <2>5. CASE Ack(t)
    <3>. DEFINE n == Least(todo[t])
    <3>1. t \in Drain /\ n \in Msg
      BY <2>5, OnlyDrains, LeastOfTodo DEF Ack, DrainInv
    <3>2. stage' = [stage EXCEPT ![t] = "run"] /\ todo' = [todo EXCEPT ![t] = @ \ {n}]
          /\ (Carried(n) \/ Lost(n))
      BY <2>5 DEF Ack
    <3>3. \A u \in Drain \ {t} : todo'[u] = todo[u]
      BY <3>2 DEF TypeOK, Task
    <3>4. \A m \in Msg : Under(t, m)' = 0 /\ Under(t, m) = IF m = n THEN 1 ELSE 0
      BY <2>5, <3>2 DEF Ack, Under, TypeOK
    <3>5. ASSUME NEW m \in Msg
          PROVE  InHand(m)' = InHand(m) - (IF m = n THEN 1 ELSE 0)
      <4>1. InHand(m)' = InHand(m) - Under(t, m) + Under(t, m)'
        BY <3>1, <3>2, <3>3, InHandStep DEF Stage
      <4>2. InHand(m) \in Nat
        BY InHandTyped
      <4>. QED BY <3>4, <4>1, <4>2
    <3>. HIDE DEF n
    <3>6. \A m \in Msg : InHand(m) \in Nat /\ owed[m] \in Nat
      BY InHandTyped DEF TypeOK
    <3>7. CASE Carried(n)
      BY <3>5, <3>6, <3>7 DEF Carried, OwedInv
    <3>8. CASE Lost(n)
      <4>1. \A m \in Msg : owed'[m] = owed[m] - (IF m = n THEN 1 ELSE 0)
        BY <3>1, <3>8 DEF Lost, TypeOK
      <4>. QED BY <3>5, <3>6, <3>8, <4>1 DEF Lost, OwedInv
    <3>. QED BY <3>2, <3>7, <3>8
  <2>. QED BY <1>8, <2>1, <2>2, <2>3, <2>4, <2>5 DEF TaskStep
<1>9. CASE PushLoopEnds
  BY <1>5, <1>9 DEF PushLoopEnds, Task, Producer, Stage, hubVars, appVars
<1>10. CASE Beat
  BY <1>5, <1>10 DEF Beat, Task, Producer, Stage, hubVars, appVars
<1>. QED BY <1>3, <1>4, <1>6, <1>7, <1>8, <1>9, <1>10 DEF Next

----------------------------------------------------------------------------
\* The buffer, the id set and what the application was given

\* QueueInv while a call is under way, of any buffer and sets of messages.
Agree(o, ids, seen, n) ==
  LET items == {i \in DOMAIN o : o[i] # Error}
  IN  /\ ids = {o[i] : i \in items} \cup seen
      /\ \A m \in ids : m <= n
      /\ \A i \in items :
           /\ \A k \in seen : k < o[i]
           /\ \A j \in items : j < i => o[j] < o[i]

\* It is QueueInv's last part.
LEMMA QueueAgrees ==
  phase \in {"startup", "running"} =>
    (QueueInv <=>
       /\ cur # 0 => phase = "running" /\ cur \in given /\ cur \in shown
       /\ Agree(out, inFlight, given, sent))
BY DEF QueueInv, Agree, InFlightIsExact, Buffered

\* Appending the fresh messages that were accepted, in their order.
LEMMA AgreeAppend ==
  ASSUME NEW o \in Seq(Msg \cup {Error}), NEW ids \in SUBSET Msg, NEW seen, NEW n \in Nat,
         Agree(o, ids, seen, n),
         NEW a \in Seq(Msg), \A i, j \in 1 .. Len(a) : i < j => a[i] < a[j],
         \A i \in 1 .. Len(a) : a[i] <= n /\ \A k \in ids : k < a[i]
  PROVE  Agree(o \o a, ids \cup {a[i] : i \in 1 .. Len(a)}, seen, n)
<1>. DEFINE p == o \o a
            L == Len(o)
            items == {i \in DOMAIN o : o[i] # Error}
            items2 == {i \in DOMAIN p : p[i] # Error}
            ids2 == ids \cup {a[i] : i \in 1 .. Len(a)}
<1>1. /\ L \in Nat /\ DOMAIN o = 1 .. L
      /\ Len(a) \in Nat /\ \A i \in 1 .. Len(a) : a[i] \in Msg
  BY LenProperties, ElementOfSeq
<1>2. a \in Seq(Msg \cup {Error})
  BY SeqMonotonic
<1>3. /\ DOMAIN p = 1 .. L + Len(a)
      /\ \A i \in 1 .. L : p[i] = o[i]
      /\ \A i \in 1 .. Len(a) : p[L + i] = a[i] /\ L + i \in DOMAIN p
  <2>1. /\ p \in Seq(Msg \cup {Error}) /\ Len(p) = L + Len(a)
        /\ \A i \in 1 .. L + Len(a) : p[i] = IF i <= L THEN o[i] ELSE a[i - L]
    BY <1>2, ConcatProperties
  <2>2. DOMAIN p = 1 .. L + Len(a)
    BY <2>1, LenProperties
  <2>. HIDE DEF p, L
  <2>. QED BY <1>1, <2>1, <2>2
<1>. HIDE DEF p, L
<1>4. 0 \notin Msg /\ \A m \in Msg : m \in Nat
  BY InboxAssumption DEF Msg
<1>5. \A i \in items2 : i \in items \/ \E j \in 1 .. Len(a) : i = L + j
  <2>1. \A i \in 1 .. L + Len(a) : i \in 1 .. L \/ (i - L \in 1 .. Len(a) /\ i = L + (i - L))
    BY <1>1
  <2>2. \A i \in items2 : i \in 1 .. L => i \in items
    BY <1>1, <1>3
  <2>. QED BY <1>3, <2>1, <2>2
<1>6. \A i \in items : i \in 1 .. L /\ i \in items2 /\ p[i] = o[i]
  BY <1>1, <1>3
<1>7. \A j \in 1 .. Len(a) : L + j \in items2 /\ p[L + j] = a[j] /\ a[j] \in Msg
  BY <1>1, <1>3, <1>4 DEF Error
<1>. HIDE DEF items, items2
<1>8. /\ ids = {o[i] : i \in items} \cup seen
      /\ \A m \in ids : m <= n
      /\ \A i \in items : /\ \A k \in seen : k < o[i]
                          /\ \A j \in items : j < i => o[j] < o[i]
  BY DEF Agree, items
<1>9. ids2 = {p[i] : i \in items2} \cup seen
  BY <1>5, <1>6, <1>7, <1>8
<1>10. \A m \in ids2 : m <= n
  BY <1>8
<1>11. \A i \in items2 : \A k \in seen : k < p[i]
  BY <1>5, <1>6, <1>7, <1>8
<1>12. ASSUME NEW i \in items2, NEW j \in items2, j < i PROVE p[j] < p[i]
  <2>1. CASE i \in items /\ j \in items
    BY <1>6, <1>8, <1>12, <2>1
  <2>2. CASE \E k \in 1 .. Len(a) : i = L + k
    <3>1. PICK k \in 1 .. Len(a) : i = L + k
      BY <2>2
    <3>2. CASE j \in items
      BY <1>6, <1>7, <1>8, <3>1, <3>2
    <3>3. CASE \E l \in 1 .. Len(a) : j = L + l
      <4>1. PICK l \in 1 .. Len(a) : j = L + l
        BY <3>3
      <4>2. l < k
        BY <1>1, <1>12, <3>1, <4>1
      <4>. QED BY <1>7, <3>1, <4>1, <4>2
    <3>. QED BY <1>5, <3>2, <3>3
  <2>3. CASE i \in items /\ \E l \in 1 .. Len(a) : j = L + l
    BY <1>1, <1>6, <1>12, <2>3
  <2>. QED BY <1>5, <2>1, <2>2, <2>3
<1>. QED BY <1>9, <1>10, <1>11, <1>12 DEF Agree, items2, p

\* Handing out the first item of the buffer.
LEMMA AgreeTail ==
  ASSUME NEW o \in Seq(Msg \cup {Error}), o # <<>>, NEW ids \in SUBSET Msg, NEW seen, NEW n,
         Agree(o, ids, seen, n), Head(o) # Error
  PROVE  /\ Agree(Tail(o), ids, seen \cup {Head(o)}, n)
         /\ Head(o) \in Msg /\ Head(o) \in ids /\ \A k \in seen : k < Head(o)
<1>. DEFINE p == Tail(o)
            items == {i \in DOMAIN o : o[i] # Error}
            items2 == {i \in DOMAIN p : p[i] # Error}
<1>1. /\ Len(o) \in Nat \ {0} /\ DOMAIN o = 1 .. Len(o) /\ Head(o) = o[1]
      /\ DOMAIN p = 1 .. Len(o) - 1 /\ Head(o) \in Msg \cup {Error}
      /\ \A i \in 1 .. Len(o) - 1 : p[i] = o[i + 1]
  <2>1. p \in Seq(Msg \cup {Error}) /\ Len(p) = Len(o) - 1
    BY HeadTailProperties
  <2>2. DOMAIN p = 1 .. Len(p)
    BY <2>1, LenProperties
  <2>. HIDE DEF p
  <2>3. Len(o) \in Nat \ {0} /\ DOMAIN o = 1 .. Len(o) /\ Head(o) = o[1]
    BY EmptySeq, LenProperties
  <2>. QED BY <2>1, <2>2, <2>3, HeadTailProperties DEF p
<1>. HIDE DEF p
<1>2. 1 \in items /\ o[1] = Head(o)
  BY <1>1
<1>3. \A i \in items2 : i + 1 \in items /\ p[i] = o[i + 1] /\ i \in Nat /\ 1 < i + 1
  BY <1>1
<1>4. \A i \in items : i = 1 \/ (i - 1 \in items2 /\ p[i - 1] = o[i])
  BY <1>1
<1>. HIDE DEF items, items2
<1>5. /\ ids = {o[i] : i \in items} \cup seen
      /\ \A m \in ids : m <= n
      /\ \A i \in items : /\ \A k \in seen : k < o[i]
                          /\ \A j \in items : j < i => o[j] < o[i]
  BY DEF Agree, items
<1>6. ids = {p[i] : i \in items2} \cup (seen \cup {Head(o)})
  <2>1. {o[i] : i \in items} \subseteq {p[i] : i \in items2} \cup {Head(o)}
    BY <1>2, <1>4
  <2>2. {p[i] : i \in items2} \cup {Head(o)} \subseteq {o[i] : i \in items}
    BY <1>2, <1>3
  <2>. QED BY <1>5, <2>1, <2>2
<1>7. \A i \in items2 : \A k \in seen \cup {Head(o)} : k < p[i]
  BY <1>2, <1>3, <1>5
<1>8. \A i, j \in items2 : j < i => p[j] < p[i]
  <2>1. \A i, j \in items2 : j < i => j + 1 < i + 1
    BY <1>3
  <2>. QED BY <1>3, <1>5, <2>1
<1>. QED BY <1>1, <1>2, <1>5, <1>6, <1>7, <1>8 DEF Agree, items2, p

\* An error in the buffer is no message.
LEMMA AgreeError ==
  ASSUME NEW o \in Seq(Msg \cup {Error}), NEW ids, NEW seen, NEW n, Agree(o, ids, seen, n)
  PROVE  Agree(Append(o, Error), ids, seen, n)
<1>. DEFINE p == Append(o, Error)
<1>1. /\ Len(o) \in Nat /\ DOMAIN o = 1 .. Len(o)
      /\ DOMAIN p = 1 .. Len(o) + 1 /\ p[Len(o) + 1] = Error
      /\ \A i \in 1 .. Len(o) : p[i] = o[i]
  BY LenProperties, AppendProperties
<1>. HIDE DEF p
<1>2. {i \in DOMAIN p : p[i] # Error} = {i \in DOMAIN o : o[i] # Error}
  BY <1>1
<1>3. \A i \in {i \in DOMAIN o : o[i] # Error} : p[i] = o[i]
  BY <1>1
<1>. QED BY <1>2, <1>3 DEF Agree, p

\* Every message of the buffer is one the application may be given next: m is
\* then the application's, and new to this call.
Hands(m) ==
  /\ m \in 1 .. sent /\ m \in Msg /\ \A k \in given : k < m
  /\ cur = 0 /\ phase = "running" /\ phase' = phase
  /\ cur' = m /\ given' = given \cup {m} /\ shown' = shown \cup {m}

\* The messages of a drain go to the buffer, the first one to an application
\* that waits for it.
LEMMA EnqueueEffect ==
  ASSUME TypeOK, DrainInv, QueueInv, OrderInv, NEW t \in Task, EnqueueAll(t)
  PROVE  /\ phase \in {"startup", "running"} => Agree(out', inFlight', given', sent')
         /\ UNCHANGED <<cur, given, shown>> \/ \E m \in Msg : Hands(m)
<1>. DEFINE a == Accepted(t)
<1>1. /\ a \in Seq(Msg) /\ \A i, j \in 1 .. Len(a) : i < j => a[i] < a[j]
      /\ ToSet(a) = {a[i] : i \in 1 .. Len(a)}
      /\ ToSet(a) \subseteq Fresh(t)
  BY AcceptedEffect
<1>2. sent' = sent /\ inFlight' = inFlight \cup ToSet(a)
  BY DEF EnqueueAll, IdsOfAccepted, hubVars
<1>. HIDE DEF a
<1>3. /\ out \in Seq(Msg \cup {Error}) /\ inFlight \in SUBSET Msg /\ sent \in Nat
      /\ a \in Seq(Msg \cup {Error})
  BY <1>1, SeqMonotonic DEF TypeOK
<1>4. ASSUME phase \in {"startup", "running"}
      PROVE  Agree(out \o a, inFlight', given, sent)
  <2>1. Agree(out, inFlight, given, sent)
    BY <1>4, QueueAgrees
  <2>2. \A m \in Fresh(t) : m <= sent /\ \A k \in inFlight : k < m
    BY <1>4, FreshWaits DEF Fresh, DrainInv
  <2>3. \A i \in 1 .. Len(a) : a[i] <= sent /\ \A k \in inFlight : k < a[i]
    BY <1>1, <2>2
  <2>. QED BY <1>1, <1>2, <1>3, <2>1, <2>3, AgreeAppend
<1>5. CASE Awaiting /\ a # <<>>
  <2>1. /\ cur' = Head(a) /\ given' = given \cup {Head(a)} /\ shown' = shown \cup {Head(a)}
        /\ out' = Tail(a)
    BY <1>5 DEF EnqueueAll, a
  <2>2. phase = "running" /\ cur = 0 /\ out = <<>>
    BY <1>5 DEF Awaiting
  <2>3. out \o a = a
    BY <1>3, <2>2, ConcatEmptySeq
  <2>4. Agree(a, inFlight', given, sent)
    BY <1>4, <2>2, <2>3
  <2>5. Head(a) \in Msg /\ Head(a) # Error /\ inFlight' \in SUBSET Msg
    <3>1. Head(a) \in Msg
      BY <1>1, <1>5, HeadTailProperties
    <3>2. Fresh(t) \subseteq Msg
      BY DEF Fresh, TypeOK
    <3>3. inFlight' \in SUBSET Msg
      BY <1>1, <1>2, <1>3, <3>2
    <3>4. 0 \notin Msg
      BY InboxAssumption DEF Msg
    <3>. QED BY <3>1, <3>3, <3>4 DEF Error
  <2>6. /\ Agree(Tail(a), inFlight', given \cup {Head(a)}, sent)
        /\ Head(a) \in inFlight' /\ \A k \in given : k < Head(a)
    BY <1>3, <1>5, <2>4, <2>5, AgreeTail
  <2>7. Head(a) \in 1 .. sent
    <3>1. \A m \in inFlight' : m <= sent
      BY <2>4 DEF Agree
    <3>. QED BY <1>3, <2>5, <2>6, <3>1, InboxAssumption DEF Msg
  <2>8. phase' = phase
    BY <2>2 DEF EnqueueAll
  <2>9. Hands(Head(a))
    BY <2>1, <2>2, <2>5, <2>6, <2>7, <2>8 DEF Hands
  <2>. QED BY <1>2, <2>1, <2>5, <2>6, <2>9
<1>6. CASE ~(Awaiting /\ a # <<>>)
  <2>1. out' = out \o a /\ UNCHANGED <<cur, given, shown>>
    BY <1>6 DEF EnqueueAll, a
  <2>. QED BY <1>2, <1>4, <2>1
<1>. QED BY <1>5, <1>6

\* The next item of the buffer is an error that ends the call, or a message.
LEMMA TakeEffect ==
  ASSUME TypeOK, QueueInv, Take
  PROVE  \/ UNCHANGED <<cur, given, shown>> /\ cur = 0 /\ phase' = "closing"
         \/ /\ Agree(out', inFlight', given', sent')
            /\ \E m \in Msg : Hands(m)
<1>1. phase = "running" /\ cur = 0 /\ out # <<>> /\ out' = Tail(out)
      /\ sent' = sent /\ inFlight' = inFlight
  BY DEF Take, hubVars
<1>2. Agree(out, inFlight, given, sent)
  BY <1>1, QueueAgrees
<1>3. CASE Head(out) = Error
  BY <1>1, <1>3 DEF Take
<1>4. CASE Head(out) # Error
  <2>1. /\ cur' = Head(out) /\ given' = given \cup {Head(out)}
        /\ shown' = shown \cup {Head(out)} /\ phase' = phase
    BY <1>4 DEF Take
  <2>2. /\ Agree(Tail(out), inFlight, given \cup {Head(out)}, sent)
        /\ Head(out) \in Msg /\ Head(out) \in inFlight /\ \A k \in given : k < Head(out)
    BY <1>1, <1>2, <1>4, AgreeTail DEF TypeOK
  <2>3. Head(out) \in 1 .. sent
    <3>1. Head(out) <= sent
      BY <1>2, <2>2 DEF Agree
    <3>. QED BY <2>2, <3>1, InboxAssumption DEF Msg, TypeOK
  <2>4. Hands(Head(out))
    BY <1>1, <2>1, <2>2, <2>3 DEF Hands
  <2>. QED BY <1>1, <2>1, <2>2, <2>4
<1>. QED BY <1>3, <1>4

\* Every step keeps buffer, id set and the application's messages together.
LEMMA QueueInductive ==
  ASSUME InductiveInv, [Next]_vars
  PROVE  QueueInv'
<1>. USE DEF InductiveInv
<1>1. CASE UNCHANGED <<phase, out, inFlight, cur, given, sent>> /\ shown \subseteq shown'
  BY <1>1 DEF QueueInv, InFlightIsExact, Buffered
<1>2. CASE UNCHANGED vars
  BY <1>1, <1>2 DEF vars, hubVars, outVars, appVars
<1>3. CASE Push \/ HubFails \/ Dispose \/ PushLoopEnds \/ Beat
  BY <1>1, <1>3 DEF Push, HubFails, Dispose, PushLoopEnds, Beat, hubVars, outVars, appVars
\* Within a call it is enough that the parts agree.
<1>4. ASSUME phase' \in {"startup", "running"}, Agree(out', inFlight', given', sent'),
             cur' # 0 => phase' = "running" /\ cur' \in given' /\ cur' \in shown'
      PROVE  QueueInv'
  BY <1>4 DEF QueueInv, Agree, InFlightIsExact, Buffered
<1>5. CASE Arrive
  <2>1. sent \in Nat /\ sent' = sent + 1 /\ \A m \in inFlight : m \in Nat
    BY <1>5, InboxAssumption DEF Arrive, TypeOK, Msg
  <2>2. \A m \in inFlight : m <= sent => m <= sent'
    BY <2>1
  <2>. QED BY <1>5, <2>2 DEF Arrive, QueueInv, InFlightIsExact, Buffered, outVars, appVars
<1>6. CASE StartupFails \/ Close
  <2>1. phase # "running"
    BY <1>6 DEF StartupFails, Close, StageInv
  <2>2. EndCall /\ UNCHANGED cur
    BY <1>6 DEF StartupFails, Close
  <2>. QED BY <2>1, <2>2 DEF EndCall, QueueInv
<1>7. CASE Enter
  <2>1. CASE OpenCall
    BY <2>1 DEF OpenCall, QueueInv, outVars
  <2>2. CASE Subscribe
    <3>1. out = <<>> /\ inFlight = {} /\ given = {} /\ cur = 0
      BY <2>2 DEF Subscribe, QueueInv
    <3>2. UNCHANGED <<out, inFlight, given, cur>> /\ phase' = "startup"
      BY <2>2 DEF Subscribe, outVars, appVars
    <3>3. DOMAIN out = {}
      BY <3>1
    <3>4. Agree(out', inFlight', given', sent')
      BY <3>1, <3>2, <3>3 DEF Agree
    <3>. QED BY <1>4, <3>1, <3>2, <3>4
  <2>. QED BY <1>6, <1>7, <2>1, <2>2 DEF Enter, Connect, Reenter
<1>8. ASSUME NEW t \in Task, TaskStep(t) PROVE QueueInv'
  <2>1. CASE Wake(t) \/ Fetch(t) \/ Run(t) \/ Ack(t)
    BY <1>1, <2>1 DEF Wake, Fetch, Run, Ack, hubVars, outVars, appVars
  <2>2. CASE ProducerFails(t)
    <3>1. phase \in {"running", "closing"} /\ UNCHANGED <<inFlight, sent, cur, given, shown>>
      BY <2>2 DEF ProducerFails, StageInv, hubVars, appVars
    <3>2. CASE phase' = "closing"
      <4>1. cur = 0
        BY <2>2, <3>1, <3>2 DEF ProducerFails, SignalError, Awaiting, QueueInv
      <4>. QED BY <3>1, <3>2, <4>1 DEF QueueInv
    <3>3. CASE phase' # "closing"
      <4>1. phase = "running" /\ phase' = phase /\ out' = Append(out, Error)
        BY <2>2, <3>1, <3>3 DEF ProducerFails, SignalError
      <4>2. Agree(out, inFlight, given, sent)
        BY <4>1, QueueAgrees
      <4>3. Agree(out', inFlight', given', sent')
        BY <3>1, <4>1, <4>2, AgreeError DEF TypeOK
      <4>. QED BY <1>4, <3>1, <4>1, <4>3 DEF QueueInv
    <3>. QED BY <3>2, <3>3
  <2>3. CASE EnqueueAll(t)
    <3>1. phase \in {"startup", "running", "closing"}
      BY <2>3 DEF EnqueueAll, StageInv, Task, Drain, Producer
    <3>2. phase' = IF t = "startup" THEN "running" ELSE phase
      BY <2>3 DEF EnqueueAll
    <3>3. phase = "closing" => t # "startup"
      BY <2>3 DEF EnqueueAll, StageInv
    <3>4. UNCHANGED <<cur, given, shown>> \/ \E m \in Msg : Hands(m)
      BY <2>3, EnqueueEffect
    <3>5. CASE phase \in {"startup", "running"}
      <4>1. phase' \in {"startup", "running"} /\ (phase = "running" => phase' = "running")
        BY <3>2, <3>5
      <4>2. Agree(out', inFlight', given', sent')
        BY <2>3, <3>5, EnqueueEffect
      <4>3. cur' # 0 => phase' = "running" /\ cur' \in given' /\ cur' \in shown'
        BY <3>4, <4>1 DEF Hands, QueueInv
      <4>. QED BY <1>4, <4>1, <4>2, <4>3
    <3>6. CASE phase = "closing"
      BY <3>2, <3>3, <3>4, <3>6 DEF Hands, QueueInv
    <3>. QED BY <3>1, <3>5, <3>6
  <2>. QED BY <1>8, <2>1, <2>2, <2>3 DEF TaskStep
<1>9. CASE Take
  <2>1. CASE UNCHANGED <<cur, given, shown>> /\ cur = 0 /\ phase' = "closing"
    BY <2>1 DEF QueueInv
  <2>2. CASE Agree(out', inFlight', given', sent') /\ \E m \in Msg : Hands(m)
    BY <1>4, <2>2 DEF Hands
  <2>. QED BY <1>9, <2>1, <2>2, TakeEffect
<1>10. CASE Finish
  <2>1. UNCHANGED <<out, inFlight, given, sent, phase>> /\ cur' = 0
    BY <1>10 DEF Finish, outVars
  <2>. QED BY <2>1 DEF QueueInv, InFlightIsExact, Buffered
<1>11. CASE Leave
  BY <1>11 DEF Leave, QueueInv
<1>. QED BY <1>2, <1>3, <1>5, <1>6, <1>7, <1>8, <1>9, <1>10, <1>11 DEF Next

----------------------------------------------------------------------------
\* The order of what waits

\* Every step keeps what waits in the order of the hub, behind what was seen.
LEMMA OrderInductive ==
  ASSUME InductiveInv, [Next]_vars
  PROVE  OrderInv'
<1>. USE DEF InductiveInv
<1>1. CASE phase' \notin {"startup", "running"}
  BY <1>1 DEF OrderInv
<1>2. CASE /\ UNCHANGED <<sent, read, inFlight, kept>>
           /\ phase \in {"startup", "running"}
  BY <1>2 DEF OrderInv, Waiting, Unread, Disp
<1>3. CASE UNCHANGED <<sent, read, inFlight, kept, phase>>
  BY <1>1, <1>2, <1>3
<1>4. CASE UNCHANGED vars
  BY <1>3, <1>4 DEF vars, hubVars, taskVars, outVars
\* Messages are read that this call has seen, or that no drain holds.
<1>5. ASSUME phase' = phase, phase \in {"startup", "running"}, UNCHANGED <<sent, kept, inFlight>>,
             read \subseteq read',
             \A m \in read' : m \in read \/ m \in inFlight \/ Disp(m) = "handled"
      PROVE  OrderInv'
  <2>1. Waiting' \subseteq Waiting
    BY <1>5 DEF Waiting, Unread, Disp
  <2>2. \A t \in Task : \A m \in kept[t] : m \in read' => m \in inFlight
    BY <1>5 DEF OrderInv, DrainInv
  <2>. QED BY <1>5, <2>1, <2>2 DEF OrderInv
<1>6. CASE Arrive
  <2>1. /\ UNCHANGED <<read, inFlight, kept, phase>> /\ sent \in Nat /\ sent' = sent + 1
    BY <1>6 DEF Arrive, TypeOK, outVars, taskVars
  <2>2. Waiting' \subseteq Waiting \cup {sent + 1}
    BY <2>1 DEF Waiting, Unread, Disp
  <2>3. CASE phase \in {"startup", "running"}
    <3>1. \A k \in inFlight : k < sent + 1
      <4>1. \A k \in inFlight : k \in Nat /\ k <= sent
        BY <2>3, InboxAssumption DEF QueueInv, TypeOK, Msg
      <4>. QED BY <2>1, <4>1
    <3>2. \A t \in Task : \A k \in kept[t] : k < sent + 1
      <4>1. \A t \in Task : \A k \in kept[t] : k \in 1 .. sent
        BY DEF DrainInv
      <4>. QED BY <2>1, <4>1
    <3>3. \A t \in Task : \A m \in Waiting' \ kept[t] : \A k \in kept[t] : k < m
      BY <2>2, <2>3, <3>2 DEF OrderInv
    <3>4. \A m \in Waiting' : \A k \in inFlight : k < m
      BY <2>2, <2>3, <3>1 DEF OrderInv
    <3>. QED BY <2>1, <2>3, <3>3, <3>4 DEF OrderInv
  <2>. QED BY <1>1, <2>1, <2>3
<1>7. CASE Push \/ HubFails \/ Dispose \/ PushLoopEnds \/ Beat
  BY <1>3, <1>7 DEF Push, HubFails, Dispose, PushLoopEnds, Beat, hubVars, taskVars, outVars
<1>8. CASE StartupFails \/ Close
  BY <1>1, <1>8 DEF StartupFails, Close, EndCall
<1>9. CASE Enter
  <2>1. CASE OpenCall
    BY <1>1, <2>1 DEF OpenCall
  <2>2. CASE Subscribe
    <3>1. \A t \in Task : stage[t] = "idle"
      BY <2>2 DEF Subscribe, StageInv, Task, Drain, Producer
    <3>2. inFlight' = {} /\ kept' = kept /\ \A t \in Task : kept[t] = {}
      BY <2>2, <3>1 DEF Subscribe, DrainInv, QueueInv, outVars
    <3>. QED BY <3>2 DEF OrderInv
  <2>. QED BY <1>8, <1>9, <2>1, <2>2 DEF Enter, Connect, Reenter
<1>10. ASSUME NEW t \in Task, TaskStep(t) PROVE OrderInv'
  <2>1. CASE Wake(t) \/ Run(t)
    BY <1>3, <2>1 DEF Wake, Run, hubVars, outVars
  <2>2. CASE ProducerFails(t)
    <3>1. phase' = phase \/ phase' = "closing"
      BY <2>2 DEF ProducerFails, SignalError
    <3>. QED BY <1>1, <1>3, <2>2, <3>1 DEF ProducerFails, hubVars
  <2>3. CASE Fetch(t)
    <3>1. /\ UNCHANGED <<sent, read, inFlight, phase>>
          /\ kept'[t] = {m \in Unread : Disp(m) = "yield"}
          /\ \A u \in Task \ {t} : kept'[u] = kept[u]
      BY <2>3 DEF Fetch, TypeOK, hubVars, outVars
    <3>2. Waiting' = Waiting /\ Waiting \subseteq kept'[t] /\ kept'[t] \cap read = {}
      BY <3>1 DEF Waiting, Unread, Disp
    <3>. QED BY <3>1, <3>2 DEF OrderInv
  <2>4. CASE Ack(t)
    <3>. DEFINE n == Least(todo[t])
    <3>1. Disp(n) = "handled"
      BY <2>4, LeastOfTodo DEF Ack, DrainInv
    <3>2. /\ UNCHANGED <<phase, sent, kept, inFlight>>
          /\ read \subseteq read' /\ read' \subseteq read \cup {n}
      BY <2>4 DEF Ack, Carried, Lost, outVars
    <3>. HIDE DEF n
    <3>. QED BY <1>1, <1>5, <3>1, <3>2
  <2>5. CASE EnqueueAll(t)
    <3>. DEFINE A == ToSet(Accepted(t))
    <3>1. /\ UNCHANGED <<sent, read>> /\ inFlight' = inFlight \cup A
          /\ kept'[t] = {} /\ \A u \in Task \ {t} : kept'[u] = kept[u]
      BY <2>5 DEF EnqueueAll, IdsOfAccepted, TypeOK, hubVars
    <3>2. A \subseteq Fresh(t) /\ \A m \in Fresh(t) \ A : \A k \in A : k < m
      BY AcceptedEffect
    <3>. HIDE DEF A
    <3>3. phase' \in {"startup", "running"} => phase \in {"startup", "running"}
      BY <2>5 DEF EnqueueAll, StageInv
    <3>4. Waiting' = Waiting \ A
      BY <3>1 DEF Waiting, Unread, Disp
    <3>5. CASE phase \in {"startup", "running"}
      <4>1. ASSUME NEW m \in Waiting \ A, NEW k \in A PROVE k < m
        <5>1. k \in kept[t]
          BY <3>2 DEF Fresh
        <5>2. CASE m \in kept[t]
          BY <3>2, <4>1, <5>2 DEF Fresh, Waiting
        <5>3. CASE m \notin kept[t]
          BY <3>5, <4>1, <5>1, <5>3 DEF OrderInv
        <5>. QED BY <5>2, <5>3
      <4>2. \A m \in Waiting' : \A k \in inFlight' : k < m
        BY <3>1, <3>4, <3>5, <4>1 DEF OrderInv
      <4>3. \A u \in Task : \A m \in Waiting' \ kept'[u] : \A k \in kept'[u] : k < m
        BY <3>1, <3>4, <3>5 DEF OrderInv
      <4>4. \A u \in Task : \A m \in kept'[u] : m \in read' => m \in inFlight'
        BY <3>1, <3>5 DEF OrderInv
      <4>. QED BY <4>2, <4>3, <4>4 DEF OrderInv
    <3>. QED BY <1>1, <3>3, <3>5
  <2>. QED BY <1>10, <2>1, <2>2, <2>3, <2>4, <2>5 DEF TaskStep
<1>11. CASE Take
  BY <1>2, <1>11 DEF Take, hubVars, taskVars
<1>12. CASE Finish
  <2>1. phase = "running" /\ cur \in given
    BY <1>12 DEF Finish, QueueInv
  <2>2. cur \in inFlight
    BY <2>1 DEF QueueInv, InFlightIsExact
  <2>3. /\ UNCHANGED <<phase, sent, kept, inFlight>>
        /\ read \subseteq read' /\ read' \subseteq read \cup {cur}
    BY <1>12 DEF Finish, taskVars, outVars
  <2>. QED BY <1>5, <2>1, <2>2, <2>3
<1>13. CASE Leave
  BY <1>1, <1>13 DEF Leave
<1>. QED BY <1>4, <1>6, <1>7, <1>8, <1>9, <1>10, <1>11, <1>12, <1>13 DEF Next

----------------------------------------------------------------------------
\* The theorems

\* The invariant is inductive, so it holds in every reachable state.
THEOREM Invariance == Spec => []InductiveInv
<1>1. Init => InductiveInv
  <2>. SUFFICES ASSUME Init PROVE InductiveInv
    OBVIOUS
  <2>1. TypeOK
    BY InboxAssumption, EmptySeq DEF Init, TypeOK, Phase, Stage
  <2>2. StageInv /\ DrainInv /\ OrderInv
    BY DEF Init, StageInv, DrainInv, OrderInv, Task, Drain, Producer
  <2>3. OwedInv
    <3>1. \A m \in Msg : InHand(m) = 0
      BY DEF Init, InHand, Under, Task, Drain
    <3>. QED BY <3>1 DEF Init, OwedInv
  <2>4. QueueInv
    BY DEF Init, QueueInv
  <2>. QED BY <2>1, <2>2, <2>3, <2>4 DEF InductiveInv
<1>2. InductiveInv /\ [Next]_vars => InductiveInv'
  <2>. SUFFICES ASSUME InductiveInv, [Next]_vars PROVE InductiveInv'
    OBVIOUS
  <2>1. TypeOK' /\ QueueInv' /\ OrderInv'
    BY TypeInductive, QueueInductive, OrderInductive
  <2>2. StageInv' /\ DrainInv' /\ OwedInv'
    BY StageInductive, DrainInductive, OwedInductive DEF InductiveInv
  <2>. QED BY <2>1, <2>2 DEF InductiveInv
<1>. QED BY <1>1, <1>2, PTL DEF Spec

\* Every variable keeps its type; in particular the push queue stays within its
\* capacity, and no ack is accounted for without a dispatch.
THEOREM TypeCorrect == Spec => []TypeOK
BY Invariance, PTL DEF InductiveInv

\* The id set is neither too large (a message hidden from the call) nor too
\* small (a message handed out twice), whatever the buffer drops.
THEOREM IdSetExact == Spec => []InFlightIsExact
<1>1. InductiveInv => InFlightIsExact
  BY DEF InductiveInv, QueueInv, InFlightIsExact
<1>. QED BY <1>1, Invariance, PTL

\* A call that is over has left no command half-way.
THEOREM NothingAbandoned == Spec => []NoCommandAbandoned
<1>1. InductiveInv => NoCommandAbandoned
  <2>. SUFFICES ASSUME InductiveInv, phase = "none", NEW m \in Msg, owed[m] > 0
                PROVE  m \in read
    BY DEF NoCommandAbandoned
  <2>1. \A t \in Drain : stage[t] = "idle"
    BY DEF InductiveInv, StageInv, Drain, Producer
  <2>2. InHand(m) = 0
    BY <2>1 DEF InHand, Under, Drain
  <2>. QED BY <2>2 DEF InductiveInv, OwedInv
<1>. QED BY <1>1, Invariance, PTL

\* The application is given a message by two kinds of step: its own, from the
\* buffer, and a drain's that finds it waiting.
LEMMA GivenBy ==
  ASSUME InductiveInv, [Next]_vars, cur' \notin {0, cur}
  PROVE  \E m \in Msg : Hands(m)
<1>1. Take \/ \E t \in Task : EnqueueAll(t)
  BY DEF Next, Arrive, Push, HubFails, Dispose, Enter, Connect, Reenter, OpenCall, Subscribe,
         StartupFails, EndCall, TaskStep, Wake, Fetch, ProducerFails, Run, Ack, PushLoopEnds,
         Beat, Finish, Leave, Close, appVars, vars
<1>. QED BY <1>1, TakeEffect, EnqueueEffect DEF InductiveInv

\* One inbox() call hands out messages in the hub's order, and none twice, with
\* three drains that overlap and take their snapshots when they like.
THEOREM InOrder == Spec => YieldsInOrder
<1>1. InductiveInv /\ [Next]_vars => [cur' \notin {0, cur} => \A k \in given : k < cur']_vars
  BY GivenBy DEF Hands
<1>. QED BY <1>1, Invariance, PTL DEF Spec, YieldsInOrder

----------------------------------------------------------------------------
\* Refinement

\* Every step of JsInbox is one of the contract's steps or invisible to it.
LEMMA StepRefines ==
  ASSUME InductiveInv, [Next]_vars
  PROVE  [Contract!Next]_Contract!vars
<1>1. ASSUME UNCHANGED <<sent, read, given, shown, owed>>, cur' \in {cur, 0}
      PROVE  [Contract!Next]_Contract!vars
  BY <1>1 DEF Contract!Finish, Contract!MayFinish, Contract!Next
<1>2. ASSUME NEW m \in shown, read' = read \cup {m}, cur' \in {cur, 0},
             UNCHANGED <<sent, given, shown, owed>>
      PROVE  [Contract!Next]_Contract!vars
  <2>1. Contract!MarkRead(m)
    BY <1>2 DEF Contract!MarkRead, Contract!MayFinish
  <2>2. m \in Msg
    BY DEF InductiveInv, TypeOK
  <2>. QED BY <2>1, <2>2 DEF Contract!Next, Contract!Msg, Msg
<1>3. ASSUME NEW m \in Msg, Hands(m), UNCHANGED <<sent, read, owed>>
      PROVE  [Contract!Next]_Contract!vars
  <2>1. Contract!Yield(m)
    BY <1>3 DEF Hands, Contract!Yield
  <2>. QED BY <2>1 DEF Contract!Next, Contract!Msg, Msg
<1>4. CASE UNCHANGED vars
  BY <1>1, <1>4 DEF vars, hubVars, appVars
<1>5. CASE Arrive
  BY <1>5 DEF Arrive, appVars, Contract!Arrive, Contract!Next
<1>6. CASE Push \/ HubFails \/ Dispose \/ PushLoopEnds \/ Beat \/ StartupFails \/ Close
  BY <1>1, <1>6 DEF Push, HubFails, Dispose, PushLoopEnds, Beat, StartupFails, Close, EndCall,
                    hubVars, appVars
<1>7. CASE Enter
  <2>1. CASE OpenCall
    BY <2>1 DEF OpenCall, hubVars, Contract!NewCall, Contract!Next
  <2>2. CASE Subscribe
    BY <1>1, <2>2 DEF Subscribe, hubVars, appVars
  <2>. QED BY <1>6, <1>7, <2>1, <2>2 DEF Enter, Connect, Reenter
<1>8. ASSUME NEW t \in Task, TaskStep(t) PROVE [Contract!Next]_Contract!vars
  <2>1. CASE Wake(t) \/ Fetch(t) \/ ProducerFails(t)
    BY <1>1, <2>1 DEF Wake, Fetch, ProducerFails, hubVars, appVars
  <2>2. CASE Run(t)
    <3>. DEFINE m == Least(todo[t])
    <3>1. m \in Msg /\ m \in 1 .. sent
      BY <2>2, LeastOfTodo DEF Run, InductiveInv
    <3>2. Contract!Execute(m)
      BY <2>2, <3>1 DEF Run, hubVars, Contract!Execute
    <3>. QED BY <3>1, <3>2 DEF Contract!Next, Contract!Msg, Msg
  <2>3. CASE Ack(t)
    <3>. DEFINE m == Least(todo[t])
    <3>1. m \in Msg /\ m \in shown
      BY <2>3, LeastOfTodo DEF Ack, InductiveInv, DrainInv
    <3>2. UNCHANGED <<sent, given, shown, cur>> /\ (Carried(m) \/ Lost(m))
      BY <2>3 DEF Ack
    <3>3. owed[m] > 0
      <4>1. t \in Drain /\ Under(t, m) = 1
        BY <2>3, OnlyDrains DEF Ack, Under, InductiveInv
      <4>2. InHand(m) \in Nat /\ 1 <= InHand(m)
        BY <4>1, InHandTyped
      <4>3. InHand(m) <= owed[m] /\ owed[m] \in Nat
        BY <3>1 DEF InductiveInv, OwedInv, TypeOK
      <4>. QED BY <4>2, <4>3
    <3>. HIDE DEF m
    <3>4. CASE Carried(m)
      BY <1>2, <3>1, <3>2, <3>4 DEF Carried
    <3>5. CASE Lost(m)
      <4>1. Contract!Excuse(m)
        BY <3>2, <3>3, <3>5 DEF Lost, Contract!Excuse, Contract!MayFinish
      <4>. QED BY <3>1, <4>1 DEF Contract!Next, Contract!Msg, Msg
    <3>. QED BY <3>2, <3>4, <3>5
  <2>4. CASE EnqueueAll(t)
    <3>1. UNCHANGED <<sent, read, owed>>
      BY <2>4 DEF EnqueueAll, hubVars
    <3>2. UNCHANGED <<cur, given, shown>> \/ \E m \in Msg : Hands(m)
      BY <2>4, EnqueueEffect DEF InductiveInv
    <3>. QED BY <1>1, <1>3, <3>1, <3>2
  <2>. QED BY <1>8, <2>1, <2>2, <2>3, <2>4 DEF TaskStep
<1>9. CASE Take
  <2>1. UNCHANGED <<sent, read, owed>>
    BY <1>9 DEF Take, hubVars
  <2>2. UNCHANGED <<cur, given, shown>> \/ \E m \in Msg : Hands(m)
    BY <1>9, TakeEffect DEF InductiveInv
  <2>. QED BY <1>1, <1>3, <2>1, <2>2
<1>10. CASE Finish \/ Leave
  <2>1. cur \in shown
    BY <1>10 DEF Finish, Leave, InductiveInv, QueueInv
  <2>2. UNCHANGED <<sent, given, shown, owed>> /\ cur' = 0
        /\ (read' = read \cup {cur} \/ UNCHANGED read)
    BY <1>10 DEF Finish, Leave
  <2>. QED BY <1>1, <1>2, <2>1, <2>2
<1>. QED BY <1>4, <1>5, <1>6, <1>7, <1>8, <1>9, <1>10 DEF Next

\* The inbox of the JavaScript SDK implements the contract, though without a
\* lock a command may be dispatched twice.
THEOREM Refinement == Spec => ImplementsContract
<1>1. Init => Contract!Init
  BY DEF Init, Contract!Init, Contract!Msg, Msg
<1>. QED BY <1>1, Invariance, StepRefines, PTL DEF Spec, ImplementsContract, Contract!Spec

============================================================================
