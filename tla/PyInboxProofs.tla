--------------------------- MODULE PyInboxProofs ---------------------------
(***************************************************************************)
(* PyInbox keeps its safety properties for every number of messages, every *)
(* routing mode, every capacity and every number of disturbances.          *)
(*                                                                         *)
(* Each part of InductiveInv gets a lemma that says a step preserves it,   *)
(* with one step of the proof per action that touches its variables.       *)
(***************************************************************************)
EXTENDS PyInboxInv, MessageOrderProofs, SequenceTheorems

----------------------------------------------------------------------------
\* Facts about single states

\* In a typed state with DrainInv, a task that dispatches has a next command.
LEMMA LeastOfTodo ==
  ASSUME TypeOK, DrainInv, NEW t \in Task, stage[t] \in {"run", "ack"}
  PROVE  /\ Least(todo[t]) \in todo[t]
         /\ Least(todo[t]) \in Msg
<1>1. todo[t] \in SUBSET (1 .. MaxMsg) /\ todo[t] # {}
  BY DEF TypeOK, DrainInv, Msg
<1>2. MaxMsg \in Nat
  BY InboxAssumption
<1>. QED BY <1>1, <1>2, LeastExists DEF Msg

\* The same for a task that enqueues.
LEMMA LeastOfKept ==
  ASSUME TypeOK, NEW t \in Task, kept[t] # {}
  PROVE  /\ Least(kept[t]) \in kept[t]
         /\ Least(kept[t]) \in Msg
         /\ \A k \in kept[t] : Least(kept[t]) <= k
<1>1. kept[t] \in SUBSET (1 .. MaxMsg)
  BY DEF TypeOK, Msg
<1>2. MaxMsg \in Nat
  BY InboxAssumption
<1>. QED BY <1>1, <1>2, LeastExists DEF Msg

\* The lock keeps drains apart.
LEMMA LockExcludes ==
  ASSUME LockInv
  PROVE  \A t, u \in Task : stage[t] \in Busy /\ stage[u] \in Busy => t = u
BY DEF LockInv, Busy, Task, Loop

\* At most one command is being dispatched.
LEMMA OneDispatch ==
  ASSUME LockInv, NEW m \in Dispatching, NEW k \in Dispatching
  PROVE  m = k
BY LockExcludes DEF Dispatching, Busy

\* What is being dispatched is a message.
LEMMA DispatchingTyped ==
  ASSUME TypeOK, DrainInv
  PROVE  /\ Dispatching \subseteq Msg
         /\ \A m \in Dispatching : \E t \in Task :
               stage[t] = "ack" /\ m = Least(todo[t]) /\ m \in todo[t]
BY LeastOfTodo DEF Dispatching

----------------------------------------------------------------------------
\* Type correctness

\* Every step preserves the types.
LEMMA TypeInductive ==
  ASSUME TypeOK, LockInv, DrainInv, OwedInv, [Next]_vars
  PROVE  TypeOK'
<1>. USE InboxAssumption DEF TypeOK
<1>1. CASE UNCHANGED vars
  BY <1>1 DEF vars, hubVars, sessVars, taskVars, outVars, appVars
<1>2. ASSUME EndCall, faults' \in 0 .. MaxFaults PROVE TypeOK'
  <2>1. \A m \in Dispatching : owed[m] - 1 \in Nat
    BY DispatchingTyped DEF OwedInv
  <2>2. owed' \in [Msg -> Nat]
    BY <1>2, <2>1 DEF EndCall
  <2>3. late' \subseteq Msg
    BY <1>2, DispatchingTyped DEF EndCall, AckedAtEnd
  <2>4. out' \in Seq(Msg)
    BY <1>2 DEF EndCall
  <2>. QED BY <1>2, <2>2, <2>3, <2>4 DEF EndCall, Phase, Stage
<1>3. ASSUME faults \in 0 .. MaxFaults, CallFails PROVE faults' \in 0 .. MaxFaults
  BY <1>3 DEF CallFails, Disturb
<1>4. CASE Hub
  <2>1. CASE Arrive
    BY <2>1 DEF Arrive, sessVars, taskVars, outVars, appVars, Msg
  <2>2. CASE LateAck
    BY <2>2 DEF LateAck, sessVars, taskVars, outVars, appVars
  <2>3. CASE Push
    BY <2>3 DEF Push, hubVars, taskVars, outVars, appVars
  <2>4. CASE HubFails
    BY <2>4 DEF HubFails, Disturb, hubVars, taskVars, outVars, appVars
  <2>. QED BY <1>4, <2>1, <2>2, <2>3, <2>4 DEF Hub
<1>5. CASE Enter
  <2>1. CASE Connect
    BY <2>1 DEF Connect, OpenCall, hubVars, taskVars, outVars, Phase
  <2>2. CASE Reenter
    BY <2>2 DEF Reenter, Disturb, OpenCall, hubVars, sessVars, taskVars, outVars, Phase
  <2>3. CASE Subscribe
    BY <2>3 DEF Subscribe, hubVars, sessVars, outVars, appVars, Phase, Stage
  <2>4. CASE SubscribeFails
    BY <1>2, <1>3, <2>4 DEF SubscribeFails
  <2>. QED BY <1>5, <2>1, <2>2, <2>3, <2>4 DEF Enter
<1>6. ASSUME NEW t \in Task, TaskStep(t) PROVE TypeOK'
  <2>1. CASE Wake(t)
    BY <2>1 DEF Wake, Due, hubVars, outVars, appVars, Stage
  <2>2. CASE Acquire(t)
    <3>1. t \in Loop
      BY <2>2 DEF Acquire, LockInv, Task
    <3>. QED BY <2>2, <3>1 DEF Acquire, hubVars, sessVars, outVars, appVars, Stage
  <2>3. CASE Fetch(t)
    <3>1. Unread \subseteq Msg
      BY DEF Unread, Msg
    <3>2. todo' \in [Task -> SUBSET Msg] /\ kept' \in [Task -> SUBSET Msg]
      BY <2>3, <3>1 DEF Fetch
    <3>. QED BY <2>3, <3>2 DEF Fetch, hubVars, sessVars, outVars, appVars, Stage
  <2>4. CASE FetchFails(t)
    BY <1>2, <1>3, <2>4 DEF FetchFails
  <2>5. CASE Run(t)
    <3>1. Least(todo[t]) \in Msg
      BY <2>5, LeastOfTodo DEF Run
    <3>. QED BY <2>5, <3>1 DEF Run, hubVars, sessVars, outVars, Stage
  <2>6. CASE Crash(t)
    BY <1>2, <2>6 DEF Crash
  <2>7. CASE Ack(t)
    <3>1. Least(todo[t]) \in Msg
      BY <2>7, LeastOfTodo DEF Ack
    <3>2. owed[Least(todo[t])] = 1
      BY <2>7 DEF Ack, OwedInv
    <3>3. faults' \in 0 .. MaxFaults
      BY <1>3, <2>7 DEF Ack
    <3>4. \/ UNCHANGED owed
          \/ owed' = [owed EXCEPT ![Least(todo[t])] = owed[Least(todo[t])] - 1]
      BY <2>7 DEF Ack
    <3>5. owed' \in [Msg -> Nat]
      BY <3>1, <3>2, <3>4
    <3>. QED BY <2>7, <3>1, <3>3, <3>5 DEF Ack, sessVars, outVars, Stage
  <2>8. CASE Enqueue(t)
    <3>1. Least(kept[t]) \in Msg
      BY <2>8, LeastOfKept DEF Enqueue
    <3>2. Append(out, Least(kept[t])) \in Seq(Msg)
      BY <3>1, AppendProperties
    <3>3. out' \in Seq(Msg) /\ inFlight' \subseteq Msg
      BY <2>8, <3>1, <3>2 DEF Enqueue, ForgetDropped, outVars
    <3>. QED BY <2>8, <3>3 DEF Enqueue, hubVars, sessVars, appVars
  <2>9. CASE EnqueueBroken(t)
    BY <1>2, <2>9 DEF EnqueueBroken
  <2>10. CASE EndDrain(t)
    BY <2>10 DEF EndDrain, hubVars, sessVars, outVars, appVars, Stage, Phase
  <2>. QED BY <1>6, <2>1, <2>2, <2>3, <2>4, <2>5, <2>6, <2>7, <2>8, <2>9, <2>10
           DEF TaskStep
<1>7. CASE PushLoopBroken
  BY <1>2, <1>7 DEF PushLoopBroken
<1>8. CASE HeartbeatFails
  BY <1>2, <1>3, <1>8 DEF HeartbeatFails
<1>9. CASE Application
  <2>1. CASE Take
    <3>1. Head(out) \in Msg /\ Tail(out) \in Seq(Msg)
      BY <2>1, HeadTailProperties DEF Take
    <3>. QED BY <2>1, <3>1 DEF Take, hubVars, sessVars, taskVars
  <2>2. CASE Finish
    BY <2>2 DEF Finish, sessVars, taskVars, outVars
  <2>3. CASE Leave
    BY <1>3, <2>3 DEF Leave, Disturb, sessVars, taskVars, outVars, Phase
  <2>4. CASE Cancel
    BY <1>2, <2>4 DEF Cancel
  <2>. QED BY <1>9, <2>1, <2>2, <2>3, <2>4 DEF Application
<1>. QED BY <1>1, <1>4, <1>5, <1>6, <1>7, <1>8, <1>9 DEF Next

----------------------------------------------------------------------------
\* drain_lock

\* Every step keeps one drain at a time: the startup drain or the lock holder.
LEMMA LockInductive ==
  ASSUME TypeOK, LockInv, [Next]_vars
  PROVE  LockInv'
<1>. USE DEF LockInv
<1>1. CASE UNCHANGED <<stage, phase, lock>>
  BY <1>1
<1>2. CASE EndCall
  BY <1>2 DEF EndCall, Busy, Task, Loop
<1>3. CASE UNCHANGED vars
  BY <1>1, <1>3 DEF vars, taskVars
<1>4. CASE Hub
  BY <1>1, <1>4 DEF Hub, Arrive, LateAck, Push, HubFails, taskVars
<1>5. CASE Enter
  <2>1. CASE OpenCall
    BY <2>1 DEF OpenCall, taskVars, Loop
  <2>2. CASE Subscribe
    BY <2>2 DEF Subscribe, TypeOK, Task, Loop
  <2>. QED BY <1>2, <1>5, <2>1, <2>2 DEF Enter, Connect, Reenter, SubscribeFails
<1>6. ASSUME NEW t \in Task, TaskStep(t) PROVE LockInv'
  <2>1. CASE Wake(t)
    BY <2>1 DEF Wake, InTasks, TypeOK, Task, Loop, Busy
  <2>2. CASE Acquire(t)
    BY <2>2 DEF Acquire, DrainLockFree, InTasks, TypeOK, Task, Loop, Busy
  <2>3. CASE /\ stage[t] \in Busy
             /\ \E s \in Busy : stage' = [stage EXCEPT ![t] = s]
             /\ UNCHANGED <<phase, lock>>
    BY <2>3 DEF TypeOK, Task, Loop, Busy
  <2>4. CASE Fetch(t) \/ Run(t) \/ Ack(t)
    BY <2>3, <2>4 DEF Fetch, Run, Ack, Busy
  <2>5. CASE Enqueue(t)
    BY <1>1, <2>5 DEF Enqueue
  <2>6. CASE EndDrain(t)
    BY <2>6 DEF EndDrain, TypeOK, Task, Loop, Busy
  <2>. QED BY <1>2, <1>6, <2>1, <2>2, <2>4, <2>5, <2>6
           DEF TaskStep, FetchFails, Crash, EnqueueBroken
<1>7. CASE PushLoopBroken \/ HeartbeatFails
  BY <1>2, <1>7 DEF PushLoopBroken, HeartbeatFails
<1>8. CASE Application
  <2>1. CASE Take \/ Finish
    BY <1>1, <2>1 DEF Take, Finish, taskVars
  <2>2. CASE Leave
    BY <2>2 DEF Leave, taskVars, Loop
  <2>. QED BY <1>2, <1>8, <2>1, <2>2 DEF Application, Cancel
<1>. QED BY <1>3, <1>4, <1>5, <1>6, <1>7, <1>8 DEF Next

----------------------------------------------------------------------------
\* What the drains carry

\* Every step keeps what a drain carries and its stage in agreement.
LEMMA DrainInductive ==
  ASSUME TypeOK, LockInv, DrainInv, [Next]_vars
  PROVE  DrainInv'
<1>. USE DEF DrainInv
<1>1. CASE UNCHANGED <<sent, stage, todo, kept>>
  BY <1>1
<1>2. CASE EndCall
  BY <1>2 DEF EndCall
<1>3. CASE UNCHANGED vars
  BY <1>1, <1>3 DEF vars, taskVars, hubVars
<1>4. CASE Hub
  <2>1. CASE Arrive
    <3>1. 1 .. sent \subseteq 1 .. sent'
      BY <2>1 DEF Arrive, TypeOK
    <3>. QED BY <2>1, <3>1 DEF Arrive, taskVars
  <2>. QED BY <1>1, <1>4, <2>1 DEF Hub, LateAck, Push, HubFails, taskVars, hubVars
<1>5. CASE Enter
  <2>1. CASE OpenCall
    BY <1>1, <2>1 DEF OpenCall, taskVars, hubVars
  <2>2. CASE Subscribe
    <3>1. stage["startup"] = "idle"
      BY <2>2 DEF Subscribe, LockInv
    <3>. QED BY <2>2, <3>1 DEF Subscribe, TypeOK, Task, Loop, hubVars
  <2>. QED BY <1>2, <1>5, <2>1, <2>2 DEF Enter, Connect, Reenter, SubscribeFails
<1>6. ASSUME NEW t \in Task, TaskStep(t) PROVE DrainInv'
  <2>1. CASE Wake(t) \/ Acquire(t)
    BY <2>1 DEF Wake, Acquire, TypeOK, hubVars
  <2>2. CASE Fetch(t)
    BY <2>2 DEF Fetch, Unread, TypeOK, hubVars
  <2>3. CASE Run(t)
    BY <2>3 DEF Run, TypeOK, hubVars
  <2>4. CASE Ack(t)
    BY <2>4 DEF Ack, TypeOK
  <2>5. CASE Enqueue(t)
    BY <2>5 DEF Enqueue, TypeOK, hubVars
  <2>6. CASE EndDrain(t)
    BY <2>6 DEF EndDrain, TypeOK, hubVars
  <2>. QED BY <1>2, <1>6, <2>1, <2>2, <2>3, <2>4, <2>5, <2>6
           DEF TaskStep, FetchFails, Crash, EnqueueBroken
<1>7. CASE PushLoopBroken \/ HeartbeatFails
  BY <1>2, <1>7 DEF PushLoopBroken, HeartbeatFails
<1>8. CASE Application
  BY <1>1, <1>2, <1>8
     DEF Application, Take, Finish, Leave, Cancel, taskVars, hubVars
<1>. QED BY <1>3, <1>4, <1>5, <1>6, <1>7, <1>8 DEF Next

----------------------------------------------------------------------------
\* Commands and their acks

\* While one task drains, no other carries commands, so what is being
\* dispatched is what this task dispatches.
LEMMA OnlyTask ==
  ASSUME TypeOK, LockInv, DrainInv, NEW t \in Task, stage[t] \in Busy
  PROVE  /\ \A u \in Task \ {t} : stage[u] \notin Busy /\ todo[u] = {} /\ kept[u] = {}
         /\ Dispatching = IF stage[t] = "ack" THEN {Least(todo[t])} ELSE {}
<1>1. \A u \in Task \ {t} : stage[u] \notin Busy
  BY LockExcludes
<1>2. \A u \in Task \ {t} : todo[u] = {} /\ kept[u] = {}
  BY <1>1 DEF DrainInv, Busy
<1>. QED BY <1>1, <1>2 DEF Dispatching, Busy

\* Every step keeps the books of dispatches and acks.
LEMMA OwedInductive ==
  ASSUME TypeOK, LockInv, DrainInv, OwedInv, [Next]_vars
  PROVE  OwedInv'
<1>1. CASE UNCHANGED <<owed, stage, todo>> /\ read \subseteq read'
  BY <1>1 DEF OwedInv, Dispatching
<1>2. CASE EndCall
  <2>1. Dispatching' = {}
    BY <1>2 DEF EndCall, Dispatching
  <2>2. \A m \in Msg : owed'[m] = IF m \in Dispatching THEN owed[m] - 1 ELSE owed[m]
    BY <1>2 DEF EndCall
  <2>3. \A m \in Dispatching : owed[m] = 1
    BY DispatchingTyped DEF OwedInv
  <2>. QED BY <1>2, <2>1, <2>2, <2>3 DEF EndCall, OwedInv
<1>3. CASE UNCHANGED vars
  BY <1>1, <1>3 DEF vars, hubVars, taskVars, appVars
<1>4. CASE Hub
  BY <1>1, <1>4 DEF Hub, Arrive, LateAck, Push, HubFails, hubVars, taskVars, appVars
<1>5. CASE Enter
  <2>1. CASE OpenCall
    BY <1>1, <2>1 DEF OpenCall, hubVars, taskVars
  <2>2. CASE Subscribe
    <3>1. Dispatching' = Dispatching
      <4>1. \A t \in Task : stage'[t] = "ack" <=> stage[t] = "ack"
        BY <2>2 DEF Subscribe, LockInv, TypeOK
      <4>. QED BY <2>2, <4>1 DEF Subscribe, Dispatching
    <3>. QED BY <2>2, <3>1 DEF Subscribe, OwedInv, TypeOK, hubVars, appVars
  <2>. QED BY <1>2, <1>5, <2>1, <2>2 DEF Enter, Connect, Reenter, SubscribeFails
<1>6. ASSUME NEW t \in Task, TaskStep(t) PROVE OwedInv'
  <2>1. CASE /\ UNCHANGED <<owed, read, todo>>
             /\ \A u \in Task : stage'[u] = "ack" <=> stage[u] = "ack"
    <3>1. Dispatching' = Dispatching
      BY <2>1 DEF Dispatching
    <3>. QED BY <2>1, <3>1 DEF OwedInv
  <2>2. CASE Wake(t) \/ Acquire(t) \/ Enqueue(t) \/ EndDrain(t)
    BY <2>1, <2>2 DEF Wake, Acquire, Enqueue, EndDrain, hubVars, appVars, TypeOK
  <2>3. CASE Fetch(t)
    <3>1. Dispatching = {} /\ \A u \in Task \ {t} : stage[u] \notin Busy /\ todo[u] = {}
      BY <2>3, OnlyTask DEF Fetch, Busy
    <3>2. Dispatching' = {}
      BY <2>3, <3>1 DEF Fetch, Dispatching, TypeOK, Busy
    <3>3. UNCHANGED <<owed, read>> /\ \A u \in Task : stage'[u] # "ack"
      BY <2>3, <3>1 DEF Fetch, hubVars, appVars, TypeOK, Busy
    <3>4. \A u \in Task : \A m \in todo'[u] : m \in Msg /\ m \notin read
      <4>1. Unread \subseteq Msg \ read
        BY InboxAssumption DEF Unread, TypeOK, Msg
      <4>2. todo'[t] \subseteq Unread /\ \A u \in Task \ {t} : todo'[u] = todo[u]
        BY <2>3 DEF Fetch, TypeOK
      <4>. QED BY <3>1, <4>1, <4>2
    <3>. QED BY <3>1, <3>2, <3>3, <3>4 DEF OwedInv
  <2>4. CASE Run(t)
    <3>. DEFINE m == Least(todo[t])
    <3>1. m \in todo[t] /\ m \in Msg
      BY <2>4, LeastOfTodo DEF Run
    <3>2. Dispatching = {} /\ \A u \in Task \ {t} : stage[u] \notin Busy /\ todo[u] = {}
      BY <2>4, OnlyTask DEF Run, Busy
    <3>3. UNCHANGED <<todo, read>> /\ stage' = [stage EXCEPT ![t] = "ack"]
          /\ owed' = [owed EXCEPT ![m] = owed[m] + 1]
      BY <2>4 DEF Run, hubVars
    <3>4. Dispatching' = {m}
      BY <3>2, <3>3 DEF Dispatching, TypeOK, Busy
    <3>5. owed[m] = 0
      BY <3>1, <3>2 DEF OwedInv
    <3>6. owed'[m] = 1 /\ \A k \in Msg \ {m} : owed'[k] = owed[k]
      BY <3>1, <3>3, <3>5 DEF TypeOK
    <3>7. \A u \in Task : stage'[u] = "ack" => u = t
      BY <3>2, <3>3 DEF TypeOK, Busy
    <3>8. \A u \in Task : todo[u] \subseteq Msg
      BY DEF TypeOK
    <3>. HIDE DEF m
    <3>9. \A k \in Msg : owed'[k] \in {0, 1} /\ (owed'[k] = 1 => k \in read' \cup Dispatching')
      BY <3>2, <3>3, <3>4, <3>6 DEF OwedInv
    <3>10. \A u \in Task : \A k \in todo'[u] \ Dispatching' : owed'[k] = 0
      BY <3>2, <3>3, <3>4, <3>6, <3>8 DEF OwedInv
    <3>11. \A u \in Task : stage'[u] = "ack" => owed'[Least(todo'[u])] = 1
      BY <3>3, <3>6, <3>7 DEF m
    <3>. QED BY <3>9, <3>10, <3>11 DEF OwedInv
  <2>5. CASE Ack(t)
    <3>. DEFINE m == Least(todo[t])
    <3>1. m \in todo[t] /\ m \in Msg /\ owed[m] = 1
      BY <2>5, LeastOfTodo DEF Ack, OwedInv
    <3>2. Dispatching = {m} /\ \A u \in Task \ {t} : stage[u] \notin Busy /\ todo[u] = {}
      BY <2>5, OnlyTask DEF Ack, Busy
    <3>3. \/ read' = read \cup {m} /\ UNCHANGED owed
          \/ UNCHANGED read /\ owed' = [owed EXCEPT ![m] = owed[m] - 1]
      BY <2>5 DEF Ack
    <3>4. todo' = [todo EXCEPT ![t] = todo[t] \ {m}] /\ \A u \in Task : stage'[u] # "ack"
      BY <2>5, <3>2 DEF Ack, TypeOK, Busy
    <3>5. Dispatching' = {}
      BY <3>4 DEF Dispatching
    <3>6. \A k \in Msg \ {m} : owed'[k] = owed[k]
      BY <3>3 DEF TypeOK
    <3>7. owed'[m] = 0 \/ (owed'[m] = 1 /\ m \in read')
      BY <3>1, <3>3 DEF TypeOK
    <3>8. \A u \in Task : todo[u] \subseteq Msg
      BY DEF TypeOK
    <3>. HIDE DEF m
    <3>9. \A k \in Msg : owed'[k] \in {0, 1} /\ (owed'[k] = 1 => k \in read' \cup Dispatching')
      BY <3>2, <3>3, <3>6, <3>7 DEF OwedInv
    <3>10. \A u \in Task : \A k \in todo'[u] \ Dispatching' : owed'[k] = 0
      BY <3>2, <3>4, <3>6, <3>8 DEF OwedInv, TypeOK
    <3>. QED BY <3>4, <3>9, <3>10 DEF OwedInv
  <2>. QED BY <1>2, <1>6, <2>2, <2>3, <2>4, <2>5
           DEF TaskStep, FetchFails, Crash, EnqueueBroken
<1>7. CASE PushLoopBroken \/ HeartbeatFails
  BY <1>2, <1>7 DEF PushLoopBroken, HeartbeatFails
<1>8. CASE Application
  BY <1>1, <1>2, <1>8 DEF Application, Take, Finish, Leave, Cancel, taskVars, hubVars
<1>. QED BY <1>3, <1>4, <1>5, <1>6, <1>7, <1>8 DEF Next

----------------------------------------------------------------------------
\* The output queue

\* What one synchronous _enqueue does to the queue.
LEMMA EnqueueEffect ==
  ASSUME TypeOK, LockInv, DrainInv, OrderInv, NEW t \in Task, Enqueue(t)
  PROVE  LET m == Least(kept[t]) IN
         /\ m \in kept[t] /\ m \in 1 .. sent /\ \A k \in kept[t] : m <= k
         /\ phase \in {"startup", "running", "closing"}
         /\ \/ UNCHANGED <<out, inFlight>> /\ (m \in inFlight \/ Len(out) >= OutCap)
            \/ /\ m \notin inFlight
               /\ phase \in {"startup", "running"}
               /\ Len(out) < OutCap
               /\ out' = Append(out, m)
               /\ inFlight' = inFlight \cup {m}
               /\ \A k \in inFlight : k < m
<1>. DEFINE m == Least(kept[t])
<1>1. m \in kept[t] /\ \A k \in kept[t] : m <= k
  BY LeastOfKept DEF Enqueue
<1>2. m \in 1 .. sent
  BY <1>1 DEF DrainInv
<1>3. phase \in {"startup", "running", "closing"}
  BY DEF Enqueue, LockInv, Task
<1>4. m \notin inFlight /\ phase # "closing" => \A k \in inFlight : k < m
  BY <1>1, <1>3 DEF OrderInv, Waiting
<1>5. CASE m \in inFlight
  BY <1>1, <1>2, <1>3, <1>5 DEF Enqueue, AlreadyInFlight, outVars
<1>6. CASE m \notin inFlight /\ Len(out) < OutCap
  BY <1>1, <1>2, <1>3, <1>4, <1>6 DEF Enqueue, AlreadyInFlight
<1>7. CASE m \notin inFlight /\ ~(Len(out) < OutCap)
  <2>1. Len(out) >= OutCap
    BY <1>7, InboxAssumption, LenProperties DEF TypeOK
  <2>2. UNCHANGED <<out, inFlight>>
    BY <1>7 DEF Enqueue, AlreadyInFlight, ForgetDropped
  <2>. QED BY <1>1, <1>2, <1>3, <2>1, <2>2
<1>. QED BY <1>5, <1>6, <1>7

\* What the application's next() does to it.
LEMMA TakeEffect ==
  ASSUME TypeOK, QueueInv, Take
  PROVE  /\ cur' \in 1 .. sent /\ \A k \in given : k < cur'
         /\ given' = given \cup {cur'}
         /\ Queued = Queued' \cup {cur'}
         /\ \A i \in 1 .. Len(out') : cur' < out'[i] /\ out'[i] <= sent
                                      /\ \A k \in given : k < out'[i]
         /\ \A i, j \in 1 .. Len(out') : i < j => out'[i] < out'[j]
         /\ Len(out') < Len(out)
<1>1. out \in Seq(Msg) /\ out # <<>>
  BY DEF TypeOK, Take
<1>2. cur' = Head(out) /\ out' = Tail(out) /\ given' = given \cup {cur'}
  BY DEF Take
<1>3. Len(out) \in Nat \ {0} /\ Len(out') = Len(out) - 1
  BY <1>1, <1>2, EmptySeq, HeadTailProperties
<1>4. \A i \in 1 .. Len(out') : out'[i] = out[i + 1] /\ i + 1 \in 1 .. Len(out)
  BY <1>1, <1>2, <1>3, HeadTailProperties
<1>5. cur' = out[1] /\ 1 \in 1 .. Len(out)
  BY <1>2, <1>3
<1>6. \A i \in 1 .. Len(out) : i = 1 \/ (i - 1 \in 1 .. Len(out') /\ out'[i - 1] = out[i])
  BY <1>3, <1>4
<1>7. Queued = Queued' \cup {cur'}
  <2>1. Queued \subseteq Queued' \cup {cur'}
    BY <1>5, <1>6 DEF Queued
  <2>2. Queued' \cup {cur'} \subseteq Queued
    BY <1>4, <1>5 DEF Queued
  <2>. QED BY <2>1, <2>2
<1>8. out[1] \in Nat /\ out[1] <= sent /\ \A k \in given : k < out[1]
  BY <1>1, <1>3, <1>5, ElementOfSeq, InboxAssumption DEF QueueInv, Msg
<1>9. out[1] \in 1 .. sent
  BY <1>1, <1>5, <1>8, ElementOfSeq, InboxAssumption DEF Msg, TypeOK
<1>10. \A i \in 1 .. Len(out') : cur' < out'[i] /\ out'[i] <= sent
                                 /\ \A k \in given : k < out'[i]
  <2>1. ASSUME NEW i \in 1 .. Len(out') PROVE cur' < out'[i]
    <3>1. 1 < i + 1
      OBVIOUS
    <3>. QED BY <1>4, <1>5, <3>1 DEF QueueInv
  <2>2. ASSUME NEW i \in 1 .. Len(out')
        PROVE  out'[i] <= sent /\ \A k \in given : k < out'[i]
    BY <1>4 DEF QueueInv
  <2>. QED BY <2>1, <2>2
<1>11. \A i, j \in 1 .. Len(out') : i < j => out'[i] < out'[j]
  BY <1>3, <1>4 DEF QueueInv
<1>. QED BY <1>2, <1>3, <1>5, <1>7, <1>8, <1>9, <1>10, <1>11

\* Every step keeps the queue sorted and the id set exact.
LEMMA QueueInductive ==
  ASSUME TypeOK, LockInv, DrainInv, QueueInv, OrderInv, [Next]_vars
  PROVE  QueueInv'
<1>1. CASE UNCHANGED <<sent, phase, out, inFlight, given>>
  BY <1>1 DEF QueueInv, Queued
<1>2. CASE EndCall
  <2>1. out' = <<>> /\ Len(out') = 0 /\ inFlight' = {} /\ phase' = "none"
        /\ UNCHANGED <<given, sent>>
    BY <1>2 DEF EndCall
  <2>. QED BY <2>1 DEF QueueInv
<1>3. CASE UNCHANGED vars
  BY <1>1, <1>3 DEF vars, hubVars, outVars, appVars
<1>4. CASE Hub
  <2>1. CASE Arrive
    <3>1. sent < sent' /\ sent \in Nat /\ sent' \in Nat
      BY <2>1 DEF Arrive, TypeOK
    <3>2. \A i \in 1 .. Len(out) : out[i] \in Nat
      BY ElementOfSeq, InboxAssumption DEF TypeOK, Msg
    <3>. QED BY <2>1, <3>1, <3>2
             DEF Arrive, QueueInv, Queued, outVars, appVars, TypeOK, Msg
  <2>. QED BY <1>1, <1>4, <2>1 DEF Hub, LateAck, Push, HubFails, hubVars, outVars, appVars
<1>5. CASE Enter
  <2>1. CASE OpenCall
    BY <2>1 DEF OpenCall, QueueInv, hubVars, outVars
  <2>2. CASE Subscribe
    <3>1. out = <<>> /\ Len(out) = 0 /\ inFlight = {} /\ given = {}
      BY <2>2 DEF Subscribe, QueueInv
    <3>. QED BY <2>2, <3>1 DEF Subscribe, QueueInv, Queued, hubVars, outVars, appVars
  <2>. QED BY <1>2, <1>5, <2>1, <2>2 DEF Enter, Connect, Reenter, SubscribeFails
<1>6. ASSUME NEW t \in Task, TaskStep(t) PROVE QueueInv'
  <2>1. CASE Enqueue(t)
    <3>. DEFINE m == Least(kept[t])
    <3>1. UNCHANGED <<sent, phase, given>>
      BY <2>1 DEF Enqueue, hubVars, appVars
    <3>2. CASE UNCHANGED <<out, inFlight>>
      BY <1>1, <3>1, <3>2
    <3>3. CASE /\ m \notin inFlight /\ m \in 1 .. sent
               /\ phase \in {"startup", "running"}
               /\ out' = Append(out, m)
               /\ inFlight' = inFlight \cup {m}
               /\ \A k \in inFlight : k < m
      <4>. HIDE DEF m
      <4>1. m \in Msg
        BY <3>3, InboxAssumption DEF TypeOK, Msg
      <4>2. Len(out) \in Nat /\ Len(out') = Len(out) + 1
        BY <3>3, <4>1, AppendProperties, LenProperties DEF TypeOK
      <4>3. \A i \in 1 .. Len(out) : out'[i] = out[i] /\ out[i] \in Nat
        BY <3>3, <4>1, AppendProperties, ElementOfSeq, InboxAssumption DEF TypeOK, Msg
      <4>4. out'[Len(out) + 1] = m
        BY <3>3, <4>1, AppendProperties DEF TypeOK
      <4>5. \A i \in 1 .. Len(out') : i \in 1 .. Len(out) \/ i = Len(out) + 1
        BY <4>2
      <4>6. inFlight = Queued \cup given
        BY <3>3 DEF QueueInv
      <4>7. Queued' = Queued \cup {m}
        BY <4>2, <4>3, <4>4, <4>5 DEF Queued
      <4>8. \A i \in 1 .. Len(out) : out[i] < m
        BY <3>3, <4>6 DEF Queued
      <4>9. \A k \in given : k < m
        BY <3>3, <4>6
      <4>10. \A i, j \in 1 .. Len(out') : i < j => out'[i] < out'[j]
        BY <4>2, <4>3, <4>4, <4>5, <4>8 DEF QueueInv
      <4>11. \A i \in 1 .. Len(out') : out'[i] <= sent' /\ \A k \in given' : k < out'[i]
        BY <3>1, <3>3, <4>3, <4>4, <4>5, <4>9 DEF QueueInv
      <4>. QED BY <3>1, <3>3, <4>6, <4>7, <4>10, <4>11 DEF QueueInv
    <3>. QED BY <2>1, <3>2, <3>3, EnqueueEffect
  <2>2. CASE EndDrain(t)
    <3>1. CASE t = "startup"
      <4>1. phase = "startup" /\ phase' = "running"
        BY <2>2, <3>1 DEF EndDrain, LockInv
      <4>. QED BY <2>2, <4>1 DEF EndDrain, QueueInv, Queued, hubVars, outVars, appVars
    <3>. QED BY <1>1, <2>2, <3>1 DEF EndDrain, hubVars, outVars, appVars
  <2>3. CASE Wake(t) \/ Acquire(t) \/ Fetch(t) \/ Run(t) \/ Ack(t)
    BY <1>1, <2>3 DEF Wake, Acquire, Fetch, Run, Ack, hubVars, outVars, appVars
  <2>. QED BY <1>2, <1>6, <2>1, <2>2, <2>3
           DEF TaskStep, FetchFails, Crash, EnqueueBroken
<1>7. CASE PushLoopBroken \/ HeartbeatFails
  BY <1>2, <1>7 DEF PushLoopBroken, HeartbeatFails
<1>8. CASE Application
  <2>1. CASE Take
    <3>1. UNCHANGED <<sent, phase, inFlight>> /\ phase = "running"
      BY <2>1 DEF Take, hubVars
    <3>2. \A i \in 1 .. Len(out') : out'[i] <= sent' /\ \A k \in given' : k < out'[i]
      BY <2>1, <3>1, TakeEffect
    <3>3. inFlight' = Queued' \cup given'
      BY <2>1, <3>1, TakeEffect DEF QueueInv
    <3>4. given' \subseteq 1 .. sent'
      BY <2>1, <3>1, TakeEffect DEF QueueInv
    <3>. QED BY <2>1, <3>1, <3>2, <3>3, <3>4, TakeEffect DEF QueueInv
  <2>2. CASE Finish
    BY <1>1, <2>2 DEF Finish, outVars
  <2>3. CASE Leave
    BY <2>3 DEF Leave, QueueInv, Queued, outVars
  <2>. QED BY <1>2, <1>8, <2>1, <2>2, <2>3 DEF Application, Cancel
<1>. QED BY <1>3, <1>4, <1>5, <1>6, <1>7, <1>8 DEF Next

----------------------------------------------------------------------------
\* Whatever is read was shown

\* Every step keeps read messages among the shown ones.
LEMMA ShownInductive ==
  ASSUME TypeOK, LockInv, DrainInv, ShownInv, [Next]_vars
  PROVE  ShownInv'
<1>1. CASE /\ UNCHANGED <<late, given, cur, stage, todo, phase>>
           /\ read' \subseteq read \cup shown /\ shown \subseteq shown'
  <2>1. Dispatching' = Dispatching
    BY <1>1 DEF Dispatching
  <2>. QED BY <1>1, <2>1 DEF ShownInv
<1>2. CASE EndCall
  <2>1. Dispatching' = {}
    BY <1>2 DEF EndCall, Dispatching
  <2>. QED BY <1>2, <2>1 DEF EndCall, AckedAtEnd, ShownInv
<1>3. CASE UNCHANGED vars
  BY <1>1, <1>3 DEF vars, hubVars, taskVars, appVars
<1>4. CASE Hub
  <2>1. CASE LateAck
    <3>1. Dispatching' = Dispatching
      BY <2>1 DEF LateAck, Dispatching, taskVars
    <3>. QED BY <2>1, <3>1 DEF LateAck, ShownInv, appVars
  <2>. QED BY <1>1, <1>4, <2>1
           DEF Hub, Arrive, Push, HubFails, hubVars, taskVars, appVars
<1>5. CASE Enter
  <2>1. CASE OpenCall
    <3>1. Dispatching' = Dispatching
      BY <2>1 DEF OpenCall, Dispatching, taskVars
    <3>. QED BY <2>1, <3>1 DEF OpenCall, ShownInv, hubVars
  <2>2. CASE Subscribe
    <3>1. \A t \in Task : stage'[t] = "ack" <=> stage[t] = "ack"
      BY <2>2 DEF Subscribe, LockInv, TypeOK
    <3>2. Dispatching' = Dispatching
      BY <2>2, <3>1 DEF Subscribe, Dispatching
    <3>. QED BY <2>2, <3>2 DEF Subscribe, ShownInv, hubVars, appVars
  <2>. QED BY <1>2, <1>5, <2>1, <2>2 DEF Enter, Connect, Reenter, SubscribeFails
<1>6. ASSUME NEW t \in Task, TaskStep(t) PROVE ShownInv'
  <2>1. CASE /\ UNCHANGED <<read, late, given, cur, shown, todo>>
             /\ phase = "running" => phase' = "running"
             /\ \A u \in Task : stage'[u] = "ack" <=> stage[u] = "ack"
    <3>1. Dispatching' = Dispatching
      BY <2>1 DEF Dispatching
    <3>. QED BY <2>1, <3>1 DEF ShownInv
  <2>2. CASE Wake(t) \/ Acquire(t) \/ Enqueue(t) \/ EndDrain(t)
    BY <2>1, <2>2 DEF Wake, Acquire, Enqueue, EndDrain, hubVars, appVars, TypeOK
  <2>3. CASE Fetch(t)
    <3>1. \A u \in Task \ {t} : stage[u] \notin Busy
      BY <2>3, OnlyTask DEF Fetch, Busy
    <3>2. Dispatching' = {}
      BY <2>3, <3>1 DEF Fetch, Dispatching, TypeOK, Busy
    <3>. QED BY <2>3, <3>2 DEF Fetch, ShownInv, hubVars, appVars
  <2>4. CASE Run(t)
    <3>1. \A u \in Task \ {t} : stage[u] \notin Busy
      BY <2>4, OnlyTask DEF Run, Busy
    <3>2. Dispatching' \subseteq {Least(todo[t])}
      BY <2>4, <3>1 DEF Run, Dispatching, TypeOK, Busy
    <3>. QED BY <2>4, <3>2 DEF Run, ShownInv, hubVars
  <2>5. CASE Ack(t)
    <3>1. Dispatching = {Least(todo[t])} /\ \A u \in Task \ {t} : stage[u] \notin Busy
      BY <2>5, OnlyTask DEF Ack, Busy
    <3>2. Dispatching' = {}
      BY <2>5, <3>1 DEF Ack, Dispatching, TypeOK, Busy
    <3>3. UNCHANGED <<cur, given, shown, phase>>
      BY <2>5 DEF Ack
    <3>4. read' \cup late' \subseteq read \cup late \cup {Least(todo[t])}
      BY <2>5 DEF Ack
    <3>. QED BY <3>1, <3>2, <3>3, <3>4 DEF ShownInv
  <2>. QED BY <1>2, <1>6, <2>2, <2>3, <2>4, <2>5
           DEF TaskStep, FetchFails, Crash, EnqueueBroken
<1>7. CASE PushLoopBroken \/ HeartbeatFails
  BY <1>2, <1>7 DEF PushLoopBroken, HeartbeatFails
<1>8. CASE Application
  <2>1. CASE Take \/ Finish \/ Leave
    <3>1. Dispatching' = Dispatching
      BY <2>1 DEF Take, Finish, Leave, Dispatching, taskVars
    <3>2. CASE Take
      BY <3>1, <3>2 DEF Take, ShownInv, hubVars
    <3>3. CASE Finish \/ Leave
      BY <3>1, <3>3 DEF Finish, Leave, ShownInv
    <3>. QED BY <2>1, <3>2, <3>3
  <2>. QED BY <1>2, <1>8, <2>1 DEF Application, Cancel
<1>. QED BY <1>3, <1>4, <1>5, <1>6, <1>7, <1>8 DEF Next

----------------------------------------------------------------------------
\* The order of the queue

\* Nothing in this call's id set or in a snapshot has yet to arrive.
LEMMA ArrivedOnly ==
  ASSUME TypeOK, DrainInv, QueueInv, phase \in {"startup", "running"}
  PROVE  /\ inFlight \subseteq 1 .. sent
         /\ \A t \in Task : kept[t] \subseteq 1 .. sent
<1>1. Queued \subseteq 1 .. sent
  <2>1. \A i \in 1 .. Len(out) : out[i] \in Msg /\ out[i] <= sent
    BY ElementOfSeq DEF TypeOK, QueueInv
  <2>2. \A i \in 1 .. Len(out) : out[i] \in 1 .. sent
    BY <2>1, InboxAssumption DEF Msg, TypeOK
  <2>. QED BY <2>2 DEF Queued
<1>. QED BY <1>1 DEF QueueInv, DrainInv

\* Every step keeps what may still be enqueued behind what was.
LEMMA OrderInductive ==
  ASSUME TypeOK, LockInv, DrainInv, QueueInv, OrderInv, [Next]_vars
  PROVE  OrderInv'
<1>1. CASE /\ UNCHANGED <<phase, sent, kept, out, inFlight>> /\ read \subseteq read'
           /\ \A t \in Task : stage[t] = "enqueue" => stage'[t] = "enqueue"
  <2>1. Waiting' \subseteq Waiting
    BY <1>1 DEF Waiting, Unread
  <2>. QED BY <1>1, <2>1 DEF OrderInv
<1>2. CASE EndCall
  BY <1>2 DEF EndCall, OrderInv
<1>3. CASE UNCHANGED vars
  BY <1>1, <1>3 DEF vars, hubVars, taskVars, outVars
<1>4. CASE Hub
  <2>1. CASE Arrive
    <3>1. sent \in Nat /\ sent' = sent + 1
      BY <2>1 DEF Arrive, TypeOK
    <3>2. UNCHANGED <<phase, kept, out, inFlight, stage, read>>
      BY <2>1 DEF Arrive, taskVars, outVars
    <3>3. Waiting' \subseteq Waiting \cup {sent'}
      BY <3>1, <3>2 DEF Waiting, Unread
    <3>4. CASE phase \in {"startup", "running"}
      <4>1. \A k \in inFlight : k < sent'
        BY <3>1, <3>4, ArrivedOnly
      <4>2. \A t \in Task : \A k \in kept[t] : k < sent'
        BY <3>1, <3>4, ArrivedOnly
      <4>. QED BY <3>2, <3>3, <4>1, <4>2 DEF OrderInv
    <3>. QED BY <3>2, <3>4 DEF OrderInv
  <2>2. CASE LateAck \/ Push \/ HubFails
    BY <1>1, <2>2 DEF LateAck, Push, HubFails, hubVars, taskVars, outVars
  <2>. QED BY <1>4, <2>1, <2>2 DEF Hub
<1>5. CASE Enter
  <2>1. CASE OpenCall
    BY <2>1 DEF OpenCall, OrderInv
  <2>2. CASE Subscribe
    <3>1. \A t \in Task : kept[t] = {}
      <4>1. \A t \in Task : stage[t] = "idle"
        BY <2>2 DEF Subscribe, LockInv, Task
      <4>. QED BY <4>1 DEF DrainInv
    <3>2. inFlight' = {} /\ kept' = kept
      BY <2>2 DEF Subscribe, QueueInv, outVars
    <3>. QED BY <3>1, <3>2 DEF OrderInv
  <2>. QED BY <1>2, <1>5, <2>1, <2>2 DEF Enter, Connect, Reenter, SubscribeFails
<1>6. ASSUME NEW t \in Task, TaskStep(t) PROVE OrderInv'
  <2>1. CASE Wake(t) \/ Acquire(t) \/ Run(t) \/ Ack(t)
    BY <1>1, <2>1 DEF Wake, Acquire, Run, Ack, TypeOK, hubVars, outVars
  <2>2. CASE Fetch(t)
    <3>1. \A u \in Task : kept[u] = {}
      BY <2>2, OnlyTask DEF Fetch, DrainInv, Busy
    <3>2. UNCHANGED <<phase, sent, read, inFlight>>
          /\ kept' = [kept EXCEPT ![t] = {m \in Unread : Disp(m) = "yield"}]
      BY <2>2 DEF Fetch, hubVars, outVars
    <3>3. kept'[t] = {m \in Unread : Disp(m) = "yield"}
          /\ \A u \in Task \ {t} : kept'[u] = {}
      BY <3>1, <3>2 DEF TypeOK
    <3>4. Waiting' = Waiting /\ Waiting' \subseteq kept'[t]
      BY <3>1, <3>2, <3>3 DEF Waiting, Unread
    <3>. QED BY <3>2, <3>3, <3>4 DEF OrderInv
  <2>3. CASE Enqueue(t)
    <3>. DEFINE m == Least(kept[t])
    <3>1. UNCHANGED <<phase, sent, read, stage>> /\ stage[t] = "enqueue"
          /\ kept' = [kept EXCEPT ![t] = kept[t] \ {m}]
      BY <2>3 DEF Enqueue, hubVars
    <3>2. \A u \in Task \ {t} : kept[u] = {}
      BY <3>1, OnlyTask DEF Busy
    <3>3. m \in kept[t] /\ m \in 1 .. sent /\ \A k \in kept[t] : m <= k
      BY <2>3, EnqueueEffect
    <3>4. \/ /\ UNCHANGED <<out, inFlight>>
             /\ m \in inFlight \/ Len(out) >= OutCap
          \/ /\ Len(out) < OutCap
             /\ inFlight' = inFlight \cup {m}
             /\ \A k \in inFlight : k < m
      BY <2>3, EnqueueEffect
    <3>5. kept'[t] = kept[t] \ {m} /\ \A u \in Task \ {t} : kept'[u] = {}
      BY <3>1, <3>2 DEF TypeOK
    <3>6. \A k \in kept[t] : k \in Nat
      BY InboxAssumption DEF TypeOK, Msg
    <3>. HIDE DEF m
    <3>7. SUFFICES ASSUME phase \in {"startup", "running"} PROVE OrderInv'
      BY <3>1 DEF OrderInv
    <3>8. \A w \in Waiting : \A k \in inFlight : k < w
      BY <3>7 DEF OrderInv
    <3>9. \A w \in Waiting \ kept[t] : Len(out) >= OutCap \/ \A k \in kept[t] : k < w
      BY <3>7 DEF OrderInv
    <3>10. CASE UNCHANGED <<out, inFlight>> /\ (m \in inFlight \/ Len(out) >= OutCap)
      <4>1. Waiting' \subseteq Waiting
        BY <3>1, <3>5, <3>2, <3>10 DEF Waiting, Unread
      <4>2. \A w \in Waiting' \ kept'[t] :
              Len(out') >= OutCap \/ \A k \in kept'[t] : k < w
        BY <3>5, <3>9, <3>10, <4>1 DEF Waiting
      <4>. QED BY <3>1, <3>5, <3>8, <3>10, <4>1, <4>2 DEF OrderInv
    <3>11. CASE /\ Len(out) < OutCap
                /\ inFlight' = inFlight \cup {m}
                /\ \A k \in inFlight : k < m
      <4>1. Waiting' \subseteq Waiting \ {m}
        BY <3>1, <3>2, <3>5, <3>11 DEF Waiting, Unread
      <4>2. ~(Len(out) >= OutCap)
        BY <3>11, LenProperties, InboxAssumption DEF TypeOK
      <4>3. \A w \in Waiting \ kept[t] : \A k \in kept[t] : k < w
        BY <3>9, <4>2
      <4>4. \A w \in Waiting \ {m} : m < w
        BY <3>3, <3>6, <4>3
      <4>5. \A w \in Waiting' : \A k \in inFlight' : k < w
        BY <3>8, <3>11, <4>1, <4>4
      <4>6. \A w \in Waiting' \ kept'[t] : \A k \in kept'[t] : k < w
        BY <3>5, <4>1, <4>3
      <4>. QED BY <3>1, <3>5, <4>5, <4>6 DEF OrderInv
    <3>. QED BY <3>4, <3>10, <3>11
  <2>4. CASE EndDrain(t)
    <3>1. \A u \in Task : kept[u] = {}
      BY <2>4, OnlyTask DEF EndDrain, Busy
    <3>2. UNCHANGED <<sent, read, kept, inFlight>>
      BY <2>4 DEF EndDrain, hubVars, outVars
    <3>3. phase' \in {"startup", "running"} => phase \in {"startup", "running"}
      BY <2>4 DEF EndDrain, LockInv
    <3>4. Waiting' = Waiting
      BY <3>2 DEF Waiting, Unread
    <3>. QED BY <3>1, <3>2, <3>3, <3>4 DEF OrderInv
  <2>. QED BY <1>2, <1>6, <2>1, <2>2, <2>3, <2>4
           DEF TaskStep, FetchFails, Crash, EnqueueBroken
<1>7. CASE PushLoopBroken \/ HeartbeatFails
  BY <1>2, <1>7 DEF PushLoopBroken, HeartbeatFails
<1>8. CASE Application
  <2>1. CASE Take
    <3>1. UNCHANGED <<phase, sent, read, stage, kept, inFlight>>
          /\ \A t \in Task : stage[t] # "enqueue"
      BY <2>1 DEF Take, Quiet, hubVars, taskVars
    <3>2. Waiting' = Waiting
      BY <3>1 DEF Waiting, Unread
    <3>. QED BY <3>1, <3>2 DEF OrderInv
  <2>2. CASE Finish
    BY <1>1, <2>2 DEF Finish, taskVars, outVars
  <2>3. CASE Leave
    BY <2>3 DEF Leave, OrderInv
  <2>. QED BY <1>2, <1>8, <2>1, <2>2, <2>3 DEF Application, Cancel
<1>. QED BY <1>3, <1>4, <1>5, <1>6, <1>7, <1>8 DEF Next

----------------------------------------------------------------------------
\* The theorems

\* The invariant is inductive, so it holds in every reachable state.
THEOREM Invariance == Spec => []InductiveInv
<1>1. Init => InductiveInv
  <2>. SUFFICES ASSUME Init PROVE InductiveInv
    OBVIOUS
  <2>1. TypeOK
    BY InboxAssumption, EmptySeq DEF Init, TypeOK, Phase, Stage, Task, Loop
  <2>2. LockInv /\ DrainInv /\ OrderInv
    BY DEF Init, LockInv, DrainInv, OrderInv, Task, Loop, Busy
  <2>3. OwedInv /\ ShownInv
    BY DEF Init, OwedInv, ShownInv, Dispatching
  <2>4. QueueInv
    BY DEF Init, QueueInv
  <2>. QED BY <2>1, <2>2, <2>3, <2>4 DEF InductiveInv
<1>2. InductiveInv /\ [Next]_vars => InductiveInv'
  BY TypeInductive, LockInductive, DrainInductive, OwedInductive, QueueInductive,
     ShownInductive, OrderInductive DEF InductiveInv
<1>. QED BY <1>1, <1>2, PTL DEF Spec

\* Every variable keeps its type; in particular no ack is ever accounted for
\* without a dispatch.
THEOREM TypeCorrect == Spec => []TypeOK
BY Invariance, PTL DEF InductiveInv

\* Push, poll and startup drains never overlap.
THEOREM DrainsExclude == Spec => []OneDrainAtATime
<1>1. InductiveInv => OneDrainAtATime
  BY LockExcludes DEF InductiveInv, OneDrainAtATime, Draining, Busy
<1>. QED BY <1>1, Invariance, PTL

\* A command runs again only if the ack of its last run failed or was cut off.
THEOREM CommandsRunOnce == Spec => []DispatchedOnce
<1>1. InductiveInv => DispatchedOnce
  BY DEF InductiveInv, OwedInv, DispatchedOnce
<1>. QED BY <1>1, Invariance, PTL

\* The hub never marks as read what nobody was shown.
THEOREM NothingReadUnseen == Spec => []ReadWasShown
<1>1. InductiveInv => ReadWasShown
  BY DEF InductiveInv, ShownInv, ReadWasShown
<1>. QED BY <1>1, Invariance, PTL

\* The id set is neither too large (a message hidden from the call) nor too
\* small (a message handed out twice).
THEOREM IdSetExact == Spec => []InFlightIsExact
<1>1. InductiveInv => InFlightIsExact
  BY DEF InductiveInv, QueueInv, InFlightIsExact
<1>. QED BY <1>1, Invariance, PTL

\* One inbox() call hands out messages in the hub's order, and none twice.
THEOREM InOrder == Spec => YieldsInOrder
<1>1. InductiveInv /\ [Next]_vars => [cur' \notin {0, cur} => \A k \in given : k < cur']_vars
  <2>. SUFFICES ASSUME InductiveInv, [Next]_vars, cur' \notin {0, cur}
                PROVE  \A k \in given : k < cur'
    OBVIOUS
  <2>1. Take
    BY DEF Next, Hub, Enter, TaskStep, Application, Arrive, LateAck, Push, HubFails,
           Connect, Reenter, OpenCall, Subscribe, SubscribeFails, EndCall, Wake,
           Acquire, Fetch, FetchFails, Run, Crash, Ack, Enqueue, EnqueueBroken,
           EndDrain, PushLoopBroken, HeartbeatFails, Finish, Leave, Cancel,
           appVars, vars
  <2>. QED BY <2>1, TakeEffect DEF InductiveInv
<1>. QED BY <1>1, Invariance, PTL DEF Spec, YieldsInOrder

----------------------------------------------------------------------------
\* Refinement

\* The end of a call excuses the one command that was being dispatched.
LEMMA EndCallRefines ==
  ASSUME InductiveInv, EndCall
  PROVE  [Contract!Next]_Contract!vars
<1>1. UNCHANGED <<sent, read, given, shown>> /\ cur' = 0
  BY DEF EndCall
<1>2. owed' = [m \in Msg |-> IF m \in Dispatching THEN owed[m] - 1 ELSE owed[m]]
  BY DEF EndCall
<1>3. owed \in [Msg -> Nat]
  BY DEF InductiveInv, TypeOK
<1>4. CASE Dispatching = {}
  <2>1. owed' = owed
    BY <1>2, <1>3, <1>4
  <2>. QED BY <1>1, <2>1 DEF Contract!Finish, Contract!MayFinish, Contract!Next
<1>5. CASE Dispatching # {}
  <2>1. PICK m \in Dispatching : TRUE
    BY <1>5
  <2>2. Dispatching = {m}
    BY <2>1, OneDispatch DEF InductiveInv
  <2>3. m \in Msg /\ owed[m] = 1
    BY <2>1, DispatchingTyped DEF InductiveInv, OwedInv
  <2>4. owed' = [owed EXCEPT ![m] = 0]
    <3>1. [owed EXCEPT ![m] = 0] = [k \in Msg |-> IF k = m THEN 0 ELSE owed[k]]
      BY <1>3
    <3>2. \A k \in Msg : (IF k \in Dispatching THEN owed[k] - 1 ELSE owed[k])
                       = (IF k = m THEN 0 ELSE owed[k])
      BY <2>2, <2>3
    <3>. QED BY <1>2, <3>1, <3>2
  <2>5. Contract!Excuse(m)
    BY <1>1, <2>3, <2>4 DEF Contract!Excuse, Contract!MayFinish
  <2>. QED BY <2>3, <2>5 DEF Contract!Next, Contract!Msg, Msg
<1>. QED BY <1>4, <1>5

\* Every step of PyInbox is one of the contract's steps or invisible to it.
LEMMA StepRefines ==
  ASSUME InductiveInv, [Next]_vars
  PROVE  [Contract!Next]_Contract!vars
<1>1. ASSUME UNCHANGED <<sent, read, given, shown, owed>>, cur' \in {cur, 0}
      PROVE  [Contract!Next]_Contract!vars
  BY <1>1 DEF Contract!Finish, Contract!MayFinish, Contract!Next
<1>2. ASSUME NEW m \in shown, read' = read \cup {m}, cur' \in {cur, 0},
             UNCHANGED <<sent, given, shown, owed>>
      PROVE  [Contract!Next]_Contract!vars
  <2>1. Contract!MarkRead(m)
    BY <1>2 DEF Contract!MarkRead, Contract!MayFinish
  <2>2. m \in Msg
    BY DEF InductiveInv, TypeOK
  <2>. QED BY <2>1, <2>2 DEF Contract!Next, Contract!Msg, Msg
<1>3. CASE UNCHANGED vars
  BY <1>1, <1>3 DEF vars, hubVars, appVars
<1>4. CASE Hub
  <2>1. CASE Arrive
    BY <2>1 DEF Arrive, appVars, Contract!Arrive, Contract!Next
  <2>2. CASE LateAck
    BY <1>2, <2>2 DEF LateAck, appVars, InductiveInv, ShownInv
  <2>. QED BY <1>1, <1>4, <2>1, <2>2 DEF Hub, Push, HubFails, hubVars, appVars
<1>5. CASE Enter
  <2>1. CASE OpenCall
    BY <2>1 DEF OpenCall, hubVars, Contract!NewCall, Contract!Next
  <2>2. CASE Subscribe
    BY <1>1, <2>2 DEF Subscribe, hubVars, appVars
  <2>. QED BY <1>5, <2>1, <2>2, EndCallRefines DEF Enter, Connect, Reenter, SubscribeFails
<1>6. ASSUME NEW t \in Task, TaskStep(t) PROVE [Contract!Next]_Contract!vars
  <2>1. CASE Wake(t) \/ Acquire(t) \/ Fetch(t) \/ Enqueue(t) \/ EndDrain(t)
    BY <1>1, <2>1 DEF Wake, Acquire, Fetch, Enqueue, EndDrain, hubVars, appVars
  <2>2. CASE Run(t)
    <3>. DEFINE m == Least(todo[t])
    <3>1. m \in todo[t] /\ m \in Msg /\ m \in 1 .. sent
      BY <2>2, LeastOfTodo DEF Run, InductiveInv, DrainInv
    <3>2. Dispatching = {}
      BY <2>2, OnlyTask DEF Run, Busy, InductiveInv
    <3>3. owed[m] = 0
      BY <3>1, <3>2 DEF InductiveInv, OwedInv
    <3>4. owed' = [owed EXCEPT ![m] = 1]
      BY <2>2, <3>3 DEF Run
    <3>5. Contract!Execute(m)
      BY <2>2, <3>1, <3>3, <3>4 DEF Run, hubVars, Contract!Execute
    <3>. QED BY <3>1, <3>5 DEF Contract!Next, Contract!Msg, Msg
  <2>3. CASE Ack(t)
    <3>. DEFINE m == Least(todo[t])
    <3>1. m \in Msg /\ m \in shown /\ owed[m] = 1
      BY <2>3, LeastOfTodo
         DEF Ack, InductiveInv, OwedInv, ShownInv, Dispatching
    <3>2. UNCHANGED <<sent, given, shown, cur>>
      BY <2>3 DEF Ack
    <3>3. \/ read' = read \cup {m} /\ UNCHANGED owed
          \/ UNCHANGED read /\ owed' = [owed EXCEPT ![m] = 0]
      BY <2>3, <3>1 DEF Ack
    <3>. HIDE DEF m
    <3>4. CASE UNCHANGED read /\ owed' = [owed EXCEPT ![m] = 0]
      <4>1. Contract!Excuse(m)
        BY <3>1, <3>2, <3>4 DEF Contract!Excuse, Contract!MayFinish
      <4>. QED BY <3>1, <4>1 DEF Contract!Next, Contract!Msg, Msg
    <3>. QED BY <1>2, <3>1, <3>2, <3>3, <3>4
  <2>. QED BY <1>6, <2>1, <2>2, <2>3, EndCallRefines
           DEF TaskStep, FetchFails, Crash, EnqueueBroken
<1>7. CASE PushLoopBroken \/ HeartbeatFails
  BY <1>7, EndCallRefines DEF PushLoopBroken, HeartbeatFails
<1>8. CASE Application
  <2>1. CASE Take
    <3>. DEFINE m == Head(out)
    <3>1. cur' = m
      BY <2>1 DEF Take
    <3>2. m \in 1 .. sent /\ \A k \in given : k < m
      BY <2>1, <3>1, TakeEffect DEF InductiveInv
    <3>3. Contract!Yield(m)
      BY <2>1, <3>2 DEF Take, hubVars, Contract!Yield
    <3>4. m \in Msg
      BY <3>2, InboxAssumption DEF InductiveInv, TypeOK, Msg
    <3>. QED BY <3>3, <3>4 DEF Contract!Next, Contract!Msg, Msg
  <2>2. CASE Finish
    <3>1. cur \in shown
      BY <2>2 DEF Finish, InductiveInv, ShownInv
    <3>2. UNCHANGED <<sent, given, shown, owed>> /\ cur' = 0
          /\ (read' = read \cup {cur} \/ UNCHANGED read)
      BY <2>2 DEF Finish
    <3>. QED BY <1>1, <1>2, <3>1, <3>2
  <2>3. CASE Leave
    <3>1. cur # 0 => cur \in shown
      BY DEF InductiveInv, ShownInv
    <3>2. UNCHANGED <<sent, given, shown, owed>> /\ cur' = 0
          /\ ((cur # 0 /\ read' = read \cup {cur}) \/ UNCHANGED read)
      BY <2>3 DEF Leave
    <3>. QED BY <1>1, <1>2, <3>1, <3>2
  <2>. QED BY <1>8, <2>1, <2>2, <2>3, EndCallRefines DEF Application, Cancel
<1>. QED BY <1>3, <1>4, <1>5, <1>6, <1>7, <1>8 DEF Next

\* The inbox implements its contract.
THEOREM Refinement == Spec => ImplementsContract
<1>1. Init => Contract!Init
  BY DEF Init, Contract!Init, Contract!Msg, Msg
<1>. QED BY <1>1, Invariance, StepRefines, PTL DEF Spec, ImplementsContract, Contract!Spec

============================================================================
