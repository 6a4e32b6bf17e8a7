---------------------------- MODULE PyInboxInv -----------------------------
(***************************************************************************)
(* The inductive invariant of PyInbox.  TLC checks it on the instances of  *)
(* MCPyInbox; PyInboxProofs proves it, and from it the safety properties.  *)
(***************************************************************************)
EXTENDS PyInbox

Busy == {"fetch", "run", "ack", "enqueue"}

\* Who may drain: the startup drain before the loops exist, then the holder of
\* drain_lock.
LockInv ==
  /\ stage["startup"] # "lock"
  /\ stage["startup"] # "idle" => phase = "startup"
  /\ \A t \in Loop :
       /\ stage[t] # "idle" => phase \in {"running", "closing"}
       /\ stage[t] \in Busy => lock = t

\* What a drain carries in which stage.
DrainInv ==
  \A t \in Task :
    /\ stage[t] \in {"run", "ack"} <=> todo[t] # {}
    /\ stage[t] \notin {"run", "ack", "enqueue"} => kept[t] = {}
    /\ todo[t] \subseteq 1 .. sent
    /\ kept[t] \subseteq 1 .. sent

\* A command that is owed an ack is being dispatched or has been read; the
\* commands a drain has yet to dispatch are owed none.
OwedInv ==
  /\ \A m \in Msg : owed[m] \in {0, 1}
  /\ \A m \in Msg : owed[m] = 1 => m \in read \cup Dispatching
  /\ \A t \in Task :
       /\ \A m \in todo[t] \ Dispatching : owed[m] = 0
       /\ stage[t] = "ack" => owed[Least(todo[t])] = 1

\* The queue, the id set and what the application was given.
QueueInv ==
  /\ phase \in {"none", "subscribing"} => out = <<>> /\ inFlight = {}
  /\ phase = "subscribing" => given = {}
  /\ given \subseteq 1 .. sent
  /\ phase \in {"startup", "running"} => inFlight = Queued \cup given
  /\ \A i, j \in 1 .. Len(out) : i < j => out[i] < out[j]
  /\ \A i \in 1 .. Len(out) : out[i] <= sent /\ \A k \in given : k < out[i]

\* Whatever is or may become read was shown.
ShownInv ==
  /\ read \cup late \cup given \cup Dispatching \subseteq shown
  /\ cur # 0 => phase = "running" /\ cur \in given

\* Messages that may still be enqueued by this call and are not: they come
\* after all those that are.
Waiting ==
  ({m \in Unread : Disp(m) = "yield"} \cup UNION {kept[t] : t \in Task}) \ inFlight

OrderInv ==
  phase \in {"startup", "running"} =>
    /\ \A m \in Waiting : \A k \in inFlight : k < m
    /\ \A t \in Task : \A m \in Waiting \ kept[t] :
         \/ stage[t] = "enqueue" /\ Len(out) >= OutCap
         \/ \A k \in kept[t] : k < m

InductiveInv ==
  TypeOK /\ LockInv /\ DrainInv /\ OwedInv /\ QueueInv /\ ShownInv /\ OrderInv

============================================================================
