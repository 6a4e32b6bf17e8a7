----------------------------- MODULE JsInboxInv -----------------------------
(***************************************************************************)
(* The inductive invariant of JsInbox, in named parts: TLC checks it on a  *)
(* small instance, JsInboxProofs proves it for all.                        *)
(***************************************************************************)
EXTENDS JsInbox

\* The startup drain runs before the producers are started, and they have
\* returned before a call is over; only a drain executes commands.
StageInv ==
  /\ stage["startup"] # "idle" => phase = "startup"
  /\ stage["startup"] # "ended"
  /\ \A t \in Producer : stage[t] # "idle" => phase \in {"running", "closing"}
  /\ stage["beat"] \in {"idle", "fetch", "ended"}

\* What a drain carries is from one snapshot, commands apart from messages.
DrainInv ==
  \A t \in Task :
    /\ stage[t] \notin {"run", "ack"} => todo[t] = {} /\ kept[t] = {}
    /\ stage[t] = "ack" => todo[t] # {} /\ Least(todo[t]) \in shown
    /\ \A m \in todo[t] : m \in 1 .. sent /\ Disp(m) = "handled"
    /\ \A m \in kept[t] : m \in 1 .. sent /\ Disp(m) = "yield"

\* A task has dispatched m and not seen an answer to its ack.
Under(t, m) == IF stage[t] = "ack" /\ Least(todo[t]) = m THEN 1 ELSE 0

InHand(m) == Under("startup", m) + Under("push", m) + Under("poll", m)

\* Of the dispatches of a command, those are owed that are in hand, and one
\* whose ack came to something.
OwedInv ==
  \A m \in Msg :
    /\ InHand(m) <= owed[m]
    /\ m \notin read => owed[m] = InHand(m)

\* The buffer, the id set and the application's message belong together.
QueueInv ==
  /\ phase \in {"none", "subscribing"} => out = <<>> /\ inFlight = {}
  /\ phase = "subscribing" => given = {}
  /\ cur # 0 => phase = "running" /\ cur \in given /\ cur \in shown
  /\ phase \in {"startup", "running"} =>
       /\ InFlightIsExact
       /\ \A m \in inFlight : m <= sent
       /\ \A i \in Buffered :
            /\ \A k \in given : k < out[i]
            /\ \A j \in Buffered : j < i => out[j] < out[i]

\* The messages the application has still to be given, in this call.
Waiting == {m \in Unread : Disp(m) = "yield"} \ inFlight

\* Whatever waits is newer than all that this call has seen, and what a drain
\* holds of it is older than the rest; a snapshot too old to be of use names
\* only messages this call has seen.
OrderInv ==
  phase \in {"startup", "running"} =>
    /\ \A m \in Waiting : \A k \in inFlight : k < m
    /\ \A t \in Task : \A m \in Waiting \ kept[t] : \A k \in kept[t] : k < m
    /\ \A t \in Task : \A m \in kept[t] : m \in read => m \in inFlight

InductiveInv ==
  TypeOK /\ StageInv /\ DrainInv /\ OwedInv /\ QueueInv /\ OrderInv

=============================================================================
