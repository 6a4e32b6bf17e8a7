------------------------------ MODULE JsInbox ------------------------------
(***************************************************************************)
(* HubSession.inbox() of the JavaScript SDK (session.ts) with the hub      *)
(* behind it and the application in front of it.                           *)
(*                                                                         *)
(* It differs from PyInbox where the code does: the drains take no lock,   *)
(* calls have no time-out of the SDK's, nothing is ever cancelled, an error *)
(* is an item of the output queue, and leaving waits for the producers.    *)
(* A synchronous stretch of code is one step.                              *)
(***************************************************************************)
EXTENDS Naturals, Sequences, CommandRouter, MessageOrder, SequencesExt

CONSTANTS
  MaxMsg,        \* bound: messages that arrive at the hub
  BodyOf,        \* what each message says
  Mode,          \* the options of inbox(): which drain runs, how it routes
  OutCap,        \* INBOX_OUTPUT_CAPACITY
  PushCap,       \* INBOX_QUEUE_CAPACITY
  MaxFaults,     \* bound: disturbances by the environment
  Disturbances   \* the kinds of disturbance that may occur

Msg == 1 .. MaxMsg

ASSUME InboxAssumption ==
  /\ MaxMsg \in Nat
  /\ \A m \in Msg : BodyOf[m] \in Row
  /\ Mode \in InboxMode
  /\ OutCap \in Nat \ {0}
  /\ PushCap \in Nat \ {0}
  /\ MaxFaults \in Nat
  /\ Disturbances \subseteq {"call", "dies", "hangs", "leaves", "reenters", "disposes"}

VARIABLES
  sent,        \* hub: messages 1 .. sent have arrived
  read,        \* hub: messages marked as read
  health,      \* the session: "up", "dead" (calls reject), "hung" (no answer),
               \* "closed" by its owner (calls reject, _closed is set)
  hints,       \* _pushQueue
  phase,       \* of the inbox() generator
  stage,       \* [task]: where each producer is
  todo,        \* [task]: fetched commands still to be executed
  kept,        \* [task]: fetched messages still to be enqueued
  out,         \* outBuf: messages, and Error
  inFlight,    \* inFlightIds
  cur,         \* the message the application works on, 0 if it awaits one
  given,       \* messages this inbox() call has handed to the application
  shown,       \* messages ever handed to the application or executed
  owed,        \* [m]: dispatches of m minus acknowledgements that came to nothing
  faults       \* disturbances so far

hubVars  == <<sent, read>>
sessVars == <<health, hints>>
taskVars == <<stage, todo, kept>>
outVars  == <<out, inFlight>>
appVars  == <<cur, given, shown, owed>>
vars     == <<hubVars, sessVars, phase, taskVars, outVars, appVars, faults>>

Drain == {"startup", "push", "poll"}
Producer == {"push", "poll", "beat"}
Task == Drain \cup Producer

\* "fetch": get_messages (or the heartbeat's list_tools) is on its way.
\* "run": the answer is there, the next command or the enqueuing is due.
\* "ack": in a command's handler, reply or ack.  "ended": returned for good.
Stage == {"idle", "fetch", "run", "ack", "ended"}

\* "closing": the consumer loop has been left, `await allDone` is pending.
Phase == {"none", "subscribing", "startup", "running", "closing"}

Error == 0

TypeOK ==
  /\ sent \in 0 .. MaxMsg
  /\ read \subseteq Msg
  /\ health \in {"up", "dead", "hung", "closed"}
  /\ hints \in 0 .. PushCap
  /\ phase \in Phase
  /\ stage \in [Task -> Stage]
  /\ todo \in [Task -> SUBSET Msg]
  /\ kept \in [Task -> SUBSET Msg]
  /\ out \in Seq(Msg \cup {Error})
  /\ inFlight \subseteq Msg
  /\ cur \in Msg \cup {0}
  /\ given \subseteq Msg
  /\ shown \subseteq Msg
  /\ owed \in [Msg -> Nat]
  /\ faults \in 0 .. MaxFaults

Init ==
  /\ sent = 0 /\ read = {}
  /\ health = "up" /\ hints = 0
  /\ phase = "none"
  /\ stage = [t \in Task |-> "idle"]
  /\ todo = [t \in Task |-> {}]
  /\ kept = [t \in Task |-> {}]
  /\ out = <<>> /\ inFlight = {}
  /\ cur = 0 /\ given = {} /\ shown = {}
  /\ owed = [m \in Msg |-> 0]
  /\ faults = 0

----------------------------------------------------------------------------
\* Helpers

Disp(m) == Disposition("js", Mode, BodyOf[m])

Unread == (1 .. sent) \ read

Disturb(kind) ==
  /\ kind \in Disturbances
  /\ faults < MaxFaults
  /\ faults' = faults + 1

\* A call is rejected.  On a hung session nothing ends it.
CallFails ==
  \/ health \in {"dead", "closed"} /\ UNCHANGED faults
  \/ health = "up" /\ Disturb("call")

\* The consumer loop awaits outResolve: the next item goes to it directly.
Awaiting == phase = "running" /\ cur = 0 /\ out = <<>>

\* The items of outBuf that are messages.
Buffered == {i \in DOMAIN out : out[i] # Error}

----------------------------------------------------------------------------
\* The hub

\* Another participant's send_message is stored.
Arrive ==
  /\ sent < MaxMsg
  /\ sent' = sent + 1
  /\ UNCHANGED <<read, sessVars, phase, taskVars, outVars, appVars, faults>>

\* (slip) The push queue is not bounded.
NoPushLimit == TRUE

PushRoom == hints < PushCap

\* _enqueuePush: a push for a waiter that has not run yet, or for the queue;
\* when the queue is full it is dropped (hints = PushCap).
Push ==
  /\ health = "up"
  /\ phase # "none"
  /\ PushRoom
  /\ hints' = hints + 1
  /\ UNCHANGED <<hubVars, health, phase, taskVars, outVars, appVars, faults>>

HubFails ==
  /\ phase # "none"
  /\ health = "up"
  /\ \/ Disturb("dies") /\ health' = "dead"
     \/ Disturb("hangs") /\ health' = "hung"
  /\ UNCHANGED <<hubVars, hints, phase, taskVars, outVars, appVars>>

\* The owner disposes the session's handle under a running inbox(): what is
\* under way is rejected, also by a hub that hangs.  Before it runs, and once it
\* is dead, that is no different from a session that dies.
Dispose ==
  /\ phase \in {"running", "closing"}
  /\ health \in {"up", "hung"}
  /\ Disturb("disposes")
  /\ health' = "closed"
  /\ UNCHANGED <<hubVars, hints, phase, taskVars, outVars, appVars>>

----------------------------------------------------------------------------
\* Entering and leaving inbox()

\* A new generator: new buffer, id set, abort controller.
OpenCall ==
  /\ phase = "none"
  /\ phase' = "subscribing"
  /\ given' = {}
  /\ UNCHANGED <<hubVars, taskVars, outVars, cur, shown, owed>>

\* The caller's reconnect loop: a fresh session, and inbox() on it.
Connect ==
  /\ OpenCall
  /\ health' = "up" /\ hints' = 0
  /\ UNCHANGED faults

\* The caller calls inbox() once more on the session it has.
Reenter ==
  /\ Disturb("reenters")
  /\ OpenCall
  /\ UNCHANGED sessVars

Subscribe ==
  /\ phase = "subscribing"
  /\ health = "up"
  /\ phase' = "startup"
  /\ stage' = [stage EXCEPT !["startup"] = "fetch"]
  /\ UNCHANGED <<hubVars, sessVars, todo, kept, outVars, appVars, faults>>

\* The generator ends; buffer and id set are garbage.
EndCall ==
  /\ phase' = "none"
  /\ stage' = [t \in Task |-> "idle"]
  /\ out' = <<>> /\ inFlight' = {}
  /\ UNCHANGED <<hubVars, sessVars, todo, kept, given, shown, owed>>

\* subscribeInbox or the startup drain rejects, before any producer exists.
StartupFails ==
  /\ phase = "subscribing" \/ stage["startup"] = "fetch"
  /\ CallFails
  /\ EndCall
  /\ UNCHANGED cur

\* The consumer loop is left: a break or an exception in the application's
\* loop body, which holds a message.  A pending next() cannot be left.
Leave ==
  /\ phase = "running"
  /\ cur # 0
  /\ \/ CallFails /\ (UNCHANGED read \/ read' = read \cup {cur})
     \/ Disturb("leaves") /\ UNCHANGED read
  /\ phase' = "closing"
  /\ cur' = 0
  /\ UNCHANGED <<sent, sessVars, taskVars, outVars, given, shown, owed>>

\* A producer that is not inside a call sees the abort and returns.
Settled(t) == stage[t] \in {"idle", "ended"}

\* (slip) Leaving does not wait for the producers.
LeaveAtOnce == TRUE

\* await allDone
AllDone == \A t \in Producer : Settled(t)

Close ==
  /\ phase = "closing"
  /\ AllDone
  /\ EndCall
  /\ UNCHANGED <<cur, faults>>

----------------------------------------------------------------------------
\* The producers

\* (slip) The poll relies on pushes as well.
DueOnPush(t) == hints > 0

\* waitForPush has a push; the sleeps of the others are over.
Due(t) == t = "push" => hints > 0

\* On a closed session waitForPush returns null, whatever is queued: the push
\* loop is over without an error, and leaves it to the others to report one.
PushLoopEnds ==
  /\ phase = "running"
  /\ health = "closed"
  /\ stage["push"] = "idle"
  /\ stage' = [stage EXCEPT !["push"] = "ended"]
  /\ UNCHANGED <<hubVars, sessVars, phase, todo, kept, outVars, appVars, faults>>

\* drain() or heartbeat() is called.
Wake(t) ==
  /\ phase = "running"
  /\ t \in Producer
  /\ stage[t] = "idle"
  /\ Due(t)
  /\ hints' = IF t = "push" THEN hints - 1 ELSE hints
  /\ stage' = [stage EXCEPT ![t] = "fetch"]
  /\ UNCHANGED <<hubVars, health, phase, todo, kept, outVars, appVars, faults>>

\* The hub takes its snapshot; rows that do not parse are left out.  Until the
\* answer is used, other drains may take a newer one and use it first.
Fetch(t) ==
  /\ t \in Drain
  /\ stage[t] = "fetch"
  /\ health = "up"
  /\ LET commands == {m \in Unread : Disp(m) = "handled"} IN
       /\ todo' = [todo EXCEPT ![t] = commands]
       /\ kept' = [kept EXCEPT ![t] = {m \in Unread : Disp(m) = "yield"}]
  /\ stage' = [stage EXCEPT ![t] = "run"]
  /\ UNCHANGED <<hubVars, sessVars, phase, outVars, appVars, faults>>

\* list_tools is answered.
Beat ==
  /\ stage["beat"] = "fetch"
  /\ health = "up"
  /\ stage' = [stage EXCEPT !["beat"] = "idle"]
  /\ UNCHANGED <<hubVars, sessVars, phase, todo, kept, outVars, appVars, faults>>

\* (slip) An error is dropped when the buffer is full, like a message.
SignalErrorUnlessFull ==
  IF Awaiting
  THEN phase' = "closing" /\ UNCHANGED out
  ELSE /\ out' = IF Cardinality(Buffered) < OutCap THEN Append(out, Error) ELSE out
       /\ UNCHANGED phase

\* An error is thrown by the consumer loop, once it has come to it.
SignalError ==
  IF Awaiting
  THEN phase' = "closing" /\ UNCHANGED out
  ELSE out' = Append(out, Error) /\ UNCHANGED phase

\* getUnread or the heartbeat rejects: this producer is over, the others go on.
ProducerFails(t) ==
  /\ t \in Producer
  /\ stage[t] = "fetch"
  /\ CallFails
  /\ SignalError
  /\ stage' = [stage EXCEPT ![t] = "ended"]
  /\ UNCHANGED <<hubVars, sessVars, todo, kept, inFlight, appVars>>

\* The next command of the snapshot is dispatched, whether or not another
\* drain is dispatching it.
Run(t) ==
  /\ stage[t] = "run"
  /\ todo[t] # {}
  /\ LET m == Least(todo[t]) IN
       /\ owed' = [owed EXCEPT ![m] = @ + 1]
       /\ shown' = shown \cup {m}
  /\ stage' = [stage EXCEPT ![t] = "ack"]
  /\ UNCHANGED <<hubVars, sessVars, phase, todo, kept, outVars, cur, given, faults>>

\* An ack reaches the hub, or it does not.
Carried(m) == read' = read \cup {m} /\ UNCHANGED owed
Lost(m) == owed' = [owed EXCEPT ![m] = @ - 1] /\ UNCHANGED read

\* The command's ack is answered, or rejected and logged; the hub may have
\* carried out a rejected one.
Ack(t) ==
  /\ stage[t] = "ack"
  /\ LET m == Least(todo[t]) IN
       /\ \/ health = "up" /\ UNCHANGED faults /\ Carried(m)
          \/ CallFails /\ (Carried(m) \/ Lost(m))
       /\ todo' = [todo EXCEPT ![t] = @ \ {m}]
  /\ stage' = [stage EXCEPT ![t] = "run"]
  /\ UNCHANGED <<sent, sessVars, phase, kept, outVars, cur, given, shown>>

\* (slip) An id is forgotten once the application has its message.
NotBuffered(t) == kept[t] \ ToSet(out)

\* The messages of a snapshot this call has not seen.
Fresh(t) == kept[t] \ inFlight

\* How many of them enqueue() accepts: one goes to a waiting consumer.
Room == (OutCap - Cardinality(Buffered)) + (IF Awaiting THEN 1 ELSE 0)

\* (slip) A full buffer drops the messages that came first.
AcceptNewest(t) ==
  LET batch == InArrivalOrder(Fresh(t))
  IN  SubSeq(batch, IF Len(batch) > Room THEN Len(batch) - Room + 1 ELSE 1, Len(batch))

Accepted(t) ==
  LET batch == InArrivalOrder(Fresh(t))
  IN  SubSeq(batch, 1, IF Len(batch) < Room THEN Len(batch) ELSE Room)

\* (slip) The ids of dropped messages stay.
IdsOfAll(t) == inFlight \cup kept[t]

IdsOfAccepted(t) == inFlight \cup ToSet(Accepted(t))

\* for (const msg of await drain()) enqueue(msg, ...).  After the startup drain
\* the producers are started.
EnqueueAll(t) ==
  /\ stage[t] = "run"
  /\ todo[t] = {}
  /\ inFlight' = IdsOfAccepted(t)
  /\ IF Awaiting /\ Accepted(t) # <<>>
     THEN LET m == Head(Accepted(t)) IN
            /\ cur' = m
            /\ given' = given \cup {m} /\ shown' = shown \cup {m}
            /\ out' = Tail(Accepted(t))
     ELSE out' = out \o Accepted(t) /\ UNCHANGED <<cur, given, shown>>
  /\ stage' = [stage EXCEPT ![t] = "idle"]
  /\ kept' = [kept EXCEPT ![t] = {}]
  /\ phase' = IF t = "startup" THEN "running" ELSE phase
  /\ UNCHANGED <<hubVars, sessVars, todo, owed, faults>>

----------------------------------------------------------------------------
\* The application

\* The next step of `for await`: a message is yielded, an error thrown.
Take ==
  /\ phase = "running"
  /\ cur = 0
  /\ out # <<>>
  /\ out' = Tail(out)
  /\ IF Head(out) = Error
     THEN phase' = "closing" /\ UNCHANGED <<cur, given, shown>>
     ELSE /\ cur' = Head(out)
          /\ given' = given \cup {Head(out)} /\ shown' = shown \cup {Head(out)}
          /\ UNCHANGED phase
  /\ UNCHANGED <<hubVars, sessVars, taskVars, inFlight, owed, faults>>

\* The application acks the message and goes on, or goes on without.
Finish ==
  /\ phase = "running"
  /\ cur # 0
  /\ \/ health = "up" /\ read' = read \cup {cur}
     \/ UNCHANGED read
  /\ cur' = 0
  /\ UNCHANGED <<sent, sessVars, phase, taskVars, outVars, given, shown, owed, faults>>

----------------------------------------------------------------------------

TaskStep(t) ==
  Wake(t) \/ Fetch(t) \/ ProducerFails(t) \/ Run(t) \/ Ack(t) \/ EnqueueAll(t)

Enter == Connect \/ Reenter \/ Subscribe \/ StartupFails

Next ==
  \/ Arrive \/ Push \/ HubFails \/ Dispose
  \/ Enter
  \/ \E t \in Task : TaskStep(t)
  \/ PushLoopEnds \/ Beat
  \/ Take \/ Finish \/ Leave \/ Close

Spec == Init /\ [][Next]_vars

\* Timers fire, calls are answered or rejected unless the hub hangs, the
\* application keeps iterating and reconnects when the inbox ends; pushes are
\* promised by nobody.  The steps that begin and end a call follow one another:
\* one condition covers them.
Fairness ==
  /\ \A t \in {"push", "poll"} : WF_vars(TaskStep(t))
  /\ WF_vars(TaskStep("beat") \/ Beat)
  /\ WF_vars(Take \/ Finish)
  /\ WF_vars(Connect \/ Subscribe \/ StartupFails \/ TaskStep("startup") \/ Close)

FairSpec == Spec /\ Fairness

----------------------------------------------------------------------------
\* Properties

\* inFlightIds holds the messages in the buffer and those the application has
\* been given, and no other: no overflow hides a message from this call.
InFlightIsExact ==
  phase \in {"startup", "running"} => inFlight = {out[i] : i \in Buffered} \cup given

\* One inbox() call hands out messages in the order of the hub and none twice,
\* though its drains overlap and may use old snapshots after newer ones.
YieldsInOrder == [][cur' \notin {0, cur} => \A k \in given : k < cur']_vars

\* Leaving the generator abandons no command half-way: each one dispatched has
\* been acked when the call is over, or its ack has failed.
NoCommandAbandoned ==
  phase = "none" => \A m \in Msg : owed[m] > 0 => m \in read

Contract == INSTANCE InboxContract WITH Serial <- FALSE

\* The inbox keeps the promises of InboxContract on messages.
ImplementsContract == Contract!Spec

\* Every message that reaches the hub is handed to the application or, if it
\* is a command, answered and marked as read in the end, without any push
\* arriving - unless a hub hangs for good, for whose answer this SDK waits for
\* ever: again and again all that has arrived is served.
Served(m) == IF Disp(m) = "handled" THEN m \in read ELSE m \in shown
EveryMessageServed ==
  []<>(\/ health = "hung"
       \/ \A m \in 1 .. sent : Disp(m) # "skip" => Served(m))

\* "A dead session surfaces as a thrown error to the caller's reconnect loop",
\* even when the errors wait behind messages, and after producers have ended; so
\* does one that was disposed, though its push loop ends without a word.
FailedSessionNoticed ==
  (phase = "running" /\ health \in {"dead", "closed"}) ~> (phase # "running")

----------------------------------------------------------------------------
\* What the documentation says and the code does not do

\* commands.ts _runRestart: "The inbox loop being paused during the handler is
\* acceptable", and the iterator "must not re-see this message".  The inbox is
\* not paused: the poll drain fetches the command that the push drain is
\* executing, not yet acked, and executes it too, without any failure.
DispatchedOnce == \A m \in Msg : owed[m] <= 1

============================================================================
