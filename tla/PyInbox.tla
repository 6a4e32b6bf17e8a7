------------------------------ MODULE PyInbox ------------------------------
(***************************************************************************)
(* HubSession.inbox() of the Python SDK (session.py) with the hub behind   *)
(* it and the application in front of it.                                  *)
(*                                                                         *)
(* A startup drain, a push loop and a poll loop each fetch the unread      *)
(* messages, execute the commands among them, and enqueue the rest into a  *)
(* bounded queue the application iterates.  They are coroutines of one     *)
(* event loop: a step runs up to the next await, so the loop that enqueues *)
(* (no await in it) excludes every other step of the process (Quiet).      *)
(*                                                                         *)
(* The environment disturbs a run at most MaxFaults times: a call fails,   *)
(* the hub dies or hangs, the application leaves or re-enters.             *)
(***************************************************************************)
EXTENDS Naturals, Sequences, CommandRouter, MessageOrder

CONSTANTS
  MaxMsg,        \* bound: messages that arrive at the hub
  BodyOf,        \* what each message says
  Mode,          \* the arguments of inbox(): which drain runs, how it routes
  OutCap,        \* _INBOX_OUTPUT_CAPACITY
  PushCap,       \* _INBOX_QUEUE_CAPACITY
  MaxFaults,     \* bound: disturbances by the environment
  Disturbances   \* the kinds of disturbance that may occur

Msg == 1 .. MaxMsg

ASSUME InboxAssumption ==
  /\ MaxMsg \in Nat
  /\ \A m \in Msg : BodyOf[m] \in Row
  /\ Mode \in InboxMode
  /\ OutCap \in Nat \ {0}
  /\ PushCap \in Nat \ {0}
  /\ MaxFaults \in Nat
  /\ Disturbances \subseteq {"call", "dies", "hangs", "leaves", "reenters"}

VARIABLES
  sent,        \* hub: messages 1 .. sent have arrived
  read,        \* hub: messages marked as read
  late,        \* mark_as_read requests whose answer nobody waits for any more
  health,      \* the session: "up", "dead" (calls raise), "hung" (no answer)
  hints,       \* push notifications waiting in the session's queue
  notifyOpen,  \* is the receiving end of that queue still open
  phase,       \* of the inbox() call
  lock,        \* holder of drain_lock
  stage,       \* [task]: where each draining task is
  todo,        \* [task]: fetched messages still to be executed
  kept,        \* [task]: fetched messages still to be enqueued
  out,         \* the output queue
  inFlight,    \* in_flight_ids
  cur,         \* the message the application works on, 0 if none
  given,       \* messages this inbox() call has handed to the application
  shown,       \* messages ever handed to the application or executed
  owed,        \* [m]: dispatches of m minus acknowledgements that failed
  faults       \* disturbances so far

hubVars  == <<sent, read, late>>
sessVars == <<health, hints, notifyOpen>>
taskVars == <<lock, stage, todo, kept>>
outVars  == <<out, inFlight>>
appVars  == <<cur, given, shown, owed>>
vars     == <<hubVars, sessVars, phase, taskVars, outVars, appVars, faults>>

Loop == {"push", "poll"}
Task == {"startup"} \cup Loop

\* "lock": waiting for drain_lock.  "fetch": in get_messages.  "run": about
\* to dispatch the next command.  "ack": in its handler, reply or ack.
\* "enqueue": in the synchronous loop over the drained messages.
Stage == {"idle", "lock", "fetch", "run", "ack", "enqueue"}

Phase == {"none", "subscribing", "startup", "running", "closing"}

TypeOK ==
  /\ sent \in 0 .. MaxMsg
  /\ read \subseteq Msg
  /\ late \subseteq Msg
  /\ health \in {"up", "dead", "hung"}
  /\ hints \in 0 .. PushCap
  /\ notifyOpen \in BOOLEAN
  /\ phase \in Phase
  /\ lock \in Loop \cup {"none"}
  /\ stage \in [Task -> Stage]
  /\ todo \in [Task -> SUBSET Msg]
  /\ kept \in [Task -> SUBSET Msg]
  /\ out \in Seq(Msg)
  /\ inFlight \subseteq Msg
  /\ cur \in Msg \cup {0}
  /\ given \subseteq Msg
  /\ shown \subseteq Msg
  /\ owed \in [Msg -> Nat]
  /\ faults \in 0 .. MaxFaults

Init ==
  /\ sent = 0 /\ read = {} /\ late = {}
  /\ health = "up" /\ hints = 0 /\ notifyOpen = TRUE
  /\ phase = "none"
  /\ lock = "none"
  /\ stage = [t \in Task |-> "idle"]
  /\ todo = [t \in Task |-> {}]
  /\ kept = [t \in Task |-> {}]
  /\ out = <<>> /\ inFlight = {}
  /\ cur = 0 /\ given = {} /\ shown = {}
  /\ owed = [m \in Msg |-> 0]
  /\ faults = 0

----------------------------------------------------------------------------
\* Helpers

Disp(m) == Disposition("py", Mode, BodyOf[m])

Unread == (1 .. sent) \ read

\* No task is inside a synchronous section of the event loop.
Quiet == \A t \in Task : stage[t] # "enqueue"

Disturb(kind) ==
  /\ kind \in Disturbances
  /\ faults < MaxFaults
  /\ faults' = faults + 1

\* (slip) Tool calls without the time-out of _call_tool.
CallFailsOnlyWhenDead ==
  \/ health = "dead" /\ UNCHANGED faults
  \/ health = "up" /\ Disturb("call")

\* A tool call raises: the session is dead or, after the time-out, hung; or
\* this one call is refused or not answered in time.
CallFails ==
  \/ health # "up" /\ UNCHANGED faults
  \/ health = "up" /\ Disturb("call")

\* (slip) Commands that were only about to be dispatched count as well.
DispatchingEarly ==
  {Least(todo[t]) : t \in {u \in Task : stage[u] \in {"run", "ack"}}}

\* Commands whose dispatch has begun and is not over.
Dispatching == {Least(todo[t]) : t \in {u \in Task : stage[u] = "ack"}}

\* (slip) The end of the call acks what is still in the queue.
AckedAtEndWithQueue ==
  Dispatching \cup ({cur} \ {0}) \cup {out[i] : i \in 1 .. Len(out)}

\* The ends of the call may cut off these acks, which may reach the hub.
AckedAtEnd == Dispatching \cup ({cur} \ {0})

\* The inbox() call ends: its tasks are cancelled wherever they are, its
\* queue, lock and id set are garbage.  Acks that were in flight may still
\* reach the hub.  Leaving inbox_pushes() closes the receiving end of the
\* session's notification queue for good.
EndCall ==
  /\ phase' = "none"
  /\ lock' = "none"
  /\ stage' = [t \in Task |-> "idle"]
  /\ todo' = [t \in Task |-> {}]
  /\ kept' = [t \in Task |-> {}]
  /\ out' = <<>>
  /\ inFlight' = {}
  /\ cur' = 0
  /\ late' = late \cup AckedAtEnd
  /\ owed' = [m \in Msg |-> IF m \in Dispatching THEN owed[m] - 1 ELSE owed[m]]
  /\ notifyOpen' = (notifyOpen /\ phase \notin {"running", "closing"})
  /\ UNCHANGED <<sent, read, health, hints, given, shown>>

----------------------------------------------------------------------------
\* The hub

\* Another participant's send_message is stored.
Arrive ==
  /\ sent < MaxMsg
  /\ sent' = sent + 1
  /\ UNCHANGED <<read, late, sessVars, phase, taskVars, outVars, appVars, faults>>

\* A request its caller has given up on is carried out after all.
LateAck ==
  \E m \in late :
    /\ read' = read \cup {m}
    /\ late' = late \ {m}
    /\ UNCHANGED <<sent, sessVars, phase, taskVars, outVars, appVars, faults>>

\* ResourceUpdatedNotification: the handler of open() queues it, or drops it
\* when the queue is full (hints = PushCap).  Pushes may be lost, repeated by
\* an event-store replay, or stop altogether.
Push ==
  /\ Quiet
  /\ health = "up"
  /\ notifyOpen
  /\ phase \in {"startup", "running"}
  /\ hints < PushCap
  /\ hints' = hints + 1
  /\ UNCHANGED <<hubVars, health, notifyOpen, phase, taskVars, outVars, appVars,
                 faults>>

HubFails ==
  /\ phase # "none"
  /\ health = "up"
  /\ \/ Disturb("dies") /\ health' = "dead"
     \/ Disturb("hangs") /\ health' = "hung"
  /\ UNCHANGED <<hubVars, hints, notifyOpen, phase, taskVars, outVars, appVars>>

----------------------------------------------------------------------------
\* Entering inbox()

\* A new call: new queue, lock and id set.
OpenCall ==
  /\ phase = "none"
  /\ phase' = "subscribing"
  /\ given' = {}
  /\ UNCHANGED <<hubVars, taskVars, outVars, cur, shown, owed>>

\* The caller's reconnect loop: a fresh connection, and inbox() on it.
Connect ==
  /\ OpenCall
  /\ health' = "up" /\ hints' = 0 /\ notifyOpen' = TRUE
  /\ UNCHANGED faults

\* The caller calls inbox() once more on the session it has.
Reenter ==
  /\ Disturb("reenters")
  /\ OpenCall
  /\ UNCHANGED sessVars

\* subscribe_resource answers; it is called without a time-out.
Subscribe ==
  /\ phase = "subscribing"
  /\ health = "up"
  /\ phase' = "startup"
  /\ stage' = [stage EXCEPT !["startup"] = "fetch"]
  /\ UNCHANGED <<hubVars, sessVars, lock, todo, kept, outVars, appVars, faults>>

SubscribeFails ==
  /\ phase = "subscribing"
  /\ health # "hung"
  /\ CallFails
  /\ EndCall

----------------------------------------------------------------------------
\* The draining tasks

InTasks == phase \in {"running", "closing"} /\ Quiet

\* (slip) The poll relies on pushes as well.
DueOnPush(t) == notifyOpen /\ hints > 0

\* push_loop has a notification to receive; poll_loop's sleep is over.
Due(t) == t = "push" => notifyOpen /\ hints > 0

Wake(t) ==
  /\ InTasks
  /\ t \in Loop
  /\ stage[t] = "idle"
  /\ Due(t)
  /\ hints' = IF t = "push" THEN hints - 1 ELSE hints
  /\ stage' = [stage EXCEPT ![t] = "lock"]
  /\ UNCHANGED <<hubVars, health, notifyOpen, phase, lock, todo, kept, outVars,
                 appVars, faults>>

\* On a session whose notification queue was closed by an earlier inbox()
\* call, push_loop fails at once and takes the call with it.
PushLoopBroken ==
  /\ InTasks
  /\ stage["push"] = "idle"
  /\ ~notifyOpen
  /\ EndCall
  /\ UNCHANGED faults

\* (slip) push_loop and poll_loop each with a lock of their own.
OwnLockFree == TRUE

DrainLockFree == lock = "none"

\* async with drain_lock
Acquire(t) ==
  /\ InTasks
  /\ stage[t] = "lock"
  /\ DrainLockFree
  /\ lock' = t
  /\ stage' = [stage EXCEPT ![t] = "fetch"]
  /\ UNCHANGED <<hubVars, sessVars, phase, todo, kept, outVars, appVars, faults>>

\* get_unread: a snapshot of the hub, less the rows that do not parse.
\* Messages to be yielded are put aside, the others dispatched one by one.
Fetch(t) ==
  /\ Quiet
  /\ stage[t] = "fetch"
  /\ health = "up"
  /\ LET commands == {m \in Unread : Disp(m) \in {"handled", "crash"}} IN
       /\ todo' = [todo EXCEPT ![t] = commands]
       /\ kept' = [kept EXCEPT ![t] = {m \in Unread : Disp(m) = "yield"}]
       /\ stage' = [stage EXCEPT ![t] = IF commands = {} THEN "enqueue" ELSE "run"]
  /\ UNCHANGED <<hubVars, sessVars, phase, lock, outVars, appVars, faults>>

\* get_unread raises, in a loop or before the loops start: the call ends.
FetchFails(t) ==
  /\ Quiet
  /\ stage[t] = "fetch"
  /\ CallFails
  /\ EndCall

\* The next command is dispatched.  What its handler does or raises, and
\* whether its replies arrive, changes nothing here: every exception up to
\* the ack is logged and swallowed.  A rejection that cannot be formatted has no
\* effect but that the message is kept (Escapes): it counts as one to be yielded.
Run(t) ==
  /\ Quiet
  /\ stage[t] = "run"
  /\ LET m == Least(todo[t]) IN
       /\ Disp(m) = "handled"
       /\ owed' = [owed EXCEPT ![m] = @ + 1]
       /\ shown' = shown \cup {m}
  /\ stage' = [stage EXCEPT ![t] = "ack"]
  /\ UNCHANGED <<hubVars, sessVars, phase, lock, todo, kept, outVars, cur, given,
                 faults>>

\* The legacy drain meets a body that is not a string.
Crash(t) ==
  /\ Quiet
  /\ stage[t] = "run"
  /\ Disp(Least(todo[t])) = "crash"
  /\ EndCall
  /\ UNCHANGED faults

\* The command's ack is answered, or fails and is swallowed.
Ack(t) ==
  /\ Quiet
  /\ stage[t] = "ack"
  /\ LET m == Least(todo[t])
         rest == todo[t] \ {m}
     IN
       /\ \/ /\ health = "up"
             /\ read' = read \cup {m}
             /\ UNCHANGED <<late, owed, faults>>
          \/ /\ CallFails
             /\ late' = late \cup {m}
             /\ owed' = [owed EXCEPT ![m] = @ - 1]
             /\ UNCHANGED read
       /\ todo' = [todo EXCEPT ![t] = rest]
       /\ stage' = [stage EXCEPT ![t] = IF rest = {} THEN "enqueue" ELSE "run"]
  /\ UNCHANGED <<sent, sessVars, phase, lock, kept, outVars, cur, given, shown>>

\* (slip) An id is forgotten once the application has its message.
StillQueued(m) == m \in {out[i] : i \in 1 .. Len(out)}

AlreadyInFlight(m) == m \in inFlight

\* (slip) The id of a dropped message stays.
RememberDropped(m) == inFlight \cup {m}

\* The id of a message the full queue drops is forgotten: the hub still has it.
ForgetDropped(m) == inFlight \ {m}

\* _enqueue of one message: skipped when in flight, dropped when the queue is
\* full.
Enqueue(t) ==
  /\ stage[t] = "enqueue"
  /\ kept[t] # {}
  /\ LET m == Least(kept[t]) IN
       /\ \/ AlreadyInFlight(m) /\ UNCHANGED outVars
          \/ /\ ~AlreadyInFlight(m)
             /\ phase # "closing"
             /\ IF Len(out) < OutCap
                THEN out' = Append(out, m) /\ inFlight' = inFlight \cup {m}
                ELSE inFlight' = ForgetDropped(m) /\ UNCHANGED out
       /\ kept' = [kept EXCEPT ![t] = @ \ {m}]
  /\ UNCHANGED <<hubVars, sessVars, phase, lock, stage, todo, appVars, faults>>

\* The application has left and the queue's receiving end is closed, but the
\* task is not cancelled yet: send_nowait raises BrokenResourceError, which
\* _enqueue does not catch.
EnqueueBroken(t) ==
  /\ stage[t] = "enqueue"
  /\ phase = "closing"
  /\ kept[t] # {}
  /\ ~AlreadyInFlight(Least(kept[t]))
  /\ EndCall
  /\ UNCHANGED faults

\* The drain is over: the lock is released; after the startup drain the loops
\* are started and the application gets its iterator.
EndDrain(t) ==
  /\ stage[t] = "enqueue"
  /\ kept[t] = {}
  /\ stage' = [stage EXCEPT ![t] = "idle"]
  /\ IF t = "startup"
     THEN phase' = "running" /\ UNCHANGED lock
     ELSE lock' = "none" /\ UNCHANGED phase
  /\ UNCHANGED <<hubVars, sessVars, todo, kept, outVars, appVars, faults>>

\* list_tools raises.  It has no time-out: on a hung session it never returns.
HeartbeatFails ==
  /\ phase = "running"
  /\ Quiet
  /\ health # "hung"
  /\ CallFails
  /\ EndCall

----------------------------------------------------------------------------
\* The application

\* The next step of `async for msg in messages`.
Take ==
  /\ phase = "running"
  /\ Quiet
  /\ cur = 0
  /\ out # <<>>
  /\ cur' = Head(out)
  /\ out' = Tail(out)
  /\ given' = given \cup {Head(out)}
  /\ shown' = shown \cup {Head(out)}
  /\ UNCHANGED <<hubVars, sessVars, phase, taskVars, inFlight, owed, faults>>

\* The application acks the message and goes on, or goes on without.
Finish ==
  /\ phase = "running"
  /\ Quiet
  /\ cur # 0
  /\ \/ health = "up" /\ read' = read \cup {cur}
     \/ UNCHANGED read
  /\ cur' = 0
  /\ UNCHANGED <<sent, late, sessVars, phase, taskVars, outVars, given, shown, owed,
                 faults>>

\* The application leaves the iterator: an ack raises in it, it breaks out of its
\* loop when it has acked, or at any moment.  The queue is closed first, the
\* tasks are cancelled later.
Leave ==
  /\ phase = "running"
  /\ Quiet
  /\ \/ cur # 0 /\ CallFails /\ late' = late \cup {cur} /\ UNCHANGED read
     \/ cur # 0 /\ health = "up" /\ read' = read \cup {cur} /\ UNCHANGED <<late, faults>>
     \/ Disturb("leaves") /\ UNCHANGED <<read, late>>
  /\ phase' = "closing"
  /\ cur' = 0
  /\ UNCHANGED <<sent, sessVars, taskVars, outVars, given, shown, owed>>

Cancel ==
  /\ phase = "closing"
  /\ Quiet
  /\ EndCall
  /\ UNCHANGED faults

----------------------------------------------------------------------------

TaskStep(t) ==
  \/ Wake(t) \/ Acquire(t) \/ Fetch(t) \/ FetchFails(t) \/ Run(t) \/ Crash(t)
  \/ Ack(t) \/ Enqueue(t) \/ EnqueueBroken(t) \/ EndDrain(t)

Hub == Arrive \/ LateAck \/ Push \/ HubFails

Enter == Connect \/ Reenter \/ Subscribe \/ SubscribeFails

Application == Take \/ Finish \/ Leave \/ Cancel

Next ==
  \/ Hub
  \/ Enter
  \/ \E t \in Task : TaskStep(t)
  \/ PushLoopBroken \/ HeartbeatFails
  \/ Application

Spec == Init /\ [][Next]_vars

\* Timers fire, calls are answered or time out (except on a hung session those
\* without a time-out), the application keeps iterating and reconnects when the
\* inbox ends; pushes are promised by nobody.  The event loop resumes every
\* coroutine that is ready, in turn, and drain_lock serves its waiters in
\* turn.  Fairness is strong because the synchronous section of one coroutine,
\* or its hold of the lock, disables the steps of the others again and again.
Fairness ==
  /\ \A t \in Task : SF_vars(TaskStep(t))
  /\ SF_vars(Take \/ Finish)
  /\ SF_vars(Cancel)
  /\ WF_vars(Subscribe \/ SubscribeFails)
  /\ WF_vars(Connect)

FairSpec == Spec /\ Fairness

----------------------------------------------------------------------------
\* Properties

Queued == {out[i] : i \in 1 .. Len(out)}

\* The tasks that hold a snapshot of the hub's unread messages, or are getting
\* one.
Draining == {t \in Task : stage[t] \in {"fetch", "run", "ack", "enqueue"}}

\* "Push and poll share a lock so the two never double-process the same batch
\* of unread": no two drains overlap, the startup drain included.
OneDrainAtATime == \A t, u \in Draining : t = u

\* in_flight_ids holds the messages in the queue and those the application has
\* been given, and no other: an id left behind by an overflow would hide its
\* message from this inbox() call for ever, a missing one would show it twice.
InFlightIsExact ==
  phase \in {"startup", "running"} => inFlight = Queued \cup given

\* A message is marked as read only after the application was given it or the
\* router executed it: no crash, reconnect, overflow or late ack loses one.
ReadWasShown == read \subseteq shown

\* A command is dispatched again only when the ack of its last dispatch failed
\* or was cut off by the end of the inbox() call.
DispatchedOnce == \A m \in Msg : owed[m] <= 1

\* One inbox() call hands out messages in the order the hub lists them and none
\* twice (issue #31), whatever replays of pushes, polls and overflows there are.
YieldsInOrder == [][cur' \notin {0, cur} => \A k \in given : k < cur']_vars

Contract == INSTANCE InboxContract WITH Serial <- TRUE

\* The inbox keeps the promises of InboxContract.
ImplementsContract == Contract!Spec

\* What stops an inbox for good: a hub that accepted the connection but does not
\* answer the subscription, and, in the legacy drain, an odd row among the
\* unread (see TextsSurviveOddRows).
Stuck ==
  \/ phase = "subscribing" /\ health = "hung"
  \/ \E m \in Unread : Disp(m) = "crash"

\* What is to become of a message.
Served(m) == IF Disp(m) = "handled" THEN m \in read ELSE m \in shown

\* Every message that reaches the hub is handed to the application, or executed
\* and marked as read in the end, without any push arriving, whatever acks fail
\* and whatever rows next to it do not parse: polls and reconnects are enough.
\* Again and again, all that has arrived is served.
EveryMessageServed ==
  []<>(\/ Stuck
       \/ \A m \in 1 .. sent : Disp(m) \in {"yield", "handled"} => Served(m))

\* A session that died or hangs does not go unnoticed: the running inbox ends,
\* and the application's reconnect loop gets its turn.
FailedSessionNoticed ==
  (phase = "running" /\ health # "up") ~> (phase # "running")

----------------------------------------------------------------------------
\* What the documentation says and the code does not do

\* messages.py: a row whose body is missing or not a string is skipped.  A null
\* body is kept, and the legacy drain raises on it, on every connection: the
\* texts behind it are never handed out.
TextsSurviveOddRows ==
  \A m \in Msg : (m <= sent /\ Disp(m) = "yield") ~> (m \in shown)

============================================================================
