------------------------------ MODULE GoClient ------------------------------
(***************************************************************************)
(* The Client of the Go SDK (client.go): the session id of its RPCs, the   *)
(* goroutines that StartSSE starts and StopSSE ends, the events they read  *)
(* and the callback goroutines they spawn.  Around it, as environment: the *)
(* hub with its sessions, and a bridge that keeps to the pattern of the    *)
(* SDK's README (RPCs on one goroutine, a signal channel of capacity 1).   *)
(***************************************************************************)
EXTENDS Naturals, Sequences, FiniteSets

CONSTANTS
  MaxMsg,        \* bound: messages that arrive at the hub
  MaxStream,     \* bound: connections (sessions and streams) the bridge makes
  MaxFaults,     \* bound: disturbances by the environment
  Disturbances   \* the kinds of disturbance that may occur

ASSUME ClientAssumption ==
  /\ MaxMsg \in Nat /\ MaxStream \in Nat \ {0} /\ MaxFaults \in Nat
  /\ Disturbances \subseteq {"break", "restart", "rpc", "refuse", "ping"}

VARIABLES
  sent,        \* hub: messages 1 .. sent have arrived
  sessions,    \* hub: sessions it knows
  subscribed,  \* hub: sessions subscribed to the inbox
  lastSid,     \* hub: the session id it gave out last
  attached,    \* hub: streams connected to it
  wire,        \* [stream]: events received or on their way, complete lines
  sid,         \* c.sessionID, 0 if empty
  handle,      \* the stream of c.sseCancel and c.sseDone, 0 if nil
  stopping,    \* the stream whose done channel StopSSE waits for, 0 if none
  from,        \* [stream]: the session id its goroutine was given
  at,          \* [stream]: where its goroutine is
  cancelled,   \* streams whose context is cancelled
  callbacks,   \* callback goroutines that have not run yet
  pushCh,      \* the bridge's channel: signals in it
  pc,          \* the bridge's RPC goroutine
  polls,       \* does the bridge also fetch now and then without a push
  fetched,     \* messages that GetMessages has returned
  faults       \* disturbances so far

hubVars    == <<sent, sessions, subscribed, lastSid>>
streamVars == <<from, at, cancelled>>
netVars    == <<attached, wire>>
bridgeVars == <<callbacks, pushCh, polls>>
vars == <<hubVars, netVars, sid, handle, stopping, streamVars, bridgeVars, pc,
          fetched, faults>>

Msg == 1 .. MaxMsg
Stream == 1 .. MaxStream
Ping == 0

\* "none": not started.  "dial": at the head of handleSSEStream's loop.
\* "read": in runSSELoop.  "pong": in sendPong.  "pause": the 3 seconds.
Place == {"none", "dial", "read", "pong", "pause", "done"}

\* The steps of a reconnect, in the order of the README, then the loop.
Step == {"stop", "stopping", "init", "notify", "register", "start", "subscribe",
         "wait", "fetch"}

TypeOK ==
  /\ sent \in 0 .. MaxMsg
  /\ sessions \subseteq 1 .. lastSid /\ subscribed \subseteq sessions
  /\ lastSid \in 0 .. MaxStream
  /\ attached \subseteq Stream
  /\ wire \in [Stream -> Seq(Msg \cup {Ping})]
  /\ sid \in 0 .. MaxStream
  /\ handle \in {0} \cup Stream /\ stopping \in {0} \cup Stream
  /\ from \in [Stream -> 0 .. MaxStream]
  /\ at \in [Stream -> Place]
  /\ cancelled \subseteq Stream
  /\ callbacks \in 0 .. MaxMsg
  /\ pushCh \in 0 .. 1
  /\ pc \in Step /\ polls \in BOOLEAN
  /\ fetched \subseteq Msg
  /\ faults \in 0 .. MaxFaults

\* New(): no session, no stream; the bridge connects for the first time.
Init ==
  /\ sent = 0 /\ sessions = {} /\ subscribed = {} /\ lastSid = 0
  /\ attached = {} /\ wire = [s \in Stream |-> <<>>]
  /\ sid = 0 /\ handle = 0 /\ stopping = 0
  /\ from = [s \in Stream |-> 0]
  /\ at = [s \in Stream |-> "none"]
  /\ cancelled = {}
  /\ callbacks = 0 /\ pushCh = 0
  /\ pc = "stop" /\ polls \in BOOLEAN
  /\ fetched = {} /\ faults = 0

Disturb(kind) ==
  /\ kind \in Disturbances
  /\ faults < MaxFaults
  /\ faults' = faults + 1

Live == {s \in Stream : at[s] \notin {"none", "done"}}

----------------------------------------------------------------------------
\* The hub

\* A message is stored; the subscribed sessions with a stream get a push.
Arrive ==
  /\ sent < MaxMsg
  /\ sent' = sent + 1
  /\ wire' = [s \in Stream |-> IF s \in attached /\ from[s] \in subscribed
                               THEN Append(wire[s], sent + 1) ELSE wire[s]]
  /\ UNCHANGED <<sessions, subscribed, lastSid, attached, sid, handle, stopping,
                 streamVars, bridgeVars, pc, fetched, faults>>

SendPing(s) ==
  /\ s \in attached
  /\ Disturb("ping")
  /\ wire' = [wire EXCEPT ![s] = Append(@, Ping)]
  /\ UNCHANGED <<hubVars, attached, sid, handle, stopping, streamVars,
                 bridgeVars, pc, fetched>>

\* A connection ends; what was received before can still be read.
Break(s) ==
  /\ s \in attached
  /\ Disturb("break")
  /\ attached' = attached \ {s}
  /\ UNCHANGED <<hubVars, wire, sid, handle, stopping, streamVars, bridgeVars,
                 pc, fetched>>

\* The hub restarts and knows no session any more.
Restart ==
  /\ sessions # {}
  /\ Disturb("restart")
  /\ sessions' = {} /\ subscribed' = {} /\ attached' = {}
  /\ UNCHANGED <<sent, lastSid, wire, sid, handle, stopping, streamVars,
                 bridgeVars, pc, fetched>>

----------------------------------------------------------------------------
\* The goroutine of handleSSEStream

\* The context is looked at before every request and event, and cuts off
\* every wait.
Exit(s) ==
  /\ s \in Live \cap cancelled
  /\ at' = [at EXCEPT ![s] = "done"]
  /\ attached' = attached \ {s}
  /\ UNCHANGED <<hubVars, wire, sid, handle, stopping, from, cancelled,
                 bridgeVars, pc, fetched, faults>>

\* GET with the session id the goroutine was given.
Dial(s) ==
  /\ at[s] = "dial"
  /\ from[s] \in sessions
  /\ at' = [at EXCEPT ![s] = "read"]
  /\ attached' = attached \cup {s}
  /\ wire' = [wire EXCEPT ![s] = <<>>]
  /\ UNCHANGED <<hubVars, sid, handle, stopping, from, cancelled, bridgeVars,
                 pc, fetched, faults>>

\* No connection, or a status other than 200.
DialFails(s) ==
  /\ at[s] = "dial"
  /\ \/ from[s] \notin sessions /\ UNCHANGED faults
     \/ Disturb("break")
  /\ at' = [at EXCEPT ![s] = "pause"]
  /\ UNCHANGED <<hubVars, netVars, sid, handle, stopping, from, cancelled,
                 bridgeVars, pc, fetched>>

\* (slip) The lines of an event are kept for the next one.
LinesKept(s) == wire[s]

\* flush: the event's lines are dropped once it has been handled.
LinesFlushed(s) == Tail(wire[s])

\* handleSSEEvent: a ping is answered, a push is a callback on a goroutine of
\* its own.
Event(s) ==
  /\ at[s] = "read" /\ wire[s] # <<>>
  /\ wire' = [wire EXCEPT ![s] = LinesFlushed(s)]
  /\ IF Head(wire[s]) = Ping
     THEN at' = [at EXCEPT ![s] = "pong"] /\ UNCHANGED callbacks
     ELSE callbacks' = callbacks + 1 /\ UNCHANGED at
  /\ UNCHANGED <<hubVars, attached, sid, handle, stopping, from, cancelled,
                 pushCh, polls, pc, fetched, faults>>

\* The pong is answered, fails, or its 8 seconds are over.
Pong(s) ==
  /\ at[s] = "pong"
  /\ at' = [at EXCEPT ![s] = "read"]
  /\ UNCHANGED <<hubVars, netVars, sid, handle, stopping, from, cancelled,
                 bridgeVars, pc, fetched, faults>>

\* (slip) A read error is reported before the events read.
ErrorFirst(s) == s \notin attached

\* The read error comes after everything that was received.
ReadError(s) == s \notin attached /\ wire[s] = <<>>

\* runSSELoop returns; in any case with an error.
EndOfStream(s) ==
  /\ at[s] = "read"
  /\ ReadError(s)
  /\ at' = [at EXCEPT ![s] = "pause"]
  /\ UNCHANGED <<hubVars, netVars, sid, handle, stopping, from, cancelled,
                 bridgeVars, pc, fetched, faults>>

Resume(s) ==
  /\ at[s] = "pause"
  /\ at' = [at EXCEPT ![s] = "dial"]
  /\ UNCHANGED <<hubVars, netVars, sid, handle, stopping, from, cancelled,
                 bridgeVars, pc, fetched, faults>>

\* The registered callback: a signal, unless one is in the channel.
Callback ==
  /\ callbacks > 0
  /\ callbacks' = callbacks - 1
  /\ pushCh' = 1
  /\ UNCHANGED <<hubVars, netVars, sid, handle, stopping, streamVars, pc, polls,
                 fetched, faults>>

----------------------------------------------------------------------------
\* The methods, on the bridge's RPC goroutine

streamsUnchanged == UNCHANGED <<netVars, streamVars, handle, stopping>>

\* StopSSE takes and clears the handle and cancels.
StopSSE ==
  /\ pc = "stop"
  /\ stopping' = handle
  /\ handle' = 0
  /\ cancelled' = cancelled \cup ({handle} \ {0})
  /\ pc' = "stopping"
  /\ UNCHANGED <<hubVars, netVars, sid, from, at, bridgeVars, fetched, faults>>

\* (slip) StopSSE only cancels.
NoWait == TRUE

\* <-done
Stopped == stopping \notin Live

StopSSEReturns ==
  /\ pc = "stopping"
  /\ Stopped
  /\ stopping' = 0
  /\ pc' = "init"
  /\ UNCHANGED <<hubVars, netVars, sid, handle, streamVars, bridgeVars, fetched,
                 faults>>

\* (slip) initialize goes out with the session id of the last session.
KeptSid == sid

\* c.sessionID = ""
ClearedSid == 0

\* The hub answers a request that names no session, or one it does not know,
\* with status 400; initialize must name none.
Rejected == IF pc = "init" THEN ClearedSid # 0 ELSE sid \notin sessions

\* An RPC fails: no connection, an HTTP status of 400 or more, a result that
\* is an error; the bridge starts over.
RpcFails ==
  /\ pc \in {"init", "register", "subscribe", "fetch"}
  /\ \/ Rejected /\ UNCHANGED faults
     \/ Disturb("rpc")
  /\ sid' = IF pc = "init" THEN ClearedSid ELSE sid
  /\ pc' = "stop"
  /\ streamsUnchanged
  /\ UNCHANGED <<hubVars, bridgeVars, fetched>>

\* The hub opens a session for initialize.
OpenSession ==
  /\ ~Rejected
  /\ lastSid < MaxStream
  /\ lastSid' = lastSid + 1
  /\ sessions' = sessions \cup {lastSid + 1}
  /\ UNCHANGED <<sent, subscribed>>

\* initialize opens a session and fails behind it: the answer is lost, or only
\* its body, when the client has taken the session id from the header.
InitializeCutOff ==
  /\ pc = "init"
  /\ Disturb("rpc")
  /\ OpenSession
  /\ sid' \in {ClearedSid, lastSid + 1}
  /\ pc' = "stop"
  /\ streamsUnchanged
  /\ UNCHANGED <<bridgeVars, fetched>>

\* postRPC("initialize"): the hub opens a session and names it in a header.
Initialize ==
  /\ pc = "init"
  /\ OpenSession
  /\ sid' = lastSid + 1
  /\ pc' = "notify"
  /\ streamsUnchanged
  /\ UNCHANGED <<bridgeVars, fetched, faults>>

\* The hub answers initialize with a JSON-RPC error, in a response of status
\* 200: Initialize does not look at it and goes on.
InitializeRefused ==
  /\ pc = "init"
  /\ Disturb("refuse")
  /\ sid' = ClearedSid
  /\ pc' = "notify"
  /\ streamsUnchanged
  /\ UNCHANGED <<hubVars, bridgeVars, fetched>>

\* notifications/initialized: any answer at all will do.
Notify ==
  /\ pc = "notify"
  /\ \/ pc' = "register" /\ UNCHANGED faults
     \/ pc' = "stop" /\ Disturb("rpc")
  /\ streamsUnchanged
  /\ UNCHANGED <<hubVars, sid, bridgeVars, fetched>>

Register ==
  /\ pc = "register"
  /\ ~Rejected
  /\ pc' = "start"
  /\ streamsUnchanged
  /\ UNCHANGED <<hubVars, sid, bridgeVars, fetched, faults>>

\* StartSSE: a new goroutine with the session id as it is now.
StartSSE ==
  /\ pc = "start"
  /\ sid # 0
  /\ LET s == CHOOSE n \in Stream : at[n] = "none" /\ \A k \in Stream : k < n => at[k] # "none"
     IN  /\ at' = [at EXCEPT ![s] = "dial"]
         /\ from' = [from EXCEPT ![s] = sid]
         /\ handle' = s
  /\ pc' = "subscribe"
  /\ UNCHANGED <<hubVars, netVars, sid, stopping, cancelled, bridgeVars,
                 fetched, faults>>

\* The hub subscribes the session: pushes may come before its answer does, and
\* the call may still fail.
Subscribed ==
  /\ pc = "subscribe"
  /\ ~Rejected
  /\ sid \notin subscribed
  /\ subscribed' = subscribed \cup {sid}
  /\ streamsUnchanged
  /\ UNCHANGED <<sent, sessions, lastSid, sid, bridgeVars, pc, fetched, faults>>

\* SubscribeInbox has its answer.
SubscribeInbox ==
  /\ pc = "subscribe"
  /\ ~Rejected
  /\ sid \in subscribed
  /\ pc' = "wait"
  /\ streamsUnchanged
  /\ UNCHANGED <<hubVars, sid, bridgeVars, fetched, faults>>

\* The bridge takes a signal, or it is time for a poll.
Awake ==
  /\ pc = "wait"
  /\ \/ pushCh = 1 /\ pushCh' = 0
     \/ polls /\ UNCHANGED pushCh
  /\ pc' = "fetch"
  /\ streamsUnchanged
  /\ UNCHANGED <<hubVars, sid, callbacks, polls, fetched, faults>>

GetMessages ==
  /\ pc = "fetch"
  /\ ~Rejected
  /\ fetched' = fetched \cup 1 .. sent
  /\ pc' = "wait"
  /\ streamsUnchanged
  /\ UNCHANGED <<hubVars, sid, bridgeVars, faults>>

----------------------------------------------------------------------------

StreamStep(s) ==
  \/ Exit(s)
  \/ /\ s \notin cancelled
     /\ Dial(s) \/ DialFails(s) \/ Event(s) \/ Pong(s) \/ EndOfStream(s) \/ Resume(s)

BridgeStep ==
  \/ StopSSE \/ StopSSEReturns
  \/ Initialize \/ InitializeRefused \/ InitializeCutOff \/ Notify
  \/ Register \/ StartSSE \/ Subscribed \/ SubscribeInbox
  \/ RpcFails
  \/ Awake \/ GetMessages

HubStep == Arrive \/ Restart \/ (\E s \in Stream : SendPing(s) \/ Break(s))

Next == HubStep \/ (\E s \in Stream : StreamStep(s)) \/ Callback \/ BridgeStep

Spec == Init /\ [][Next]_vars

\* The scheduler runs every goroutine; requests and sleeps end.
Fairness ==
  /\ \A s \in Stream : WF_vars(StreamStep(s))
  /\ WF_vars(Callback)
  /\ WF_vars(BridgeStep)

FairSpec == Spec /\ Fairness

----------------------------------------------------------------------------
\* Properties

\* A bridge that reconnects in the documented order has one stream goroutine
\* at a time, on the session its RPCs use, and none while it has no session:
\* no goroutine of an earlier connection still answers pings or takes pushes.
OneStreamPerSession ==
  /\ pc \in {"init", "notify", "register", "start"} => Live = {}
  /\ pc \in {"subscribe", "wait", "fetch"} => Live = {handle} /\ from[handle] = sid

\* Between StopSSE and StartSSE.
Reconnecting == pc \notin {"subscribe", "wait", "fetch"}

\* A push that the stream of the current connection has received and its
\* goroutine has not seen.
Received(m) ==
  ~Reconnecting /\ \E i \in DOMAIN wire[handle] : wire[handle][i] = m

\* "Events received are not dropped, whatever the kind of the read error": a
\* push received is followed by a fetch that returns its message, through
\* broken connections, callbacks and the full channel, though the bridge never
\* polls - unless the bridge reconnects, which drops the stream with what it
\* has received.
PushesAreFetched ==
  \A m \in Msg : Received(m) ~> (m \in fetched \/ Reconnecting)

\* A bridge that polls gets every message, through a hub that forgets all
\* sessions, refused handshakes and failing calls.
EveryMessageFetched ==
  polls => \A m \in Msg : (m <= sent) ~> (m \in fetched)

=============================================================================
