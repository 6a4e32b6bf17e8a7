----------------------------- MODULE Connection -----------------------------
(***************************************************************************)
(* The life of a connection in the Python and JavaScript SDKs: connect()   *)
(* with its configuration, the MCP session below it, registration and      *)
(* subscription, the push queue, one_shot() sessions beside the long-lived *)
(* one, and the tear-down from wherever it is left.                        *)
(*                                                                         *)
(* The application is the stateless worker of one_shot()'s documentation:  *)
(* for each push it opens a fresh session, fetches the unread messages,    *)
(* and answers and acks each.  It is one coroutine: `at` is the await it   *)
(* is in, `sess` the session that await belongs to.                        *)
(***************************************************************************)
EXTENDS Integers, MessageOrder

CONSTANTS
  Langs,         \* the SDKs: "py", "js"
  ArgChoices,    \* what the caller may pass to connect()
  EnvChoices,    \* what the environment variables may say
  MaxMsg,        \* bound: messages that arrive at the hub
  PushCap,       \* _INBOX_QUEUE_CAPACITY
  MaxFaults,     \* bound: disturbances by the environment
  Disturbances   \* the kinds of disturbance that may occur

Msg == 1 .. MaxMsg

\* client_type and display_name are resolved as tenant is.
Required == {"participant", "url", "pat"}
Field == Required \cup {"tenant"}

\* A string nobody gave, the empty string, and others.
Value == {"absent", "empty", "given", "env1", "env2"}
Present(v) == v \notin {"absent", "empty"}

ASSUME ConnectionAssumption ==
  /\ Langs \subseteq {"py", "js"}
  /\ ArgChoices \subseteq [Field -> Value]
  /\ EnvChoices \subseteq [Field -> Value]
  /\ MaxMsg \in Nat
  /\ PushCap \in Nat \ {0}
  /\ MaxFaults \in Nat
  /\ Disturbances \subseteq {"call", "dies", "hangs", "leaves", "cancels", "env"}

VARIABLES
  lang, args,   \* the SDK, and the arguments of connect()
  env,          \* the environment variables now
  conf,         \* [session]: its Config
  at,           \* the await the application is in, "out" if not connected
  sess,         \* the session it belongs to
  entered,      \* [session]: how many contexts the code is in and will close
  open,         \* how many transports and clients are really open
  rejected,     \* JavaScript clients whose initialize() was rejected
  health,       \* the hub, for this connection: "up", "dead", "hung"
  registered,   \* hub: is the participant visible to its peers
  subscribed,   \* hub: does it push to the long-lived session
  pushing,      \* hub: messages whose push is under way
  sent, read,   \* hub: messages 1 .. sent have arrived; those marked as read
  queue,        \* pushes in the session's queue
  announced,    \* messages whose push reached this connection
  batch,        \* fetched messages the worker has yet to serve
  faults        \* disturbances so far

input  == <<lang, args, env>>
opened == <<entered, open, rejected>>
sse    == <<subscribed, pushing>>
mail   == <<sent, read>>
push   == <<queue, announced>>
vars   == <<input, conf, at, sess, opened, health, registered, sse, mail, push, batch,
            faults>>

Session == {"outer", "inner"}

\* Connecting to the hub; then waiting for a push, working on it, closing.
Connecting == {"open", "initialize", "register", "subscribe"}
At == Connecting \cup {"out", "listen", "fetch", "serve", "leave", "unwind"}

TypeOK ==
  /\ lang \in Langs /\ args \in ArgChoices /\ env \in EnvChoices
  /\ conf \in [Session -> [Field -> Value]]
  /\ at \in At /\ sess \in Session
  /\ entered \in [Session -> 0 .. 2]
  /\ open \in Nat /\ rejected \in Nat
  /\ health \in {"up", "dead", "hung"}
  /\ registered \in BOOLEAN /\ subscribed \in BOOLEAN
  /\ pushing \subseteq 1 .. sent /\ announced \subseteq 1 .. sent
  /\ read \subseteq 1 .. sent /\ batch \subseteq 1 .. sent
  /\ sent \in 0 .. MaxMsg
  /\ queue \in 0 .. PushCap
  /\ faults \in 0 .. MaxFaults

----------------------------------------------------------------------------
\* Configuration

\* resolve_config: arguments over environment.  Python passes over an empty
\* argument (`or`), JavaScript only over an absent one (`??`); the handle has
\* no environment variable.
Resolve(a, e) ==
  LET passed(f) == IF lang = "py" THEN Present(a[f]) ELSE a[f] # "absent"
  IN  [f \in Field |-> IF passed(f) \/ f = "participant" THEN a[f] ELSE e[f]]

\* Otherwise ConfigurationError is raised, and nothing has been opened.
Complete(c) == \A f \in Required : Present(c[f])

\* What the headers of a session tell the hub: the tenant's is left out when
\* none is set.
Headers(c) == [f \in Field |-> IF Present(c[f]) THEN c[f] ELSE "absent"]

Init ==
  /\ lang \in Langs /\ args \in ArgChoices /\ env \in EnvChoices
  /\ conf = [s \in Session |-> [f \in Field |-> "absent"]]
  /\ at = "out" /\ sess = "outer"
  /\ entered = [s \in Session |-> 0]
  /\ open = 0 /\ rejected = 0
  /\ health = "up"
  /\ registered = FALSE /\ subscribed = FALSE /\ pushing = {}
  /\ sent = 0 /\ read = {}
  /\ queue = 0 /\ announced = {} /\ batch = {}
  /\ faults = 0

----------------------------------------------------------------------------
\* The environment

Disturb(kind) ==
  /\ kind \in Disturbances
  /\ faults < MaxFaults
  /\ faults' = faults + 1

\* Another participant's send_message is stored, and announced if there is a
\* subscription.
Arrive ==
  /\ sent < MaxMsg
  /\ sent' = sent + 1
  /\ pushing' = IF subscribed THEN pushing \cup {sent'} ELSE pushing
  /\ UNCHANGED <<input, conf, at, sess, opened, health, registered, subscribed, read,
                 push, batch, faults>>

\* (slip) The queue has no bound.
RoomAlways == TRUE

\* (slip) A push nobody waits for is dropped.
RoomIfListening == at = "listen" /\ queue = 0

PushRoom == queue < PushCap

\* The notification handler of open(): queued, or dropped when the queue is
\* full.
Deliver ==
  \E m \in pushing :
    /\ health = "up"
    /\ pushing' = pushing \ {m}
    /\ announced' = announced \cup {m}
    /\ queue' = IF PushRoom THEN queue + 1 ELSE queue
    /\ UNCHANGED <<input, conf, at, sess, opened, health, registered, subscribed, mail,
                   batch, faults>>

\* The hub carries out subscribe_resource: pushes may come before its answer.
HubSubscribes ==
  /\ at = "subscribe"
  /\ health = "up"
  /\ subscribed' = TRUE
  /\ UNCHANGED <<input, conf, at, sess, opened, health, registered, pushing, mail,
                 push, batch, faults>>

\* The hub restarts and has forgotten sessions and presence, or hangs.
HubFails ==
  /\ at # "out"
  /\ health = "up"
  /\ \/ /\ Disturb("dies") /\ health' = "dead"
        /\ registered' = FALSE /\ subscribed' = FALSE /\ pushing' = {}
     \/ Disturb("hangs") /\ health' = "hung" /\ UNCHANGED <<registered, sse>>
  /\ UNCHANGED <<input, conf, at, sess, opened, mail, push, batch>>

\* Someone sets the environment variables anew.
EnvChanges ==
  /\ Disturb("env")
  /\ env' \in EnvChoices
  /\ UNCHANGED <<lang, args, conf, at, sess, opened, health, registered, sse, mail,
                 push, batch>>

----------------------------------------------------------------------------
\* Opening sessions

\* connect(): nothing is opened with an incomplete configuration.
Connect ==
  /\ at = "out"
  /\ Complete(Resolve(args, env))
  /\ conf' = [conf EXCEPT !["outer"] = Resolve(args, env)]
  /\ at' = "open" /\ sess' = "outer"
  /\ health' = "up"
  /\ queue' = 0 /\ announced' = {}
  /\ UNCHANGED <<input, opened, registered, sse, mail, batch, faults>>

\* Python enters a transport and a client; JavaScript gets one client that has
\* its transport.
Contexts == IF lang = "py" THEN 2 ELSE 1

\* HubSession.open enters the next context of the session.
Enter ==
  /\ at = "open"
  /\ entered' = [entered EXCEPT ![sess] = @ + 1]
  /\ open' = open + 1
  /\ at' = IF entered[sess] + 1 = Contexts THEN "initialize" ELSE "open"
  /\ UNCHANGED <<input, conf, sess, rejected, health, registered, sse, mail, push,
                 batch, faults>>

\* (slip) A refused registration goes unnoticed.
RefusalIgnored == registered' \in BOOLEAN

\* raise_for_tool_error lets nothing but a confirmation pass.
Confirmed == registered' = TRUE

\* initialize, register or subscribe is answered.  connect() registers, the
\* worker subscribes and iterates inbox_pushes(); one_shot() yields at once.
Answered ==
  /\ health = "up"
  /\ \/ /\ at = "initialize"
        /\ at' = IF sess = "outer" THEN "register" ELSE "fetch"
        /\ UNCHANGED registered
     \/ at = "register" /\ at' = "subscribe" /\ Confirmed
     \/ at = "subscribe" /\ subscribed /\ at' = "listen" /\ UNCHANGED registered
  /\ UNCHANGED <<input, conf, sess, opened, health, sse, mail, push, batch, faults>>

----------------------------------------------------------------------------
\* The stateless worker

\* (slip) one_shot() resolves its configuration anew.
ResolvedAnew == Resolve(args, env)

SameConfig == conf["outer"]

\* The next push; one_shot() opens a sibling session with the same Config.
TakePush ==
  /\ at = "listen"
  /\ queue > 0
  /\ queue' = queue - 1
  /\ conf' = [conf EXCEPT !["inner"] = SameConfig]
  /\ at' = "open" /\ sess' = "inner"
  /\ UNCHANGED <<input, opened, health, registered, sse, mail, announced, batch,
                 faults>>

\* get_unread() on the fresh session.
Fetch ==
  /\ at = "fetch"
  /\ health = "up"
  /\ batch' = (1 .. sent) \ read
  /\ at' = IF batch' = {} THEN "leave" ELSE "serve"
  /\ UNCHANGED <<input, conf, sess, opened, health, registered, sse, mail, push, faults>>

\* The worker answers a message and acks it.
Serve ==
  /\ at = "serve"
  /\ health = "up"
  /\ read' = read \cup {Least(batch)}
  /\ batch' = batch \ {Least(batch)}
  /\ at' = IF batch' = {} THEN "leave" ELSE "serve"
  /\ UNCHANGED <<input, conf, sess, opened, health, registered, sse, sent, push, faults>>

----------------------------------------------------------------------------
\* Failing and closing

\* (slip) No call has a time-out.
NoTimeouts == TRUE

\* Only the tool calls of the Python SDK have a time-out.
NoDeadline == lang = "js" \/ at \in {"open", "initialize", "subscribe"}

\* (slip) JavaScript's connect() does not dispose what it has opened.
NobodyCloses == lang = "js" /\ at \in {"initialize", "register"}

\* The client that JavaScript's open() got from the factory is nobody's to
\* close until initialize() is over.
NobodysClient == lang = "js" /\ at = "initialize"

\* The awaited call raises, and so does connect() or the worker's loop.  The
\* hub may have carried out the ack of the message at hand.
Raise ==
  /\ at \in Connecting \cup {"fetch", "serve"}
  /\ \/ health = "dead" /\ UNCHANGED faults
     \/ health = "hung" /\ ~NoDeadline /\ UNCHANGED faults
     \/ health = "up" /\ Disturb("call")
  /\ entered' = IF NobodysClient THEN [entered EXCEPT ![sess] = 0] ELSE entered
  /\ rejected' = IF lang = "js" /\ at = "initialize" THEN rejected + 1 ELSE rejected
  /\ at' = "unwind" /\ batch' = {}
  /\ \/ UNCHANGED read
     \/ at = "serve" /\ read' = read \cup {Least(batch)}
  /\ UNCHANGED <<input, conf, sess, open, health, registered, sse, sent, push>>

\* The application leaves its loop, or its task is cancelled at an await.
Leave ==
  /\ \/ at = "listen" /\ Disturb("leaves")
     \/ lang = "py" /\ at \notin {"out", "unwind"} /\ Disturb("cancels")
  /\ at' = "unwind" /\ batch' = {}
  /\ UNCHANGED <<input, conf, sess, opened, health, registered, sse, mail, push>>

\* The next context is closed, those of the inner session first.
CloseContext(s) ==
  /\ entered[s] > 0
  /\ s = "outer" => entered["inner"] = 0
  /\ entered' = [entered EXCEPT ![s] = @ - 1]
  /\ open' = open - 1
  /\ UNCHANGED rejected

\* The block of one_shot() is over: the worker waits for the next push.
CloseInner ==
  /\ at = "leave"
  /\ CloseContext("inner")
  /\ IF entered["inner"] = 1 THEN at' = "listen" /\ sess' = "outer"
                             ELSE UNCHANGED <<at, sess>>
  /\ UNCHANGED <<input, conf, health, registered, sse, mail, push, batch, faults>>

\* An exception, a cancellation or the end of the block of connect() leaves all
\* that was entered; the subscription ends with its session.
Unwind ==
  /\ at = "unwind"
  /\ \/ \E s \in Session :
          /\ CloseContext(s)
          /\ UNCHANGED at
          /\ IF s = "outer" THEN subscribed' = FALSE /\ pushing' = {}
                            ELSE UNCHANGED sse
     \/ /\ entered["outer"] = 0
        /\ at' = "out"
        /\ UNCHANGED <<opened, sse>>
  /\ UNCHANGED <<input, conf, sess, health, registered, mail, push, batch, faults>>

----------------------------------------------------------------------------

Work ==
  Enter \/ Answered \/ TakePush \/ Fetch \/ Serve \/ Raise \/ CloseInner \/ Unwind

Next ==
  \/ Arrive \/ Deliver \/ HubSubscribes \/ HubFails \/ EnvChanges
  \/ Connect \/ Work \/ Leave

Spec == Init /\ [][Next]_vars

\* The event loop resumes the application when what it awaits is answered, and
\* the hub answers and pushes while it is up.
FairSpec ==
  /\ Spec
  /\ WF_vars(Work)
  /\ WF_vars(HubSubscribes)
  /\ WF_vars(Deliver)

----------------------------------------------------------------------------
\* Properties

\* Wherever connect(), one_shot() or the worker fails, is cancelled or left,
\* every transport and client is closed afterwards, and no one_shot() session
\* outlives its block.  The exception is a JavaScript client whose initialize()
\* is rejected: open() neither closes it nor hands it to anyone.
NothingLeftOpen ==
  /\ at = "out" => open = rejected
  /\ at = "listen" => open = rejected + Contexts

\* Each session of a connection tells the hub the same identity and tenant,
\* whatever the environment has become since connect(), and what the caller
\* passed wins over it: "no implicit default".
OneIdentity ==
  at # "out" =>
    /\ \A f \in Required : Present(conf["outer"][f])
    /\ \A f \in Field : Present(args[f]) => conf["outer"][f] = args[f]
    /\ sess = "inner" => Headers(conf["inner"]) = Headers(conf["outer"])

\* The application is in the body of connect().
Entered ==
  \/ at \in {"subscribe", "listen", "fetch", "serve", "leave"}
  \/ at \in {"open", "initialize"} /\ sess = "inner"

\* "peers immediately see this consumer": the body of connect() never runs
\* unregistered, until the hub itself forgets.
EnteredIsVisible == Entered /\ health = "up" => registered

\* "dropping a push is harmless because pulls will still see the data": each
\* message whose push reached the session, be it during the subscription or
\* with the queue full, is served, while connection and hub last.
AnnouncedIsServed ==
  \A m \in Msg :
    (m \in announced) ~> (m \in read \/ at = "out" \/ health # "up")

\* connect() comes to an end: its body is entered or all is closed, unless the
\* hub hangs in a call without a time-out.
ConnectEnds ==
  (at \in Connecting /\ sess = "outer")
    ~> \/ at \in {"listen", "out"}
       \/ health = "hung" /\ (lang = "js" \/ at \in {"initialize", "subscribe"})

----------------------------------------------------------------------------
\* What the documentation says and the code does not do

\* session.py _TOOL_CALL_TIMEOUT_S: "Prevents a server that accepts the connection
\* but never responds (...) from pinning the bridge indefinitely".  initialize and
\* subscribe_resource are called on the MCP session without that time-out.
HungHubPinsNobody ==
  (at \in Connecting /\ health = "hung") ~> (at \notin Connecting)

=============================================================================
