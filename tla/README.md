# agent-hub-sdk: a TLA+ verification project

agent-hub-sdk is three client SDKs (Python, JavaScript, Go) for one messaging
service, the *hub*. A *bridge* connects an agent to the hub: it registers a
participant, reads the participant's inbox, answers the commands in it
(`/ping`, `/restart`, ...), hands the other messages to the agent, and sends
replies. The SDKs keep almost nothing of their own: the hub stores messages and
which of them are read. What is hard in them is concurrency (three drains over
one unread list, an output queue, goroutines that read a stream), failure (calls
that time out after they were carried out, sessions that die without a sign, a
connection that is left half-way) and order.

The modules model the Python and the JavaScript inbox and connection, the
command routers of the three SDKs, sending with retries, and the connection of
the Go client. TLC checks them on small instances; TLAPS proves every safety
property that TLC checks, and both refinements, for all values of the constants.

## 1. Inventory

Paths are relative to `src/`.

| Component | State | Operations | Hard behaviours | What makes it correct |
|---|---|---|---|---|
| Python inbox: `HubSession.inbox` in `python/src/agent_hub_sdk/session.py` | output queue (1024), push queue (100), `in_flight_ids`, `drain_lock`, task group | startup drain, push loop, poll loop, heartbeat, `ack`, two drains (router, legacy `/ping`) | overlapping drains; replayed and lost pushes; overflow inside a batch; cancellation inside a command; calls carried out after their time-out; a hub that hangs | nothing lost, doubled or reordered; one drain at a time; a command repeated only after its ack failed; a failed session ends the iterator |
| JavaScript inbox: `HubSession.inbox` in `js/src/session.ts` | `outBuf` (1024), `inFlightIds`, push queue (100), abort controller | the same, as producers without a lock, without deadlines | snapshots used out of order; errors queued behind messages; leaving with a command half done | the same, except that commands can run twice |
| Command routers: `commands.py`, `commands.ts`, `go/command_router.go` | dispatch table, restart handler | `dispatch` / `Handle`: handler, restart, built-in, reject, passthrough; `command`, `passthrough`, `set_restart_handler`; `/help` | failing replies, handlers, acks; cancellation at each await; a bad reject template; a table that changes behind an await; entries that override each other | ack last and once; what is yielded is untouched; `ready` means restarted; `/help` lists what works |
| Sending: `send`, `send_with_retry`, `classify_hub_error` (`session.py`, `session.ts`, `errors.*`, `transport.*`) | attempt counter, delays | send, classify, sleep, raise | a request that seemed to fail was stored | copies bounded by attempts; an absent peer is not retried; exactly the budget is used |
| Connecting: `AgentHub.connect`, `HubSession.open`, `register`, `subscribe_inbox`, `inbox_pushes`, `one_shot` (`client.py`, `client.ts`, `session.*`) | contexts entered, push queue, session with its `Config` | connect, enter, initialize, register, subscribe, take a push, open a sibling session, close | failure or cancellation at any await; a hub that hangs; pushes during the subscription; an environment that changes | all that was opened is closed; one identity; registered before the body runs; no announced message forgotten |
| Configuration (`config.*`) | none | arguments over environment, headers | empty and absent values | part of the connection's identity |
| Go client: `go/client.go` | `sessionID`, handle of the SSE goroutine, callback, `sseWarnedBytes` | `Initialize`, `Register`, `StartSSE`, `StopSSE`, `SubscribeInbox`, `GetMessages`, stream goroutine, pongs, warnings | reconnects; breaks right behind an event; callbacks on goroutines of their own; a lock-free rate limit | one stream goroutine on the current session; no received push lost; warnings double |
| Messages, participants (`messages.*`) | none | parsing of JSON rows and text formats | rows with odd types | odd rows do not hurt others |
| Remaining session calls: `get_participants`, `set_status`, `_call_tool_raw` | `status` | request and decode | none | |
| Go messages (`go/message.go`), package surface (`__init__.py`, `index.ts`) | none | decoding, exports | none | |

How they interact: `connect()` opens an MCP session, registers on it and hands it
to the application. The application iterates `inbox()`; its tasks call the hub
through the MCP session (`get_messages`, `mark_as_read`, `list_tools`), whose
notification handler feeds the push queue; a drain passes each message to the
router, which replies and acks through the same session. A stateless worker
iterates `inbox_pushes()` instead and opens a `one_shot()` session per push. In
Go there is no iterator: `StartSSE` spawns a goroutine that reads events and
spawns the callback, and the bridge calls RPCs on a goroutine of its own, as the
README of the Go SDK prescribes.

The hazards this leads to are listed in `PROJECT.json`, each at its line.

## 2. Modules

| Module | Models | EXTENDS / INSTANCE |
|---|---|---|
| `CommandRouter` | which rows parse (`Parsed`), routing of a body (`Route`, `Dispatch`, `DispatchLegacy`, `Disposition`), the blocks of `/help` | |
| `MessageOrder` | the least message of a set, and the set as a list: drains go in the order of the hub | |
| `InboxContract` | abstract specification: what an inbox promises | |
| `PyInbox` | the Python inbox with hub and application | `CommandRouter`, `MessageOrder`; implements `InboxContract` |
| `PyInboxInv` | its inductive invariant | `PyInbox` |
| `MessageOrderProofs` | lemmas on `MessageOrder` and on counting | `MessageOrder` |
| `PyInboxProofs` | theorems | `PyInboxInv`, `MessageOrderProofs` |
| `MCPyInbox` | instances for TLC | `PyInboxInv` |
| `JsInbox` | the JavaScript inbox | `CommandRouter`, `MessageOrder`; implements `InboxContract` with `Serial <- FALSE` |
| `JsInboxInv` | its inductive invariant | `JsInbox` |
| `JsInboxProofs` | theorems | `JsInboxInv`, `MessageOrderProofs` |
| `MCJsInbox` | instances for TLC | `JsInboxInv` |
| `CommandDispatch`, `MCCommandDispatch` | dispatches, await by await, in the three SDKs, and the set-up of the table | `CommandRouter` |
| `CommandDispatchProofs` | theorems | `CommandDispatch` |
| `Connection`, `MCConnection` | configuration, connecting, one-shot sessions, tear-down in Python and JavaScript | `MessageOrder` |
| `ConnectionProofs` | theorems | `Connection`, `MessageOrderProofs` |
| `SendRetry` | `send_with_retry` | |
| `SendRetryProofs` | theorems | `SendRetry` |
| `GoClient` | session id, streams, callbacks and reconnects of the Go client | |
| `GoClientProofs` | theorems | `GoClient`, `MessageOrderProofs` |
| `OversizeWarn` | the compare-and-swap rate limit of the Go client | |
| `SseReader` | the two event readers of the Go client | `MessageOrder` |
| `GoReadersProofs` | theorems on both | `OversizeWarn`, `SseReader`, `MessageOrderProofs` |

A definition marked `(slip)` is a plausible mistake in the definition behind it;
no specification uses it. The project's mutants put it in the place of that
definition and expect the property named in `PROJECT.json` to break.

### PyInbox

Messages are the numbers in the order of their arrival; the hub lists unread
ones in that order. `stage[t]` says where each of the three drains is
(`idle`, `lock`, `fetch`, `run`, `ack`, `enqueue`), `todo[t]` and `kept[t]` what
it carries of its snapshot. A row that does not parse is in no snapshot. The code
between two awaits runs without interruption: a drain's loop of `_enqueue` calls
has no await, so while a task is in `enqueue` no other step of the process
happens (`Quiet`); only the hub moves.

* `Wake`, `Acquire`, `Fetch`, `Run`, `Ack`, `Enqueue`, `EndDrain` are the normal
  path of a drain. `FetchFails`, `Crash`, `EnqueueBroken`, `PushLoopBroken` and
  `HeartbeatFails` are the exceptions that leave a task, end the task group and
  with it the call (`EndCall`: tasks cancelled, queue, lock and id set garbage,
  requests in flight may still be carried out).
* `Take`, `Finish`, `Leave`, `Cancel` are the application and the end it puts to
  the iterator: it leaves because its ack failed, because it breaks out behind
  an ack (no disturbance: a handler of one message does that), or at any time.
  Between `Leave` and `Cancel` the queue is closed and the tasks still run.
* `Arrive`, `LateAck`, `Push`, `HubFails` are the hub. A push carries no message:
  it is a hint in a bounded queue that may be lost, repeated or absent.
* `Disturb` counts what goes wrong: a call that fails, a session that dies, a hub
  that hangs, an application that leaves or calls `inbox()` again on the same
  session. `MaxFaults` bounds it.

Abstractions. An item handed directly to a waiting receiver counts as queued
until it is taken (anyio's zero-copy hand-off has no other visible effect).
`drain_lock` serves whichever waiter comes; anyio serves them in turn, which is
one of these orders. `get_messages` takes its snapshot in the step that returns
it. Handlers terminate. Replies have no effect on this state (`CommandDispatch`
has them). A rejection whose template raises has none either, and the drain keeps
the message: `Mode.unfillable` names the commands this happens to, and `Escapes`
makes them messages to be yielded. `Connect` is one step (`Connection` takes it apart).

### JsInbox

The differences are those of the code: no lock, no deadline of the SDK for any
call, no cancellation (an abort only ends waits), errors as items of `outBuf`,
and a `finally` that awaits all producers. `Fetch` takes a drain's snapshot and
`EnqueueAll` uses it in a later step, because another drain may take a newer one
and use it first. `Dispose` is the owner of the session who disposes its handle
under a running iterator: the push loop then ends without an error
(`PushLoopEnds`), every call is rejected, also one on a hub that hangs. A message
whose body is no string is left out by `Parsed`.

### CommandDispatch

A dispatch is a list of steps to do (`todo`) and done (`log`); `Script` gives
them by route, `Report` the replies that the outcome of user code calls for.
`RunBuiltin` is a built-in that gives its answer, or none, or fails with a warning
(which the built-ins of today never do, but the code provides for); `Format` is
Python's reject template. `Cancel` exists for Python only. `lang` selects the SDK: Go has no `passthrough`
and no `unknown="yield"` (`Buildable`), only JavaScript can throw `null`, only
Python's `str.format` can raise.

`RegisterHandler`, `MarkPassthrough` and `SetRestartHandler` change the table at
any time, also while a dispatch awaits something: `_run_restart` looks the
restart handler up before "restarting..." and again behind it, so a handler that
was cleared meanwhile makes the call raise (`Outcomes`). A Go router belongs to
one goroutine (`MaySetUp`). `HelpBuiltins`, `HelpHandlers` and `HelpPassthroughs`
are the three blocks of the text of `/help`, by the commands they name.

### Connection

The application is the worker of `one_shot()`'s documentation, one coroutine:
`connect()`, `subscribe_inbox()`, then for each item of `inbox_pushes()` a
`one_shot()` session with `get_unread()` and an answer and an ack per message.
`at` is the await it is in and `sess` the session that await belongs to.

* `Connect` resolves the configuration and raises without a step when it is
  incomplete. `Enter` enters a context (Python: transport, then client;
  JavaScript: one client), `Answered` is the answer to `initialize`, `register`
  or `subscribe`, `TakePush` opens the inner session, `Fetch` and `Serve` work on
  it, `CloseInner` leaves its block.
* `Raise` is a call that fails: on a dead session, after the time-out of a tool
  call on a hung one (`NoDeadline` names the calls that have none), or by a
  disturbance. `Leave` is the application, or in Python a cancellation at any
  await. Both lead to `Unwind`, which closes one context per step, the inner
  session's first.
  Deadlines are those of the SDK's own code: it sets none for `initialize` and
  `subscribe`, and whether the MCP or the HTTP library below would end such a call
  of its own accord is not considered.
* `entered` counts what the code is in and will close, `open` what really is
  open. They differ by `rejected`: `HubSession.open` in JavaScript neither closes
  the factory's client nor hands it over when its `initialize()` rejects
  (`session.ts:142`).
* `Deliver` is the notification handler; it may run as soon as the hub has
  carried out the subscription, before its answer is there.
* Configurations are functions from the fields to a few values that are absent,
  empty or set; `Resolve` keeps the difference of `or` and `??`.

### SendRetry

One message, its attempts, and the copies of it the hub stores. An attempt whose
success was not reported, be it by a time-out, a broken connection or an answer
that is an error of any kind (`Unreported`), was not carried out, was carried out,
or is carried out later (`Late`). `absent` records that an answer named the peer as
absent, whatever else its text matched.

### GoClient

`from[s]`, `at[s]` and `wire[s]` are the session id, the place and the received
events of a stream goroutine; `handle` stands for `sseCancel` and `sseDone`.
`pc` is the bridge's RPC goroutine that calls the methods in the order of the
README (`StopSSE`, `Initialize`, `Register`, `StartSSE`, `SubscribeInbox`, then
its select loop) and starts over when one fails. `Subscribed` is the hub carrying
out a subscription and `SubscribeInbox` its answer; a push may come between them.
`InitializeCutOff` is an `initialize` that opened a session and failed
behind it, with or without the session id taken from the header of the answer
(`postRPC` takes it before it looks at the status). This caller is environment: the
client itself takes calls in any order, and two goroutines that call `StopSSE`,
or RPCs concurrently, are outside the model as they are outside the SDK's
contract. `polls` says whether the bridge also polls.

### OversizeWarn and SseReader

`OversizeWarn` is the loop in `warnOversizedLine`, one step per load and per
compare-and-swap. `SseReader` feeds the same stream of lines to `runSSELoop` and
to `readFirstSSEData`, written separately in the code, and compares both with a
definition of the events of a stream. Its transition system has prefixed names
(`ReaderInit`, `ReaderNext`), because one module proves theorems about both.

## 3. Runs

| Run | Shows | Bounds |
|---|---|---|
| `PyInbox` | `OneDrainAtATime`, `InFlightIsExact`, `ReadWasShown`, `DispatchedOnce`, `YieldsInOrder`, the invariant of the proofs, the detailed inbox implements `InboxContract`; every message is served and a failed session ends the iterator, without any push being promised | 5 rows (text, one that does not parse, `/ping`, text, a body that is no string), queues of 1, one disturbance of any kind |
| `PyInbox_odd_rows` | violation, finding 2 | no disturbance |
| `CommandDispatch` | ack last and once, yielded means untouched, `ready` means restarted, `/help` lists exactly what works | every body, every table that can be built with handlers for `/job` and `/restart`, passthroughs for `/job` and `/ping` and the switches, at any time; three SDKs |
| `CommandDispatch_js_ready` | violation, finding 3 | JavaScript |
| `Connection` | everything opened is closed, one identity, registered inside the body, an announced message is served, `connect()` ends | both SDKs, 3 messages, a push queue of 1, three callers, three environments, 2 disturbances of any kind |
| `Connection_hung` | violation, finding 1 | Python, a hang |
| `JsInbox` | the promises of the contract on messages, no command left half-way, the invariant of the proofs, everything served unless the hub hangs, a dead session surfaces | 4 messages (text, one whose body is no string, command, text), buffer and push queue of 1, 2 disturbances of any kind, disposal included |
| `JsInbox_no_lock` | violation, finding 4 | no disturbance |
| `SendRetry` | copies bounded, budget used exactly, an absent peer ends it | up to 5 attempts |
| `GoClient` | one stream at a time on the current session, every message fetched by a bridge that polls, every received push followed by a fetch | 2 messages, 3 connections, 2 disturbances |
| `OversizeWarn` | warnings double, no doubling passed over, the invariant of the proofs | 3 readers, 5 lines, 5 sizes of which 4 are long |
| `SseReader` | no event lost, doubled or joined; the answer of an RPC is the first whole event | streams of up to 6 lines |

Why these bounds are enough to be interesting: with queues of one, two texts
overflow the output queue, and a further message in the hub's list distinguishes
order from membership; three drains that each hold a snapshot need no more
messages to be crossed. One push in the push queue fills it. The row that does
not parse is between others, so that leaving out more than it would be seen; the
row that ends the legacy drain is last, so that the others have their chance. One
disturbance of the Python inbox is enough for a failure at every await, and its
theorems hold for any number; two, in the other runs, whose state spaces allow
them, give the liveness properties a failure during the recovery from another. In `Connection` the second message is
announced while the worker is busy and the third finds the queue full; the
environments differ from the callers and from each other in every field that may
leak. Two messages and one signal slot in the Go bridge are enough for a push
during a fetch; a third connection is the one after two failed ones. Three
readers can lose a compare-and-swap to one and find the value of another. Six
lines hold two events with a blank line too many between them. The theorems are
free of all these bounds.

### Findings

1. `Connection_hung`: the deadline that "prevents a server that accepts the
   connection but never responds from pinning the bridge indefinitely"
   (`session.py:85`) covers neither `initialize` (`session.py:216`) nor
   `subscribe_resource` (`session.py:369`): a hub that hangs there keeps
   `connect()`, or the bridge behind it, waiting as far as the SDK is concerned, and
   no heartbeat runs yet.
2. `PyInbox_odd_rows`: a row whose body is `null` is not skipped by
   `parse_messages`, and the default drain raises on it on every connection.
3. `CommandDispatch_js_ready`: a restart handler that throws `null` gets both
   the warning and the `ready` reply.
4. `JsInbox_no_lock`: the inbox is not paused while a command runs: the push and
   the poll drain execute the same command, with nothing failing.

Also met while modelling, without a run of their own: a JavaScript client whose
`initialize()` rejects is closed by nobody (`session.ts:142`, the exception in
`NothingLeftOpen`); an ack that fails makes the next drain execute the command
again, though "the inbox iterator must not re-see this message"
(`commands.py:496`, `:558`; `DispatchedOnce` is stated with that exception); the
default `inbox()` is called equivalent to `commands=CommandRouter()`
(`session.py:441`) and answers only a bare `/ping`; "roughly 3 seconds of total
wait worst case" (`session.py:295`) leaves out the 30 seconds each attempt may
wait; `Initialize` of the Go client ignores a JSON-RPC error in its answer and
the status of `notifications/initialized` (`client.go:236`, `:249`, `:516`; the
step `InitializeRefused`); two readers may log their warnings in the other order
than they passed the limit.

### Fairness

* `PyInbox`: strong fairness of each drain, of the application's next step and of
  the end of a call, weak fairness of connecting and subscribing. asyncio resumes
  every ready coroutine in turn, sleeps end, `_call_tool` has a deadline, and the
  lock serves its waiters in turn; strong because other coroutines' synchronous
  sections, and their hold of the lock, disable a step again and again. Nothing
  is assumed of pushes, of late requests, nor of the heartbeat. That the
  application iterates, and reconnects when the inbox ends, is its README's duty.
  `Stuck` names what keeps messages from being served: findings 1 and 2.
* `JsInbox`: weak fairness of the same; no lock and no section outside a step
  disables anything. One condition covers the steps that begin and end a call,
  as these follow one another. A call on a hung hub never ends, hence the
  condition `health = "hung"` in `EveryMessageServed`.
* `EveryMessageServed` says `[]<>` of all that has arrived: as messages are
  finitely many and stay served, it implies that each one is served in the end,
  and a hang or a stop that was overcome excuses nothing.
* `Connection`: weak fairness of the application's own steps (`Work`), of the
  hub carrying out a subscription and of a push reaching the session while the
  hub is up. The application is one coroutine, so one condition covers it: what
  it awaits is answered or fails. A hung call without time-out is no step of
  `Work`. That a push is delivered is assumed only where a push is the premise:
  `AnnouncedIsServed` starts from one that has reached the session.
* `GoClient`: the Go scheduler runs every goroutine, requests and sleeps end.
* `CommandDispatch`, `SendRetry`, `OversizeWarn` and `SseReader` have no liveness
  property and no fairness: each dispatch, loop and stream takes a bounded number
  of steps by its shape, and a property of that would show nothing.
* Fairness never covers a disturbance by itself, so no liveness property counts
  on one; in `GoClient` and `Connection` failing and succeeding are one fair
  action.

## 4. Proofs

All groups are of the form `Spec => []Inv` through an inductive invariant, with
one lemma or step per action.

**`PyInboxProofs`** proves, for any number of messages, any bodies, any mode,
any capacities and disturbances, under `InboxAssumption` only:
`TypeOK`, `OneDrainAtATime`, `DispatchedOnce`, `ReadWasShown`,
`InFlightIsExact`, `YieldsInOrder` and the refinement `ImplementsContract`. None
of these is inductive. The invariant is
`TypeOK /\ LockInv /\ DrainInv /\ OwedInv /\ QueueInv /\ ShownInv /\ OrderInv`:

* `LockInv`: who may be draining - the startup drain before the loops exist,
  afterwards the holder of the lock. Without it two drains could hold snapshots.
* `DrainInv`: what a drain carries in which stage.
* `OwedInv`: a command that is owed an ack is being dispatched or has been read,
  so no later snapshot contains it; those still to be dispatched are owed none.
* `QueueInv`: the queue is increasing, above everything handed out, and the id
  set is exact.
* `ShownInv`: what is read, or may be by a late request, was shown.
* `OrderInv`: the messages this call may still enqueue come after all it has
  enqueued, and after those in the snapshot at hand, unless the queue is full and
  the rest of the batch will be dropped. This is what makes an overflow harmless:
  the queue cannot free a place during a batch, because the section is
  synchronous.

**`JsInboxProofs`** proves, for any number of messages, any mode, any capacities
and disturbances, under `InboxAssumption` only: `TypeOK`, `InFlightIsExact`,
`NoCommandAbandoned`, `YieldsInOrder` and the refinement `ImplementsContract`.
There is no lock to lean on, and snapshots are used long after they were taken.
The invariant is
`TypeOK /\ StageInv /\ DrainInv /\ OwedInv /\ QueueInv /\ OrderInv`:

* `StageInv`: the startup drain and the producers are never at work together, and
  no producer outlives its call. From it follows `NoCommandAbandoned`.
* `DrainInv`: what a drain carries in which stage.
* `OwedInv`: commands are dispatched by several drains at once, so the acks owed
  are counted: at least one for each drain that is dispatching the command, and
  exactly these as long as it is unread. It makes an ack that comes back always
  one that was owed.
* `QueueInv`: the buffer, errors left out, is increasing and above everything
  handed out, and the id set is exact.
* `OrderInv`: the messages that wait to be seen by this call come after all it
  has seen; of those, a drain's snapshot holds the oldest, for it once was the
  whole list; and what it holds that has been read meanwhile is in the id set.
  Hence a stale snapshot adds nothing out of order, whichever drain is first, and
  an overflow, which leaves out the newest, does not harm.

**`MessageOrderProofs`** has what these proofs share. That a nonempty set of
numbers has a least member comes from the well-foundedness of the strict subsets
of a finite set, and from that induction over the numbers for a set in the place
of a predicate (`CountingUp`). By this induction a set of messages can be listed
in order (`OrderExists`); `ArrivalOrder` and `OneOrder` say that the list has each
message once and is the only one, `OrderGrows` how it grows. `InArrivalOrder` is
defined for these proofs by what it returns: the library's sorting operators are
recursive or have no definition but TLC's.

**`CommandDispatchProofs`**, for any messages, any commands that are registered,
passed or cleared at any time, and each SDK, under `DispatchAssumption`:
`TypeOK`, `HandledIsAckedLast`, `YieldedIsUntouched`, `ReadyMeansRestarted` and
`HelpIsHonest`. `Shapes` lists what may be left to do; `AckInv`, `YieldInv` and
`ReadyInv` tie each of them to what was done and how user code ended - "ready" is
only ever due where the restart has succeeded, a rejection still to be formatted
means that nothing was said yet. `HelpTrue` needs of the invariant only that the
table is one, and compares two precedences case by case.

**`ConnectionProofs`**, for both SDKs, any arguments, environments, capacities and
disturbances: `TypeOK`, `NothingLeftOpen`, `OneIdentity`, `EnteredIsVisible`. The
code counts nothing, so which contexts are entered must follow from the await the
application is in: `EnteredInv` says how, `ConfInv` that a Config stays what
`connect()` resolved.

**`GoClientProofs`**, for any number of messages, connections and disturbances,
under `ClientAssumption`: `TypeOK` and `OneStreamPerSession`. `StreamInv` follows
the bridge's goroutine from `StopSSE`, which cancels the stream and waits for it,
to `StartSSE`, which finds none; `StartInv` says that a goroutine is left to start
and was not cancelled before; `WireInv` that the callbacks under way are fewer
than the pushes, which only the order of the pushes on a stream shows.

**`GoReadersProofs`**, on `OversizeWarn`, for any set of readers, any sizes and
any number of lines: `WarnsDouble` and `WorseningReported`. `LastWarned` ties the
shared value to the last warning, `ReadersKnow` what a reader learnt before its
swap, and `WorstInHand` says that the longest line is either covered by the last
warning or in the hands of a reader that has not compared it - which is why a
reader that loses the race must go round the loop.

On `SseReader`, for streams of any length: `EachEventOnce`, `AnswerIsFirstEvent`
and `NoAnswerIgnored`. Two lemmas say how the definition of a stream's events
changes with a line (`EventsGrow`: only a blank line ends an event, any other
joins the rest) and with its end (`EventsClosed`: the rest, if there is one, is
one event more). Then `OpenInv` suffices: `runSSELoop` holds the rest, and
`readFirstSSEData` holds the same until it has its answer, and has seen no event.

**`SendRetryProofs`**, for any budget and base delay, under `SendAssumption`:
`TypeOK`, `CopiesBounded`, `AbsentPeerEndsIt` from `Running` (an attempt that is
running is within the budget and has neither result nor absent peer behind it),
and `BudgetUsedExactly` from `SleepInv`, which gives the sum of the delays while
attempts are left. That `2 ^ (n + 1)` is twice `2 ^ n` is no fact the provers
know; `PowerDoubles` gets it by counting the subsets of `1 .. n + 1`, those
without its last element and those with it.

Only model-checked: liveness, that is `EveryMessageServed` and
`FailedSessionNoticed` of both inboxes, `EveryMessageFetched` and
`PushesAreFetched` of the Go client, `AnnouncedIsServed` and `ConnectEnds`; the
prover has neither ENABLED nor fairness. The findings are violations TLC shows.

## 5. Not modelled, and why

* Exports and type declarations; `set_status`, `get_participants`,
  `_call_tool_raw` and the Go `GetThread`: sequential, one request or one
  assignment, no state another part depends on.
* Formats of messages, participants and threads: pure decoding. Which rows
  survive it, the one thing that matters to the inbox, is modelled.
* Transports below the SDK (MCP libraries, HTTP): external; modelled by what a
  call can do (answer, fail, hang, be carried out late). This includes what the
  MCP client does with an exception of the notification handler.
* An exception while a context is being closed: the libraries' exits are taken
  to return.
* Abort listeners that accumulate in `sleepOrAbort` (JavaScript): memory, no
  behaviour.
* The use of one Go client from several goroutines: outside what the SDK
  documents.

## 6. Plan

Done: the inventory, both inboxes and their contract, the routers with their
set-up, connections and configuration, retries, the Go client's connection and
its two algorithms, and the proofs above.

1. *Composition.* `Connection` with `inbox()` in the place of the stateless
   worker, so that the inbox modules' `Connect` becomes a refinement of it.
2. *Concurrent callers* of the Go client's methods (`StopSSE` from two
   goroutines), as far as the code defines their effect.
3. *Weaker environments*: the theorems of `GoClientProofs` for a caller that does
   not follow the README of the Go SDK, with what then still holds.

New questions join the existing runs where their instances fit, so that the number
of runs stays small.

## 7. How to run

    tlc -config PyInbox.cfg MCPyInbox.tla
    tlapm PyInboxProofs.tla

and likewise for the other rows of the table (`MC` modules where there is one).
The longest run is `JsInbox` (360,596 states, about two and a half minutes).
