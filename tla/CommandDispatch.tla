-------------------------- MODULE CommandDispatch --------------------------
(***************************************************************************)
(* The execution of one inbox message by CommandRouter: dispatch() and its *)
(* helpers in Python and JavaScript, Handle() in Go.  PyInbox and JsInbox  *)
(* compress it into their Run and Ack steps; here every await is a step,   *)
(* each call may fail, handlers may raise, Python may cancel the task at   *)
(* any of them, and the bridge may change its table meanwhile.             *)
(*                                                                         *)
(* A dispatch is a list of steps still to be done (todo) and the list of   *)
(* those done (log): replies by what they say, "ack", and the calls of     *)
(* user code "handler" and "restart".                                      *)
(***************************************************************************)
EXTENDS Sequences, Naturals, FiniteSets, CommandRouter

CONSTANTS
  Langs,     \* the SDKs: "py", "js", "go"
  Bodies,    \* messages that may come
  Handled,   \* commands the bridge may register a handler for
  Passed     \* commands it may mark as passthrough

ASSUME DispatchAssumption ==
  /\ Langs \subseteq {"py", "js", "go"}
  /\ Bodies \subseteq Body
  /\ Handled \subseteq Token
  /\ Passed \subseteq Token

VARIABLES
  lang,           \* the SDK the bridge is built on
  body, router,   \* the message and the table
  restartable,    \* is a restart handler set
  todo,           \* steps still to be done
  log,            \* steps done
  outcome,        \* what the user's code did: "none" before it ran
  result          \* what dispatch returned: "none" while it runs

vars == <<lang, body, router, restartable, todo, log, outcome, result>>
table == <<router, restartable>>
input == <<lang, body, table>>

Replies == {"answer", "rejection", "warning", "restarting...", "ready"}

\* What user code may do: return a text (a restart handler's is ignored) or
\* nothing, raise, or in JavaScript throw null.  A restart handler that was
\* cleared behind "restarting..." is called all the same, and raises.
Outcomes(code) ==
  IF code = "restart" /\ ~restartable THEN {"raises"}
  ELSE {"nothing", "raises"} \cup (IF code = "handler" THEN {"text"} ELSE {})
                             \cup (IF lang = "js" THEN {"null"} ELSE {})

TypeOK ==
  /\ lang \in Langs
  /\ body \in Bodies /\ router \in Router /\ restartable \in BOOLEAN
  /\ todo \in Seq(Replies \cup {"handler", "restart", "builtin", "format", "ack"})
  /\ log \in Seq(Replies \cup {"handler", "restart", "ack"})
  /\ outcome \in {"none", "text", "nothing", "raises", "null"}
  /\ result \in {"none", "handled", "yield", "cancelled"}

----------------------------------------------------------------------------

\* _run_restart: ack only without a handler; else accept, restart, report, ack.
RestartScript(canRestart) ==
  IF canRestart THEN <<"restarting...", "restart", "ack">> ELSE <<"ack">>

\* (slip) Ack first, so that nothing can prevent it.
AckFirst(route, canRestart) ==
  <<"ack">> \o CASE route = "handler" -> <<"handler">>
                 [] route = "restart" -> <<"restarting...", "restart">>
                 [] route = "builtin" -> <<"builtin">>
                 [] route = "reject"  -> <<"format", "rejection">>

\* The steps dispatch() enters, by the route it takes.  Only Python's reject
\* template (str.format) can raise.
Script(route, canRestart) ==
  CASE route = "handler" -> <<"handler", "ack">>
    [] route = "restart" -> RestartScript(canRestart)
    [] route = "builtin" -> <<"builtin", "ack">>
    [] route = "reject"  -> (IF lang = "py" THEN <<"format">> ELSE <<>>)
                              \o <<"rejection", "ack">>

\* (slip) What is left to the application is acked all the same.
AckYielded(b) ==
  LET route == Route(router, b) IN
    IF route \in {"text", "passthrough", "unknown"}
    THEN [todo |-> <<"ack">>, result |-> "yield"]
    ELSE [todo |-> Script(route, restartable), result |-> "none"]

Start(b) ==
  LET route == Route(router, b) IN
    IF route \in {"text", "passthrough", "unknown"}
    THEN [todo |-> <<>>, result |-> "yield"]
    ELSE [todo |-> Script(route, restartable), result |-> "none"]

\* (slip) ready follows the warning of a failed restart.
AlwaysReady(code, o) ==
  (IF o = "raises" THEN <<"warning">> ELSE <<>>)
    \o (IF code = "restart" THEN <<"ready">> ELSE <<>>)

\* (slip) What the handler returned is sent, whatever it is.
SendAnything(code, o) == <<o>>

\* The replies that user code's outcome calls for.  In JavaScript the restart
\* handler's error is kept in a variable whose initial value is null.
Report(code, o) ==
  CASE o = "null" /\ code = "restart"                   -> <<"warning", "ready">>
    [] o = "raises" \/ (o = "null" /\ code = "handler") -> <<"warning">>
    [] o \in {"nothing", "text"} /\ code = "restart"    -> <<"ready">>
    [] o = "text" /\ code = "handler"                   -> <<"answer">>
    [] OTHER                                            -> <<>>

\* Go's table always has its built-ins and rejects what it does not know.
Buildable(r) == lang = "go" => r.builtins /\ r.unknown = "reject"

\* CommandRouter(builtins, unknown), NewCommandRouter()
Init ==
  /\ lang \in Langs /\ body \in Bodies /\ restartable = FALSE
  /\ \E b \in BOOLEAN, u \in {"reject", "yield"} :
       router = [DefaultRouter EXCEPT !.builtins = b, !.unknown = u]
  /\ Buildable(router)
  /\ outcome = "none"
  /\ log = <<>>
  /\ todo = Start(body).todo
  /\ result = Start(body).result

----------------------------------------------------------------------------
\* The bridge builds its table, in Python and JavaScript also while a dispatch
\* awaits something; a Go router belongs to one goroutine.

MaySetUp == lang = "go" => result # "none"

\* command(), Register
RegisterHandler ==
  /\ MaySetUp
  /\ \E t \in Handled : router' = [router EXCEPT !.handlers = @ \cup {t}]
  /\ UNCHANGED <<lang, body, restartable, todo, log, outcome, result>>

\* passthrough()
MarkPassthrough ==
  /\ lang # "go"
  /\ \E t \in Passed : router' = [router EXCEPT !.passthrough = @ \cup {t}]
  /\ UNCHANGED <<lang, body, restartable, todo, log, outcome, result>>

\* set_restart_handler(): a callback, or None to clear it.
SetRestartHandler ==
  /\ MaySetUp
  /\ restartable' \in BOOLEAN
  /\ UNCHANGED <<lang, body, router, todo, log, outcome, result>>

----------------------------------------------------------------------------
\* One dispatch

\* A reply is sent, or its failure is logged: the dispatch goes on.
Reply ==
  /\ todo # <<>>
  /\ Head(todo) \in Replies
  /\ log' = Append(log, Head(todo))
  /\ todo' = Tail(todo)
  /\ UNCHANGED <<input, outcome, result>>

\* A registered handler or the restart handler runs and returns or raises.
UserCode ==
  /\ todo # <<>>
  /\ Head(todo) \in {"handler", "restart"}
  /\ \E o \in Outcomes(Head(todo)) :
       /\ outcome' = o
       /\ todo' = Report(Head(todo), o) \o Tail(todo)
  /\ log' = Append(log, Head(todo))
  /\ UNCHANGED <<input, result>>

\* A built-in gives its answer, or none (a status that is no text, or empty in
\* Go), or raises, which Python and JavaScript report.
RunBuiltin ==
  /\ todo # <<>>
  /\ Head(todo) = "builtin"
  /\ \/ todo' = <<"answer">> \o Tail(todo)
     \/ todo' = Tail(todo)
     \/ lang # "go" /\ todo' = <<"warning">> \o Tail(todo)
  /\ UNCHANGED <<input, log, outcome, result>>

\* reject_format.format(cmd=cmd).  If the template is bad, the exception leaves
\* dispatch(), and the drain hands the message to the application instead.
Format ==
  /\ todo # <<>>
  /\ Head(todo) = "format"
  /\ \/ todo' = Tail(todo) /\ UNCHANGED result
     \/ todo' = <<>> /\ result' = "yield"
  /\ UNCHANGED <<input, log, outcome>>

\* mark_as_read is called; its failure is logged.
Ack ==
  /\ todo # <<>>
  /\ Head(todo) = "ack"
  /\ log' = Append(log, "ack")
  /\ todo' = Tail(todo)
  /\ UNCHANGED <<input, outcome, result>>

\* Nothing is left to do.
Return ==
  /\ result = "none"
  /\ todo = <<>>
  /\ result' = "handled"
  /\ UNCHANGED <<input, todo, log, outcome>>

\* The inbox ends while its drain awaits something: CancelledError is not an
\* Exception, no handler of dispatch() catches it.
Cancel ==
  /\ lang = "py"
  /\ result = "none"
  /\ todo' = <<>>
  /\ result' = "cancelled"
  /\ UNCHANGED <<input, log, outcome>>

\* The next message, once this dispatch is over.
NextMessage ==
  /\ result # "none"
  /\ body' \in Bodies
  /\ UNCHANGED <<lang, router, restartable>>
  /\ outcome' = "none"
  /\ log' = <<>>
  /\ todo' = Start(body').todo
  /\ result' = Start(body').result

SetUp == RegisterHandler \/ MarkPassthrough \/ SetRestartHandler

Next ==
  \/ SetUp
  \/ Reply \/ UserCode \/ RunBuiltin \/ Format \/ Ack
  \/ Return \/ Cancel \/ NextMessage

Spec == Init /\ [][Next]_vars

----------------------------------------------------------------------------
\* Properties

Done(step) == \E i \in 1 .. Len(log) : log[i] = step

\* A handled message was acked, exactly once and as the last thing: whoever
\* waits for the reply cannot see the command redelivered after it was acked.
HandledIsAckedLast ==
  /\ result = "handled" => Done("ack")
  /\ \A i \in 1 .. Len(log) : log[i] = "ack" => i = Len(log)

\* A message left to the application got no reply and no ack from the SDK.
YieldedIsUntouched == result = "yield" => log = <<>>

\* "ready" is said only after "restarting..." and a restart handler that
\* succeeded, whichever of them fails or is cut off; a thrown null apart.
ReadyMeansRestarted ==
  Done("ready") =>
    /\ outcome \in {"nothing", "null"}
    /\ Done("restart") /\ Done("restarting...")
    /\ Done("warning") => outcome = "null"

\* /help tells the truth, and once: it lists exactly the commands that dispatch()
\* answers or passes on as known, whichever handlers, passthroughs and switches
\* override each other.  Each of the two decides that precedence for itself.
HelpIsHonest ==
  \A t \in Token :
    LET blocks == <<HelpBuiltins(router), HelpHandlers(router), HelpPassthroughs(router)>>
        known == Route(router, Text(t, TRUE)) \notin {"reject", "unknown"}
    IN  Cardinality({i \in 1 .. 3 : t \in blocks[i]}) = IF known THEN 1 ELSE 0

----------------------------------------------------------------------------
\* What the documentation says and the code does not do

\* commands.ts _runRestart: "Done reply - sent only on handler success".  A
\* handler that throws null gets the warning and "ready".
ReadyOnlyOnSuccess == Done("ready") => ~Done("warning")

============================================================================
