--------------------------- MODULE CommandRouter ---------------------------
(***************************************************************************)
(* What becomes of one inbox message: the routing decision of the Python   *)
(* and JavaScript SDKs, as functions of the message body.  The drains of   *)
(* the inbox (PyInbox, JsInbox) apply it to every unread message.          *)
(*                                                                         *)
(* A body is reduced to what routing looks at: the command token its first *)
(* word is (NoCmd for an ordinary text), whether that token stands alone,  *)
(* and whether the hub sent a string at all.                               *)
(***************************************************************************)

NoCmd == "none"

\* Commands with a built-in single reply (commands.py _BUILTIN_HANDLERS).
Builtin == {"/ping", "/status", "/help"}

\* The built-ins /help knows of (_BUILTIN_NAMES): /restart is dispatched apart.
BuiltinNames == Builtin \cup {"/restart"}

\* /job stands for a command a bridge may register, /foo for any other.
Token == BuiltinNames \cup {"/job", "/foo"}

Text(s, b) == [cmd |-> s, bare |-> b, string |-> TRUE]

\* A JSON body that is not a string (null, a number): no command, no strip().
NonString == [cmd |-> NoCmd, bare |-> FALSE, string |-> FALSE]

Body == {Text(NoCmd, FALSE), NonString}
          \cup {Text(t, b) : t \in Token, b \in BOOLEAN}

\* A row of get_messages that is no object or lacks a key.
Malformed == [cmd |-> "malformed", bare |-> FALSE, string |-> FALSE]

Row == Body \cup {Malformed}

\* parse_messages, parseMessages: the rows that are not left out.  Only
\* JavaScript also leaves out those with a value that is not a string.
Parsed(lang, row) == row # Malformed /\ (lang = "js" => row.string)

\* The dispatch table a bridge builds with command(), passthrough() and the
\* constructor's keyword arguments.
Router == [handlers    : SUBSET Token,
           builtins    : BOOLEAN,
           passthrough : SUBSET Token,
           unknown     : {"reject", "yield"}]

\* CommandRouter(): no handler registered, built-ins on, unknown="reject".
DefaultRouter ==
  [handlers |-> {}, builtins |-> TRUE, passthrough |-> {}, unknown |-> "reject"]

----------------------------------------------------------------------------

\* The first of the dispatch steps that applies names how a body is treated.
Route(r, body) ==
  IF body.cmd = NoCmd THEN "text"
  ELSE IF body.cmd \in r.handlers THEN "handler"
  ELSE IF r.builtins /\ body.cmd = "/restart" THEN "restart"
  ELSE IF r.builtins /\ body.cmd \in Builtin THEN "builtin"
  ELSE IF body.cmd \in r.passthrough THEN "passthrough"
  ELSE IF r.unknown = "reject" THEN "reject"
  ELSE "unknown"

\* CommandRouter.dispatch: "handled" messages are replied to and acked by the
\* SDK and never reach the consumer; "yield" leaves both to the consumer.
Dispatch(r, body) ==
  IF Route(r, body) \in {"text", "passthrough", "unknown"}
  THEN "yield" ELSE "handled"

\* The text of /help (_generate_help_text, generateHelp): the built-ins, the
\* handlers, the passthroughs; a built-in with a handler of its own is left to
\* the second block, and no block repeats a name of an earlier one.
HelpBuiltins(r) == IF r.builtins THEN BuiltinNames \ r.handlers ELSE {}

HelpHandlers(r) == r.handlers \ HelpBuiltins(r)

\* (slip) Names that were emitted before are not looked at.
AllPassthroughs(r) == r.passthrough

HelpPassthroughs(r) == r.passthrough \ (HelpBuiltins(r) \cup HelpHandlers(r))

\* The legacy drain (commands=None): only a bare /ping is answered, and the
\* body is strip()ped outside any try, so a non-string body escapes as an
\* exception of the whole drain.
DispatchLegacy(autoPong, body) ==
  CASE ~autoPong                          -> "yield"
    [] autoPong /\ ~body.string           -> "crash"
    [] autoPong /\ body.cmd = "/ping" /\ body.bare -> "handled"
    [] OTHER                              -> "yield"

\* inbox(commands=..., auto_pong=...): the drain is chosen once per call.
\* An explicit router always wins over auto_pong.  unfillable: the commands with
\* which Python's reject_format.format(cmd=cmd) raises.
InboxMode == [commands : Router, legacy : {FALSE}, autoPong : BOOLEAN,
              unfillable : SUBSET Token]
               \cup [commands : {DefaultRouter}, legacy : {TRUE},
                     autoPong : BOOLEAN, unfillable : {{}}]

\* dispatch() raises before it has replied or acked; the drain then keeps the
\* message for the application.
Escapes(lang, mode, body) ==
  /\ lang = "py"
  /\ Route(mode.commands, body) = "reject"
  /\ body.cmd \in mode.unfillable

\* What a drain does with a row.
Disposition(lang, mode, row) ==
  IF ~Parsed(lang, row) THEN "skip"
  ELSE IF mode.legacy THEN DispatchLegacy(mode.autoPong, row)
  ELSE IF Escapes(lang, mode, row) THEN "yield"
  ELSE Dispatch(mode.commands, row)

============================================================================
