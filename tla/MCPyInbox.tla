----------------------------- MODULE MCPyInbox -----------------------------
(***************************************************************************)
(* Small instances of PyInbox: what the messages say and how inbox() is    *)
(* called.                                                                 *)
(***************************************************************************)
EXTENDS PyInboxInv

\* inbox(): the legacy drain with auto_pong, the default of every bridge.
LegacyMode ==
  [commands |-> DefaultRouter, legacy |-> TRUE, autoPong |-> TRUE, unfillable |-> {}]

\* A ping, a message whose body is not a string, a text.
WithNonString == <<Text("/ping", TRUE), NonString, Text(NoCmd, FALSE)>>

\* A text, a row that does not parse, a ping, a text, and only then the message
\* whose body is not a string.
OddRowLast ==
  <<Text(NoCmd, FALSE), Malformed, Text("/ping", TRUE), Text(NoCmd, FALSE), NonString>>

============================================================================
