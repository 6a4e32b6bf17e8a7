----------------------------- MODULE MCJsInbox -----------------------------
(***************************************************************************)
(* Small instances of JsInbox: what the messages say and how inbox() is    *)
(* called.                                                                 *)
(***************************************************************************)
EXTENDS JsInboxInv

\* inbox({ commands: router }) with a handler for /job.
JobMode ==
  [commands |-> [DefaultRouter EXCEPT !.handlers = {"/job"}],
   legacy |-> FALSE, autoPong |-> TRUE, unfillable |-> {}]

\* A text, a message whose body is no string, a command, a text.
Mixed == <<Text(NoCmd, FALSE), NonString, Text("/job", FALSE), Text(NoCmd, FALSE)>>

============================================================================
