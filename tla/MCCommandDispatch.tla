------------------------- MODULE MCCommandDispatch -------------------------
(***************************************************************************)
(* Small instances of CommandDispatch: every body, and the tables a bridge *)
(* can build with handlers and passthroughs that override each other and   *)
(* the built-ins.                                                          *)
(***************************************************************************)
EXTENDS CommandDispatch

\* A command of the bridge's own, and a built-in it overrides.
SomeHandled == {"/job", "/restart"}

\* A command that may have a handler as well, and a built-in.
SomePassed == {"/job", "/ping"}

============================================================================
