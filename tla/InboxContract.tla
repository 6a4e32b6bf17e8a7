--------------------------- MODULE InboxContract ---------------------------
(***************************************************************************)
(* What an inbox promises its application, whatever tasks, queues and      *)
(* locks it is built from:                                                 *)
(*   - the messages one inbox() call hands to the application are new to   *)
(*     that call, and come in the order the hub lists them;                *)
(*   - a message is marked as read only after it was handed to the         *)
(*     application or executed as a command: none is lost unseen;          *)
(*   - one dispatch of a command is followed by another only when the      *)
(*     acknowledgement of the first did not come back.                     *)
(* PyInbox implements it; JsInbox, whose drains take no lock, implements   *)
(* it without the third promise.                                           *)
(***************************************************************************)
EXTENDS Naturals

CONSTANTS
  MaxMsg,     \* messages the hub can receive, in arrival order
  Serial      \* is the third promise kept: only Python's inbox does

VARIABLES
  sent,       \* number of messages that have arrived at the hub
  read,       \* messages the hub has marked as read
  cur,        \* the message the application works on, 0 if none
  given,      \* messages handed to the application by the current call
  shown,      \* messages ever handed to the application or executed
  owed        \* [m]: dispatches of m minus acknowledgements that failed

vars == <<sent, read, cur, given, shown, owed>>

Msg == 1 .. MaxMsg

Init ==
  /\ sent = 0
  /\ read = {}
  /\ cur = 0
  /\ given = {}
  /\ shown = {}
  /\ owed = [m \in Msg |-> 0]

\* A message reaches the hub.
Arrive ==
  /\ sent < MaxMsg
  /\ sent' = sent + 1
  /\ UNCHANGED <<read, cur, given, shown, owed>>

\* The application gets m from its iterator.
Yield(m) ==
  /\ m \in 1 .. sent
  /\ \A k \in given : k < m
  /\ cur' = m
  /\ given' = given \cup {m}
  /\ shown' = shown \cup {m}
  /\ UNCHANGED <<sent, read, owed>>

\* It may be done with its message in any of the following steps.
MayFinish == cur' \in {cur, 0}

Finish ==
  /\ MayFinish
  /\ UNCHANGED <<sent, read, given, shown, owed>>

\* m is executed as a command on the application's behalf.
Execute(m) ==
  /\ m \in 1 .. sent
  /\ Serial => owed[m] = 0
  /\ owed' = [owed EXCEPT ![m] = @ + 1]
  /\ shown' = shown \cup {m}
  /\ UNCHANGED <<sent, read, cur, given>>

\* The acknowledgement of an executed command fails: it may run again.
Excuse(m) ==
  /\ owed[m] > 0
  /\ owed' = [owed EXCEPT ![m] = @ - 1]
  /\ MayFinish
  /\ UNCHANGED <<sent, read, given, shown>>

\* The hub marks a message as read.
MarkRead(m) ==
  /\ m \in shown
  /\ read' = read \cup {m}
  /\ MayFinish
  /\ UNCHANGED <<sent, given, shown, owed>>

\* The application starts another inbox() call.
NewCall ==
  /\ given' = {}
  /\ UNCHANGED <<sent, read, cur, shown, owed>>

Next ==
  \/ Arrive \/ Finish \/ NewCall
  \/ \E m \in Msg : Yield(m) \/ Execute(m) \/ Excuse(m) \/ MarkRead(m)

Spec == Init /\ [][Next]_vars

============================================================================
