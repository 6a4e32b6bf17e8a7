----------------------- MODULE CommandDispatchProofs -----------------------
(***************************************************************************)
(* What a dispatch promises, for any messages and any table a bridge can   *)
(* build, changed at any time, in any of the three SDKs.                   *)
(***************************************************************************)
EXTENDS CommandDispatch, FiniteSetTheorems, SequenceTheorems, TLAPS

\* The steps that may still be to do.
Shapes ==
  {<<>>, <<"ack">>, <<"handler", "ack">>, <<"builtin", "ack">>, <<"answer", "ack">>,
   <<"warning", "ack">>, <<"restarting...", "restart", "ack">>,
   <<"restart", "ack">>, <<"ready", "ack">>, <<"warning", "ready", "ack">>,
   <<"format", "rejection", "ack">>, <<"rejection", "ack">>}

\* The ack is the last thing done, and done if nothing else is left.
AckInv ==
  /\ \A i \in 1 .. Len(log) : log[i] = "ack" => i = Len(log)
  /\ todo # <<>> => ~Done("ack")
  /\ todo = <<>> /\ result \in {"none", "handled"} => Done("ack")

\* What is left to the application is as it came.
YieldInv ==
  /\ result # "none" => todo = <<>>
  /\ result = "yield" => log = <<>>
  /\ todo = <<"format", "rejection", "ack">> => log = <<>>

\* What has happened before "ready" can be said, or is.
ReadyInv ==
  /\ todo \in {<<"restarting...", "restart", "ack">>, <<"handler", "ack">>} => log = <<>>
  /\ todo = <<"restart", "ack">> => Done("restarting...") /\ ~Done("warning")
  /\ Done("ready") \/ todo \in {<<"ready", "ack">>, <<"warning", "ready", "ack">>} =>
       outcome \in {"nothing", "null"} /\ Done("restart") /\ Done("restarting...")
  /\ todo = <<"warning", "ready", "ack">> => outcome = "null"
  /\ Done("warning") /\ (Done("ready") \/ todo = <<"ready", "ack">>) => outcome = "null"
  /\ Done("ready") => todo \in {<<>>, <<"ack">>}

DispatchInv == TypeOK /\ todo \in Shapes /\ AckInv /\ YieldInv /\ ReadyInv

----------------------------------------------------------------------------
\* Sequences

LogStep == Replies \cup {"handler", "restart", "ack"}

\* One more step done.
LEMMA Appended ==
  ASSUME log \in Seq(LogStep), NEW x \in LogStep, log' = Append(log, x)
  PROVE  /\ log' \in Seq(LogStep)
         /\ \A s : Done(s)' <=> Done(s) \/ s = x
         /\ ~Done("ack") => \A i \in 1 .. Len(log') : log'[i] = "ack" => i = Len(log')
<1>1. /\ log' \in Seq(LogStep)
      /\ Len(log) \in Nat /\ Len(log') = Len(log) + 1
      /\ \A i \in 1 .. Len(log) : log'[i] = log[i]
      /\ log'[Len(log) + 1] = x
  OBVIOUS
<1>2. \A s : Done(s)' <=> Done(s) \/ s = x
  BY <1>1 DEF Done
<1>3. ~Done("ack") => \A i \in 1 .. Len(log') : log'[i] = "ack" => i = Len(log')
  BY <1>1 DEF Done
<1>. QED BY <1>1, <1>2, <1>3

\* What is first in each list of steps, and what behind it.
LEMMA HeadAndTail ==
  /\ Head(<<"ack">>) = "ack" /\ Tail(<<"ack">>) = <<>>
  /\ \A x, y : Head(<<x, y>>) = x /\ Tail(<<x, y>>) = <<y>>
  /\ \A x, y, z : Head(<<x, y, z>>) = x /\ Tail(<<x, y, z>>) = <<y, z>>
OBVIOUS

\* Each list of steps is known by its first one, up to "warning" and "rejection".
LEMMA ByHead ==
  ASSUME NEW s \in Shapes, s # <<>>
  PROVE  \/ s = <<"ack">> /\ Head(s) = "ack" /\ Tail(s) = <<>>
         \/ \E x \in {"handler", "builtin", "answer", "warning", "restart", "ready", "rejection"} :
              s = <<x, "ack">> /\ Head(s) = x /\ Tail(s) = <<"ack">>
         \/ /\ s = <<"restarting...", "restart", "ack">>
            /\ Head(s) = "restarting..." /\ Tail(s) = <<"restart", "ack">>
         \/ /\ s = <<"warning", "ready", "ack">>
            /\ Head(s) = "warning" /\ Tail(s) = <<"ready", "ack">>
         \/ /\ s = <<"format", "rejection", "ack">>
            /\ Head(s) = "format" /\ Tail(s) = <<"rejection", "ack">>
<1>1. CASE s = <<"ack">>
  BY <1>1, HeadAndTail
<1>2. ASSUME NEW x \in {"handler", "builtin", "answer", "warning", "restart", "ready", "rejection"},
             s = <<x, "ack">>
      PROVE  Head(s) = x /\ Tail(s) = <<"ack">>
  BY <1>2, HeadAndTail
<1>3. CASE s = <<"restarting...", "restart", "ack">>
  BY <1>3, HeadAndTail
<1>4. CASE s = <<"warning", "ready", "ack">>
  BY <1>4, HeadAndTail
<1>5. CASE s = <<"format", "rejection", "ack">>
  BY <1>5, HeadAndTail
<1>. QED BY <1>1, <1>2, <1>3, <1>4, <1>5 DEF Shapes

\* Replies put before what is left.
LEMMA OneBeforeOne ==
  ASSUME NEW x, NEW y
  PROVE  <<x>> \o <<y>> = <<x, y>>
<1>. DEFINE S == {x, y}
<1>1. <<x>> \in Seq(S) /\ <<y>> \in Seq(S) /\ <<x, y>> \in Seq(S)
  OBVIOUS
<1>2. /\ <<x>> \o <<y>> \in Seq(S) /\ Len(<<x>> \o <<y>>) = 2
      /\ \A i \in 1 .. 2 : (<<x>> \o <<y>>)[i] = IF i <= 1 THEN <<x>>[i] ELSE <<y>>[i - 1]
  BY <1>1, ConcatProperties
<1>3. \A i \in 1 .. 2 : (<<x>> \o <<y>>)[i] = <<x, y>>[i]
  BY <1>2
<1>. QED BY <1>1, <1>2, <1>3, SeqEqual

LEMMA OneBeforeTwo ==
  ASSUME NEW x, NEW y, NEW z
  PROVE  <<x>> \o <<y, z>> = <<x, y, z>>
<1>. DEFINE S == {x, y, z}
<1>1. <<x>> \in Seq(S) /\ <<y, z>> \in Seq(S) /\ <<x, y, z>> \in Seq(S)
  OBVIOUS
<1>2. /\ <<x>> \o <<y, z>> \in Seq(S) /\ Len(<<x>> \o <<y, z>>) = 3
      /\ \A i \in 1 .. 3 :
           (<<x>> \o <<y, z>>)[i] = IF i <= 1 THEN <<x>>[i] ELSE <<y, z>>[i - 1]
  BY <1>1, ConcatProperties
<1>3. \A i \in 1 .. 3 : (<<x>> \o <<y, z>>)[i] = <<x, y, z>>[i]
  BY <1>2
<1>. QED BY <1>1, <1>2, <1>3, SeqEqual

LEMMA TwoBeforeOne ==
  ASSUME NEW x, NEW y, NEW z
  PROVE  <<x, y>> \o <<z>> = <<x, y, z>>
<1>. DEFINE S == {x, y, z}
<1>1. <<x, y>> \in Seq(S) /\ <<z>> \in Seq(S) /\ <<x, y, z>> \in Seq(S)
  OBVIOUS
<1>2. /\ <<x, y>> \o <<z>> \in Seq(S) /\ Len(<<x, y>> \o <<z>>) = 3
      /\ \A i \in 1 .. 3 :
           (<<x, y>> \o <<z>>)[i] = IF i <= 2 THEN <<x, y>>[i] ELSE <<z>>[i - 2]
  BY <1>1, ConcatProperties
<1>3. \A i \in 1 .. 3 : (<<x, y>> \o <<z>>)[i] = <<x, y, z>>[i]
  BY <1>2
<1>. QED BY <1>1, <1>2, <1>3, SeqEqual

LEMMA NoneBefore == \A x, y : <<>> \o <<x>> = <<x>> /\ <<>> \o <<x, y>> = <<x, y>>
OBVIOUS

\* The lists of the shapes are lists of steps.
LEMMA ShapesTyped == Shapes \subseteq Seq(LogStep \cup {"builtin", "format"})
<1>. DEFINE S == LogStep \cup {"builtin", "format"}
<1>1. /\ \A x \in S : <<x>> \in Seq(S)
      /\ \A x, y \in S : <<x, y>> \in Seq(S)
      /\ \A x, y, z \in S : <<x, y, z>> \in Seq(S)
      /\ <<>> \in Seq(S)
  OBVIOUS
<1>2. {"ack", "handler", "builtin", "answer", "warning", "restarting...", "restart",
       "ready", "format", "rejection"} \subseteq S
  BY DEF LogStep, Replies
<1>. HIDE DEF S
<1>3. Shapes \subseteq Seq(S)
  BY <1>1, <1>2 DEF Shapes
<1>. QED BY <1>3 DEF S

----------------------------------------------------------------------------
\* What dispatch() starts, and what user code's outcome adds

LEMMA Started ==
  ASSUME NEW b
  PROVE  /\ Start(b).result \in {"none", "yield"}
         /\ Start(b).todo \in
              {<<>>, <<"ack">>, <<"handler", "ack">>, <<"builtin", "ack">>,
               <<"restarting...", "restart", "ack">>, <<"rejection", "ack">>,
               <<"format", "rejection", "ack">>}
         /\ Start(b).result = "yield" <=> Start(b).todo = <<>>
<1>. DEFINE route == Route(router, b)
<1>1. route \in {"text", "handler", "restart", "builtin", "passthrough", "reject", "unknown"}
  BY DEF Route
<1>2. <<"format">> \o <<"rejection", "ack">> = <<"format", "rejection", "ack">>
  BY OneBeforeTwo
<1>3. CASE route \in {"text", "passthrough", "unknown"}
  BY <1>3 DEF Start
<1>4. CASE route \in {"handler", "restart", "builtin", "reject"}
  <2>1. /\ Start(b).result = "none" /\ Start(b).todo = Script(route, restartable)
    BY <1>4 DEF Start
  <2>2. Script(route, restartable) \in
              {<<"ack">>, <<"handler", "ack">>, <<"builtin", "ack">>,
               <<"restarting...", "restart", "ack">>, <<"rejection", "ack">>,
               <<"format", "rejection", "ack">>}
    BY <1>2, <1>4, NoneBefore DEF Script, RestartScript
  <2>. QED BY <2>1, <2>2
<1>. QED BY <1>1, <1>3, <1>4

LEMMA Reported ==
  ASSUME NEW o \in {"nothing", "raises", "text", "null"}
  PROVE  /\ o = "nothing" => Report("handler", o) \o <<"ack">> = <<"ack">>
         /\ o = "text" => Report("handler", o) \o <<"ack">> = <<"answer", "ack">>
         /\ o \in {"raises", "null"} =>
              Report("handler", o) \o <<"ack">> = <<"warning", "ack">>
         /\ o \in {"nothing", "text"} =>
              Report("restart", o) \o <<"ack">> = <<"ready", "ack">>
         /\ o = "raises" => Report("restart", o) \o <<"ack">> = <<"warning", "ack">>
         /\ o = "null" =>
              Report("restart", o) \o <<"ack">> = <<"warning", "ready", "ack">>
<1>1. /\ <<"answer">> \o <<"ack">> = <<"answer", "ack">>
      /\ <<"warning">> \o <<"ack">> = <<"warning", "ack">>
      /\ <<"ready">> \o <<"ack">> = <<"ready", "ack">>
  BY OneBeforeOne
<1>2. <<"warning", "ready">> \o <<"ack">> = <<"warning", "ready", "ack">>
  BY TwoBeforeOne
<1>3. /\ o = "nothing" => Report("handler", o) = <<>> /\ Report("restart", o) = <<"ready">>
      /\ o = "text" => Report("handler", o) = <<"answer">> /\ Report("restart", o) = <<"ready">>
      /\ o = "raises" =>
           Report("handler", o) = <<"warning">> /\ Report("restart", o) = <<"warning">>
      /\ o = "null" =>
           Report("handler", o) = <<"warning">> /\ Report("restart", o) = <<"warning", "ready">>
  BY DEF Report
<1>4. <<>> \o <<"ack">> = <<"ack">>
  BY NoneBefore
<1>. QED BY <1>1, <1>2, <1>3, <1>4

----------------------------------------------------------------------------
\* The invariant

\* The beginning of a dispatch: nothing is done yet.
LEMMA FreshDispatch ==
  ASSUME NEW b, TypeOK, log' = <<>>, outcome' = "none",
         todo' = Start(b).todo, result' = Start(b).result
  PROVE  /\ log' \in Seq(LogStep) /\ todo' \in Shapes
         /\ outcome' \in {"none", "text", "nothing", "raises", "null"}
         /\ result' \in {"none", "handled", "yield", "cancelled"}
         /\ AckInv' /\ YieldInv' /\ ReadyInv'
<1>1. /\ todo' \in
            {<<>>, <<"ack">>, <<"handler", "ack">>, <<"builtin", "ack">>,
             <<"restarting...", "restart", "ack">>, <<"rejection", "ack">>,
             <<"format", "rejection", "ack">>}
      /\ result' \in {"none", "yield"}
      /\ result' = "yield" <=> todo' = <<>>
  BY Started
<1>2. \A s : ~Done(s)'
  BY DEF Done
<1>3. todo' \in Shapes
  BY <1>1 DEF Shapes
<1>4. AckInv'
  BY <1>1, <1>2 DEF AckInv
<1>5. YieldInv'
  BY <1>1 DEF YieldInv
<1>6. ReadyInv'
  BY <1>1, <1>2 DEF ReadyInv
<1>. QED BY <1>1, <1>3, <1>4, <1>5, <1>6

\* A reply is sent, of whatever list it is the first.
LEMMA ReplyStep == ASSUME DispatchInv, Reply PROVE DispatchInv'
<1>. DEFINE x == Head(todo)
<1>1. \/ todo \in {<<"answer", "ack">>, <<"warning", "ack">>, <<"ready", "ack">>,
                   <<"rejection", "ack">>} /\ todo' = <<"ack">> /\ todo = <<x, "ack">>
      \/ todo = <<"restarting...", "restart", "ack">> /\ x = "restarting..."
         /\ todo' = <<"restart", "ack">>
      \/ todo = <<"warning", "ready", "ack">> /\ x = "warning" /\ todo' = <<"ready", "ack">>
  <2>1. x \in Replies /\ todo \in Shapes /\ todo # <<>> /\ todo' = Tail(todo)
    BY DEF DispatchInv, Reply
  <2>. QED BY <2>1, ByHead DEF Replies
<1>2. x \in LogStep /\ x # "ack" /\ x \in Replies
  BY DEF Reply, LogStep, Replies
<1>3. log \in Seq(LogStep) /\ log' = Append(log, x)
  BY DEF Reply, DispatchInv, TypeOK, LogStep
<1>4. /\ log' \in Seq(LogStep)
      /\ \A s : Done(s)' <=> Done(s) \/ s = x
  BY <1>2, <1>3, Appended
<1>5. result = "none" /\ ~Done("ack") /\ ~Done("ack")'
  BY <1>1, <1>2, <1>4 DEF DispatchInv, AckInv, YieldInv, TypeOK
<1>6. TypeOK' /\ todo' \in Shapes
  <2>1. todo' \in Shapes
    BY <1>1 DEF Shapes
  <2>. QED BY <1>4, <2>1, ShapesTyped DEF Reply, DispatchInv, TypeOK, input, table, LogStep
<1>7. AckInv'
  BY <1>1, <1>5 DEF AckInv, Reply, Done
<1>8. YieldInv'
  BY <1>1, <1>5 DEF YieldInv, Reply
<1>9. ReadyInv'
  <2>. USE DEF ReadyInv
  <2>1. outcome' = outcome
    BY DEF Reply
  <2>2. CASE todo = <<"restarting...", "restart", "ack">>
    <3>1. \A s : ~Done(s)
      BY <2>2 DEF DispatchInv, Done
    <3>. QED BY <1>1, <1>4, <2>1, <2>2, <3>1
  <2>3. CASE todo = <<"warning", "ready", "ack">>
    BY <1>1, <1>4, <2>1, <2>3 DEF DispatchInv
  <2>4. CASE todo = <<"ready", "ack">>
    BY <1>1, <1>4, <2>1, <2>4 DEF DispatchInv
  <2>5. CASE todo \in {<<"answer", "ack">>, <<"warning", "ack">>, <<"rejection", "ack">>}
    <3>1. x \in {"answer", "warning", "rejection"} /\ todo' = <<"ack">>
      BY <1>1, <2>5
    <3>2. ~Done("ready")
      BY <2>5 DEF DispatchInv
    <3>. QED BY <1>4, <2>1, <2>5, <3>1, <3>2 DEF DispatchInv
  <2>. QED BY <1>1, <2>2, <2>3, <2>4, <2>5
<1>. QED BY <1>6, <1>7, <1>8, <1>9 DEF DispatchInv

\* User code runs and what is to be reported is put before the ack.
LEMMA UserCodeStep == ASSUME DispatchInv, UserCode PROVE DispatchInv'
<1>1. PICK o \in Outcomes(Head(todo)) :
        outcome' = o /\ todo' = Report(Head(todo), o) \o Tail(todo)
  BY DEF UserCode
<1>2. o \in {"nothing", "raises", "text", "null"}
  BY <1>1 DEF Outcomes
<1>3. \/ todo = <<"handler", "ack">> /\ Head(todo) = "handler" /\ Tail(todo) = <<"ack">>
      \/ todo = <<"restart", "ack">> /\ Head(todo) = "restart" /\ Tail(todo) = <<"ack">>
         /\ o # "text"
  <2>1. Head(todo) \in {"handler", "restart"} /\ todo \in Shapes /\ todo # <<>>
    BY DEF DispatchInv, UserCode
  <2>2. Head(todo) = "restart" => o # "text"
    BY <1>1 DEF Outcomes
  <2>. QED BY <2>1, <2>2, ByHead
<1>4. /\ todo = <<"handler", "ack">> =>
           todo' \in {<<"ack">>, <<"answer", "ack">>, <<"warning", "ack">>}
      /\ todo = <<"restart", "ack">> =>
           \/ todo' = <<"ready", "ack">> /\ o = "nothing"
           \/ todo' = <<"warning", "ack">>
           \/ todo' = <<"warning", "ready", "ack">> /\ o = "null"
  <2>1. CASE todo = <<"handler", "ack">>
    <3>1. todo' = Report("handler", o) \o <<"ack">> /\ todo # <<"restart", "ack">>
      BY <1>1, <1>3, <2>1
    <3>. QED BY <1>2, <3>1, Reported
  <2>2. CASE todo = <<"restart", "ack">>
    <3>1. /\ todo' = Report("restart", o) \o <<"ack">> /\ todo # <<"handler", "ack">>
          /\ o # "text"
      BY <1>1, <1>3, <2>2
    <3>. QED BY <1>2, <3>1, Reported
  <2>. QED BY <2>1, <2>2
<1>5. log \in Seq(LogStep) /\ log' = Append(log, Head(todo)) /\ Head(todo) \in LogStep
  BY <1>3 DEF UserCode, DispatchInv, TypeOK, LogStep
<1>6. /\ log' \in Seq(LogStep)
      /\ \A s : Done(s)' <=> Done(s) \/ s = Head(todo)
  BY <1>5, Appended
<1>7. result' = "none" /\ ~Done("ack")'
  BY <1>3, <1>6 DEF UserCode, DispatchInv, AckInv, YieldInv, TypeOK
<1>8. TypeOK' /\ todo' \in Shapes
  <2>1. todo' \in Shapes
    BY <1>3, <1>4 DEF Shapes
  <2>. QED BY <1>1, <1>2, <1>6, <2>1, ShapesTyped
         DEF UserCode, DispatchInv, TypeOK, input, table, LogStep
<1>9. AckInv'
  BY <1>3, <1>4, <1>7 DEF AckInv, Done
<1>10. YieldInv'
  BY <1>3, <1>4, <1>7 DEF YieldInv
<1>11. ReadyInv'
  <2>. USE DEF ReadyInv
  <2>1. CASE todo = <<"handler", "ack">>
    <3>1. \A s : ~Done(s)
      BY <2>1 DEF DispatchInv, Done
    <3>. QED BY <1>3, <1>4, <1>6, <2>1, <3>1
  <2>2. CASE todo = <<"restart", "ack">>
    <3>1. Done("restarting...") /\ ~Done("warning") /\ ~Done("ready")
      BY <2>2 DEF DispatchInv
    <3>. QED BY <1>1, <1>3, <1>4, <1>6, <2>2, <3>1
  <2>. QED BY <1>3, <2>1, <2>2
<1>. QED BY <1>8, <1>9, <1>10, <1>11 DEF DispatchInv

\* The ack is the last step.
LEMMA AckStep == ASSUME DispatchInv, Ack PROVE DispatchInv'
<1>1. todo = <<"ack">> /\ todo' = <<>>
  <2>1. Head(todo) = "ack" /\ todo \in Shapes /\ todo # <<>> /\ todo' = Tail(todo)
    BY DEF DispatchInv, Ack
  <2>. QED BY <2>1, ByHead
<1>2. log \in Seq(LogStep) /\ log' = Append(log, "ack") /\ "ack" \in LogStep
  BY DEF Ack, DispatchInv, TypeOK, LogStep
<1>3. /\ log' \in Seq(LogStep)
      /\ \A s : Done(s)' <=> Done(s) \/ s = "ack"
      /\ ~Done("ack") => \A i \in 1 .. Len(log') : log'[i] = "ack" => i = Len(log')
  BY <1>2, Appended
<1>4. result' = "none" /\ outcome' = outcome /\ ~Done("ack")
  BY <1>1 DEF Ack, DispatchInv, AckInv, YieldInv, TypeOK
<1>5. TypeOK' /\ todo' \in Shapes
  <2>1. todo' \in Shapes
    BY <1>1 DEF Shapes
  <2>. QED BY <1>3, <2>1, ShapesTyped DEF Ack, DispatchInv, TypeOK, input, table, LogStep
<1>6. AckInv' /\ YieldInv'
  BY <1>1, <1>3, <1>4 DEF AckInv, YieldInv
<1>7. ReadyInv'
  BY <1>1, <1>3, <1>4 DEF ReadyInv, DispatchInv
<1>. QED BY <1>5, <1>6, <1>7 DEF DispatchInv

\* The rejection is formatted, or the message is left to the application.
LEMMA FormatStep == ASSUME DispatchInv, Format PROVE DispatchInv'
<1>1. /\ todo = <<"format", "rejection", "ack">>
      /\ \/ todo' = <<"rejection", "ack">> /\ result' = result
         \/ todo' = <<>> /\ result' = "yield"
  <2>1. Head(todo) = "format" /\ todo \in Shapes /\ todo # <<>>
    BY DEF DispatchInv, Format
  <2>. QED BY <2>1, ByHead DEF Format
<1>2. \A s : ~Done(s)
  BY <1>1 DEF DispatchInv, YieldInv, Done
<1>3. log = <<>> /\ log' = <<>> /\ outcome' = outcome /\ result = "none"
  BY <1>1 DEF Format, DispatchInv, YieldInv, TypeOK
<1>4. TypeOK' /\ todo' \in Shapes
  <2>1. todo' \in Shapes
    BY <1>1 DEF Shapes
  <2>. QED BY <1>1, <2>1, ShapesTyped DEF Format, DispatchInv, TypeOK, input, table, LogStep
<1>5. \A s : ~Done(s)'
  BY <1>3 DEF Done
<1>6. AckInv' /\ YieldInv' /\ ReadyInv'
  BY <1>1, <1>3, <1>5 DEF AckInv, YieldInv, ReadyInv
<1>. QED BY <1>4, <1>6 DEF DispatchInv

\* A built-in's answer or warning is put before the ack.
LEMMA RunBuiltinStep == ASSUME DispatchInv, RunBuiltin PROVE DispatchInv'
<1>1. todo = <<"builtin", "ack">> /\ todo' \in {<<"ack">>, <<"answer", "ack">>, <<"warning", "ack">>}
  <2>1. Head(todo) = "builtin" /\ todo \in Shapes /\ todo # <<>>
    BY DEF DispatchInv, RunBuiltin
  <2>2. todo = <<"builtin", "ack">> /\ Tail(todo) = <<"ack">>
    BY <2>1, ByHead
  <2>3. /\ <<"answer">> \o <<"ack">> = <<"answer", "ack">>
        /\ <<"warning">> \o <<"ack">> = <<"warning", "ack">>
    BY OneBeforeOne
  <2>. QED BY <2>2, <2>3 DEF RunBuiltin
<1>2. UNCHANGED <<lang, body, router, restartable, log, outcome, result>>
  BY DEF RunBuiltin, input, table
<1>3. /\ result = "none" /\ ~Done("ack")
      /\ \A s : Done(s)' <=> Done(s)
  BY <1>1, <1>2 DEF DispatchInv, AckInv, YieldInv, TypeOK, Done
<1>4. TypeOK' /\ todo' \in Shapes
  <2>1. todo' \in Shapes
    BY <1>1 DEF Shapes
  <2>. QED BY <1>2, <2>1, ShapesTyped DEF DispatchInv, TypeOK, LogStep
<1>5. AckInv'
  BY <1>1, <1>2, <1>3 DEF DispatchInv, AckInv
<1>6. YieldInv'
  BY <1>1, <1>2, <1>3 DEF YieldInv
<1>7. ReadyInv'
  BY <1>1, <1>2, <1>3 DEF DispatchInv, ReadyInv
<1>. QED BY <1>4, <1>5, <1>6, <1>7 DEF DispatchInv

\* The bridge changes its table, which remains one.
LEMMA SetUpStep == ASSUME DispatchInv, SetUp PROVE DispatchInv'
<1>1. UNCHANGED <<lang, body, todo, log, outcome, result>>
  BY DEF SetUp, RegisterHandler, MarkPassthrough, SetRestartHandler
<1>2. router' \in Router /\ restartable' \in BOOLEAN
  BY DispatchAssumption DEF SetUp, RegisterHandler, MarkPassthrough, SetRestartHandler,
     DispatchInv, TypeOK, Router
<1>. QED BY <1>1, <1>2 DEF DispatchInv, TypeOK, AckInv, YieldInv, ReadyInv, Done

\* A dispatch returns, or is cancelled.
LEMMA EndStep == ASSUME DispatchInv, Return \/ Cancel PROVE DispatchInv'
<1>1. /\ UNCHANGED <<lang, body, router, restartable, log, outcome>>
      /\ todo' = <<>> /\ result = "none"
      /\ \/ result' = "handled" /\ todo = <<>>
         \/ result' = "cancelled"
  BY DEF Return, Cancel, input, table
<1>2. \A s : Done(s)' <=> Done(s)
  BY <1>1 DEF Done
<1>3. TypeOK' /\ todo' \in Shapes
  <2>1. todo' \in Shapes
    BY <1>1 DEF Shapes
  <2>. QED BY <1>1, <2>1, ShapesTyped DEF DispatchInv, TypeOK, LogStep
<1>4. AckInv'
  BY <1>1, <1>2 DEF DispatchInv, AckInv
<1>5. YieldInv'
  BY <1>1 DEF DispatchInv, YieldInv
<1>6. ReadyInv'
  BY <1>1, <1>2 DEF DispatchInv, ReadyInv
<1>. QED BY <1>3, <1>4, <1>5, <1>6 DEF DispatchInv

\* Every reachable state satisfies the invariant.
THEOREM DispatchInvariant == Spec => []DispatchInv
<1>1. Init => DispatchInv
  <2>. SUFFICES ASSUME Init PROVE DispatchInv
    OBVIOUS
  <2>1. /\ todo \in
            {<<>>, <<"ack">>, <<"handler", "ack">>, <<"builtin", "ack">>,
             <<"restarting...", "restart", "ack">>, <<"rejection", "ack">>,
             <<"format", "rejection", "ack">>}
        /\ result \in {"none", "yield"}
        /\ result = "yield" <=> todo = <<>>
    BY Started DEF Init
  <2>2. \A s : ~Done(s)
    BY DEF Init, Done
  <2>3. TypeOK /\ todo \in Shapes
    <3>1. todo \in Shapes
      BY <2>1 DEF Shapes
    <3>2. router \in Router
      BY DEF Init, Router, DefaultRouter
    <3>3. todo \in Seq(LogStep \cup {"builtin", "format"}) /\ log \in Seq(LogStep)
      BY <3>1, ShapesTyped DEF Init
    <3>4. lang \in Langs /\ body \in Bodies /\ restartable \in BOOLEAN /\ outcome = "none"
      BY DEF Init
    <3>5. todo \in Seq(Replies \cup {"handler", "restart", "builtin", "format", "ack"})
      BY <3>3, LogStep \cup {"builtin", "format"} =
                 Replies \cup {"handler", "restart", "builtin", "format", "ack"}
         DEF LogStep
    <3>. QED
      BY <2>1, <3>1, <3>2, <3>3, <3>4, <3>5 DEF TypeOK, LogStep
  <2>4. AckInv /\ YieldInv /\ ReadyInv
    BY <2>1, <2>2 DEF AckInv, YieldInv, ReadyInv, Init
  <2>. QED BY <2>3, <2>4 DEF DispatchInv
<1>2. DispatchInv /\ [Next]_vars => DispatchInv'
  <2>. SUFFICES ASSUME DispatchInv, [Next]_vars PROVE DispatchInv'
    OBVIOUS
  <2>1. CASE NextMessage
    <3>1. /\ log' \in Seq(LogStep) /\ todo' \in Shapes
          /\ outcome' \in {"none", "text", "nothing", "raises", "null"}
          /\ result' \in {"none", "handled", "yield", "cancelled"}
          /\ AckInv' /\ YieldInv' /\ ReadyInv'
      BY <2>1, FreshDispatch DEF NextMessage, DispatchInv
    <3>2. TypeOK'
      BY <2>1, <3>1, ShapesTyped DEF NextMessage, DispatchInv, TypeOK, LogStep
    <3>. QED BY <3>1, <3>2 DEF DispatchInv
  <2>2. CASE UNCHANGED vars
    BY <2>2 DEF vars, DispatchInv, TypeOK, AckInv, YieldInv, ReadyInv, Done
  <2>. QED BY <2>1, <2>2, ReplyStep, UserCodeStep, RunBuiltinStep, AckStep, FormatStep, SetUpStep,
              EndStep
         DEF Next
<1>. QED BY <1>1, <1>2, PTL DEF Spec

\* Lists of steps, and what dispatch() returns, are what they are said to be.
THEOREM TypeCorrect == Spec => []TypeOK
<1>1. DispatchInv => TypeOK
  BY DEF DispatchInv
<1>. QED BY <1>1, DispatchInvariant, PTL

\* A handled message is acked once, as the last thing that dispatch() does.
THEOREM AckedLast == Spec => []HandledIsAckedLast
<1>1. DispatchInv => HandledIsAckedLast
  BY DEF DispatchInv, AckInv, YieldInv, HandledIsAckedLast
<1>. QED BY <1>1, DispatchInvariant, PTL

\* What dispatch() leaves to the application it neither answered nor acked.
THEOREM Untouched == Spec => []YieldedIsUntouched
<1>1. DispatchInv => YieldedIsUntouched
  BY DEF DispatchInv, YieldInv, YieldedIsUntouched
<1>. QED BY <1>1, DispatchInvariant, PTL

\* "ready" follows "restarting..." and a restart that succeeded (or threw null).
THEOREM ReadyIsTrue == Spec => []ReadyMeansRestarted
<1>1. DispatchInv => ReadyMeansRestarted
  BY DEF DispatchInv, ReadyInv, ReadyMeansRestarted
<1>. QED BY <1>1, DispatchInvariant, PTL

\* Whatever the table, /help names the commands that are answered or known, once.
THEOREM HelpTrue == Spec => []HelpIsHonest
<1>1. ASSUME router \in Router, NEW t \in Token
      PROVE  LET blocks == <<HelpBuiltins(router), HelpHandlers(router),
                             HelpPassthroughs(router)>>
                 known == Route(router, Text(t, TRUE)) \notin {"reject", "unknown"}
             IN  Cardinality({i \in 1 .. 3 : t \in blocks[i]}) = IF known THEN 1 ELSE 0
  <2>. DEFINE blocks == <<HelpBuiltins(router), HelpHandlers(router), HelpPassthroughs(router)>>
              known == Route(router, Text(t, TRUE)) \notin {"reject", "unknown"}
              named == {i \in 1 .. 3 : t \in blocks[i]}
  <2>1. /\ blocks[1] = HelpBuiltins(router)
        /\ blocks[2] = HelpHandlers(router)
        /\ blocks[3] = HelpPassthroughs(router)
    OBVIOUS
  <2>2. known <=> \/ t \in router.handlers
                  \/ router.builtins /\ t \in BuiltinNames
                  \/ t \in router.passthrough
    BY <1>1 DEF Route, Text, BuiltinNames, Builtin, Token, NoCmd, Router
  <2>. DEFINE one == t \in HelpBuiltins(router)
              two == t \in HelpHandlers(router)
              three == t \in HelpPassthroughs(router)
  <2>3. /\ one <=> router.builtins /\ t \in BuiltinNames /\ t \notin router.handlers
        /\ two <=> t \in router.handlers /\ ~one
        /\ three <=> t \in router.passthrough /\ ~one /\ ~two
    BY DEF HelpBuiltins, HelpHandlers, HelpPassthroughs
  <2>4. \A i : i \in named <=> (i = 1 /\ one) \/ (i = 2 /\ two) \/ (i = 3 /\ three)
    <3>1. 1 .. 3 = {1, 2, 3}
      OBVIOUS
    <3>. QED BY <2>1, <3>1
  <2>5. known => named \in {{1}, {2}, {3}}
    <3>1. known <=> (one /\ ~two /\ ~three) \/ (two /\ ~one /\ ~three)
                      \/ (three /\ ~one /\ ~two)
      BY <2>2, <2>3
    <3>2. one /\ ~two /\ ~three => named = {1}
      BY <2>4
    <3>3. two /\ ~one /\ ~three => named = {2}
      BY <2>4
    <3>4. three /\ ~one /\ ~two => named = {3}
      BY <2>4
    <3>. QED BY <3>1, <3>2, <3>3, <3>4
  <2>6. ~known => named = {}
    <3>1. ~known => ~one /\ ~two /\ ~three
      BY <2>2, <2>3
    <3>. QED BY <2>4, <3>1
  <2>7. Cardinality({}) = 0 /\ \A i \in 1 .. 3 : Cardinality({i}) = 1
    BY FS_EmptySet, FS_Singleton
  <2>. HIDE DEF known, named
  <2>8. Cardinality(named) = IF known THEN 1 ELSE 0
    BY <2>5, <2>6, <2>7
  <2>. QED BY <2>8 DEF known, named
<1>2. DispatchInv => HelpIsHonest
  BY <1>1 DEF DispatchInv, TypeOK, HelpIsHonest
<1>. QED BY <1>2, DispatchInvariant, PTL

============================================================================
