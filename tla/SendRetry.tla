----------------------------- MODULE SendRetry -----------------------------
(***************************************************************************)
(* send() and send_with_retry() of the Python and JavaScript SDKs with the *)
(* hub behind them: one message, its attempts, and the copies of it the    *)
(* hub stores.  A request whose answer is an error, or that nobody waits   *)
(* for any more, may still be carried out, at once or later.               *)
(***************************************************************************)
EXTENDS Naturals

CONSTANTS
  MaxMax,       \* bound: attempts a caller may allow
  Base,         \* base_delay_s
  HasTimeOut    \* Python's _call_tool gives up on a call, JavaScript's does not

ASSUME SendAssumption ==
  /\ MaxMax \in Nat \ {0}
  /\ Base \in Nat
  /\ HasTimeOut \in BOOLEAN

VARIABLES
  maxAttempts,  \* the argument max_attempts, at least 1
  attempt,      \* attempts that are over
  stage,        \* "calling", "sleeping", "done"
  pending,      \* requests given up on that the hub may still carry out
  delivered,    \* copies of the message the hub has stored
  slept,        \* the delays so far, in seconds
  absent,       \* an answer of the hub matched the patterns of an absent peer
  result        \* "none", "sent" or what was raised

vars ==
  <<maxAttempts, attempt, stage, pending, delivered, slept, absent, result>>

Kind == {"participant_not_found", "transient", "unknown"}

\* What an error text of the hub matches: patterns for an absent peer, for a
\* transient failure, both or none.
ErrorText == SUBSET {"peer", "transient"}

TypeOK ==
  /\ maxAttempts \in 1 .. MaxMax
  /\ attempt \in 0 .. maxAttempts
  /\ stage \in {"calling", "sleeping", "done"}
  /\ pending \in Nat /\ delivered \in Nat
  /\ slept \in Nat
  /\ absent \in BOOLEAN
  /\ result \in {"none", "sent"} \cup Kind

Init ==
  /\ maxAttempts \in 1 .. MaxMax
  /\ attempt = 0
  /\ stage = "calling"
  /\ pending = 0 /\ delivered = 0
  /\ slept = 0
  /\ absent = FALSE
  /\ result = "none"

----------------------------------------------------------------------------

\* (slip) A transient text is retried even if it names the peer.
ClassifyTransientFirst(text) ==
  CASE "transient" \in text -> "transient"
    [] "transient" \notin text /\ "peer" \in text -> "participant_not_found"
    [] OTHER -> "unknown"

\* classify_hub_error: the patterns of an absent peer come first.
Classify(text) ==
  CASE "peer" \in text -> "participant_not_found"
    [] "peer" \notin text /\ "transient" \in text -> "transient"
    [] OTHER -> "unknown"

Finish(r) ==
  /\ result' = r
  /\ stage' = "done"
  /\ UNCHANGED slept

\* attempt >= max_attempts - 1 is the last one.
MoreAllowed == attempt + 1 < maxAttempts

\* (slip) The delay doubles from the first retry on.
DelayAfterDoubling == Base * 2 ^ (attempt + 1)

Delay == Base * 2 ^ attempt

\* except HubTransientError in send_with_retry: sleep, or raise it.
Transient ==
  IF MoreAllowed
  THEN stage' = "sleeping" /\ slept' = slept + Delay /\ UNCHANGED result
  ELSE Finish("transient")

\* (slip) An attempt that is to be repeated does not count.
CountedUnlessRepeated ==
  attempt' = IF stage' = "sleeping" THEN attempt ELSE attempt + 1

\* for attempt in range(max_attempts)
Counted == attempt' = attempt + 1

\* What became of a request whose success was not reported.
Unreported ==
  \/ UNCHANGED <<pending, delivered>>
  \/ delivered' = delivered + 1 /\ UNCHANGED pending
  \/ pending' = pending + 1 /\ UNCHANGED delivered

\* The hub stores the message and says so.
Answer ==
  /\ stage = "calling"
  /\ Finish("sent")
  /\ delivered' = delivered + 1
  /\ Counted
  /\ UNCHANGED <<maxAttempts, pending, absent>>

\* The hub, or a gateway before it, answers with an error; whatever it says, the
\* message may have been stored.
AnswerError ==
  /\ stage = "calling"
  /\ \E text \in ErrorText :
       /\ absent' = ("peer" \in text)
       /\ IF Classify(text) = "transient" THEN Transient ELSE Finish(Classify(text))
  /\ Unreported
  /\ Counted
  /\ UNCHANGED maxAttempts

\* The call raises: every such exception becomes a HubTransientError.
TransportFails ==
  /\ stage = "calling"
  /\ Transient
  /\ Unreported
  /\ Counted
  /\ UNCHANGED <<maxAttempts, absent>>

\* Python's calls have a deadline.
Overdue == HasTimeOut

\* _call_tool gives up waiting.
TimesOut ==
  /\ Overdue
  /\ stage = "calling"
  /\ Transient
  /\ Unreported
  /\ Counted
  /\ UNCHANGED <<maxAttempts, absent>>

Wake ==
  /\ stage = "sleeping"
  /\ stage' = "calling"
  /\ UNCHANGED <<maxAttempts, attempt, pending, delivered, slept, absent, result>>

\* A request its caller has given up on is carried out after all.
Late ==
  /\ pending > 0
  /\ pending' = pending - 1
  /\ delivered' = delivered + 1
  /\ UNCHANGED <<maxAttempts, attempt, stage, slept, absent, result>>

Next == Answer \/ AnswerError \/ TransportFails \/ TimesOut \/ Wake \/ Late

Spec == Init /\ [][Next]_vars

----------------------------------------------------------------------------
\* Properties

\* A caller told "sent" has been heard, and the receiver sees at most one copy
\* for each attempt made, those still on their way included.
CopiesBounded ==
  /\ result = "sent" => delivered > 0
  /\ delivered + pending <= attempt

\* A transient failure is raised only when all attempts are used up; then the
\* caller has slept between them and nowhere else, twice as long each time.
BudgetUsedExactly ==
  /\ result = "transient" => attempt = maxAttempts
  /\ stage = "calling" \/ (result = "transient" /\ attempt > 0) =>
       slept = Base * (2 ^ (IF stage = "calling" THEN attempt ELSE attempt - 1) - 1)

\* "raised immediately (retry is meaningless)": once the hub has named the
\* peer as absent, in whatever words, no further attempt is made.
AbsentPeerEndsIt == absent => result = "participant_not_found"

============================================================================
