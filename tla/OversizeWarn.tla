---------------------------- MODULE OversizeWarn ----------------------------
(***************************************************************************)
(* warnOversizedLine of the Go SDK (client.go): the readers of all RPCs and *)
(* of the SSE stream report long lines through one rate limit, a           *)
(* compare-and-swap loop on the size that was warned of last.              *)
(***************************************************************************)
EXTENDS Integers, Sequences

CONSTANTS
  Reader,      \* goroutines that read lines
  Size,        \* lengths a line may have
  Threshold,   \* sseLineWarnBytes
  MaxLines     \* bound: long lines

ASSUME WarnAssumption ==
  /\ Size \subseteq Nat
  /\ Threshold \in Nat \ {0}
  /\ MaxLines \in Nat

VARIABLES
  warnedBytes,  \* c.sseWarnedBytes
  at,           \* [reader]: "read", "load", "swap"
  n,            \* [reader]: the size of its line
  prev,         \* [reader]: what it has loaded
  warns,        \* sizes that passed the limit, in this order; a WARN follows each
  worst,        \* the longest line so far, if it is long enough
  lines         \* long lines so far

vars == <<warnedBytes, at, n, prev, warns, worst, lines>>

TypeOK ==
  /\ warnedBytes \in Nat
  /\ at \in [Reader -> {"read", "load", "swap"}]
  /\ n \in [Reader -> Nat]
  /\ prev \in [Reader -> Nat]
  /\ warns \in Seq(Nat)
  /\ worst \in Nat
  /\ lines \in 0 .. MaxLines

Init ==
  /\ warnedBytes = 0
  /\ at = [r \in Reader |-> "read"]
  /\ n = [r \in Reader |-> 0]
  /\ prev = [r \in Reader |-> 0]
  /\ warns = <<>>
  /\ worst = 0
  /\ lines = 0

\* ReadLine returns a line; shorter ones return at once.
ReadLine(r) ==
  /\ at[r] = "read"
  /\ lines < MaxLines
  /\ \E size \in {k \in Size : k >= Threshold} :
       /\ n' = [n EXCEPT ![r] = size]
       /\ worst' = IF size > worst THEN size ELSE worst
  /\ at' = [at EXCEPT ![r] = "load"]
  /\ lines' = lines + 1
  /\ UNCHANGED <<warnedBytes, prev, warns>>

\* prev != 0 && n < prev*2
Suppressed(r) == warnedBytes # 0 /\ n[r] < warnedBytes * 2

Load(r) ==
  /\ at[r] = "load"
  /\ prev' = [prev EXCEPT ![r] = warnedBytes]
  /\ at' = [at EXCEPT ![r] = IF Suppressed(r) THEN "read" ELSE "swap"]
  /\ UNCHANGED <<warnedBytes, n, warns, worst, lines>>

\* (slip) Store instead of CompareAndSwap.
Store(r) == TRUE

Unchanged(r) == warnedBytes = prev[r]

Swap(r) ==
  /\ at[r] = "swap"
  /\ Unchanged(r)
  /\ warnedBytes' = n[r]
  /\ warns' = Append(warns, n[r])
  /\ at' = [at EXCEPT ![r] = "read"]
  /\ UNCHANGED <<n, prev, worst, lines>>

\* (slip) Who loses the race leaves it to the winner.
LeaveIt == "read"

\* The loop starts over.
LoopHead == "load"

SwapFails(r) ==
  /\ at[r] = "swap"
  /\ ~Unchanged(r)
  /\ at' = [at EXCEPT ![r] = LoopHead]
  /\ UNCHANGED <<warnedBytes, n, prev, warns, worst, lines>>

Warn(r) == Load(r) \/ Swap(r) \/ SwapFails(r)

Next == \E r \in Reader : ReadLine(r) \/ Warn(r)

Spec == Init /\ [][Next]_vars

----------------------------------------------------------------------------
\* "It fires once, then again only once the line size has doubled", however
\* many goroutines race for the limit.
WarnsDouble == \A i \in 1 .. Len(warns) - 1 : warns[i + 1] >= 2 * warns[i]

\* A line of twice the size warned of is not passed over: when no reader is
\* inside warnOversizedLine, the longest line so far is below twice the last
\* warning.
WorseningReported ==
  (\A r \in Reader : at[r] = "read") => worst = 0 \/ worst < 2 * warnedBytes

----------------------------------------------------------------------------
\* The invariant the two safety properties follow from.

\* The shared value is the last size warned of.
LastWarned ==
  IF warns = <<>>
  THEN warnedBytes = 0
  ELSE warnedBytes = warns[Len(warns)] /\ warnedBytes >= Threshold

\* A reader inside the loop has a long line, and before the swap it has found
\* it to be of twice the size it loaded.
ReadersKnow ==
  \A r \in Reader :
    /\ at[r] # "read" => n[r] >= Threshold
    /\ at[r] = "swap" => prev[r] = 0 \/ n[r] >= 2 * prev[r]

\* The longest line is below twice the last warning, or its reader has yet to
\* compare it.
WorstInHand ==
  \/ worst = 0 \/ worst < 2 * warnedBytes
  \/ \E r \in Reader : at[r] # "read" /\ n[r] = worst

\* What the readers and the shared value know of each other at every moment.
InductiveInv == TypeOK /\ LastWarned /\ ReadersKnow /\ WarnsDouble /\ WorstInHand

=============================================================================
