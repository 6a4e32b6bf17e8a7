----------------------------- MODULE SseReader -----------------------------
(***************************************************************************)
(* The two readers of server-sent events in the Go SDK (client.go), side   *)
(* by side on the same lines: runSSELoop, which handles every event of the *)
(* stream, and readFirstSSEData, which takes the answer of one RPC.        *)
(* A data line is its position in the input.  The names of the transition  *)
(* system carry a prefix, as OversizeWarn has the same ones for its own.   *)
(***************************************************************************)
EXTENDS Naturals, Sequences, MessageOrder

CONSTANT MaxStream    \* bound: lines of one stream

ASSUME ReaderAssumption == MaxStream \in Nat

VARIABLES
  input,      \* the lines read so far
  ending,     \* "open", "eof", "error", or "cancelled" by the context
  dataLines,  \* runSSELoop: lines of the event being read
  handled,    \* runSSELoop: events given to handleSSEEvent
  rpcLines,   \* readFirstSSEData: dataLines
  inEvent,    \* readFirstSSEData: inEvent
  answer      \* readFirstSSEData: "none", the data returned, "eof" or "error"

readerVars == <<input, ending, dataLines, handled, rpcLines, inEvent, answer>>

Line == {"data", "event", "other", "blank"}

ReaderInit ==
  /\ input = <<>> /\ ending = "open"
  /\ dataLines = <<>> /\ handled = <<>>
  /\ rpcLines = <<>> /\ inEvent = FALSE /\ answer = <<"none">>

Collected(lines, line) ==
  IF line = "data" THEN Append(lines, Len(input) + 1) ELSE lines

\* flush: nothing is handled if no data line came.
Flush(lines) == IF lines = <<>> THEN handled ELSE Append(handled, lines)

\* (slip) dataLines is not emptied.
Kept == dataLines

Emptied == <<>>

LoopReads(line) ==
  IF line = "blank"
  THEN handled' = Flush(dataLines) /\ dataLines' = Emptied
  ELSE dataLines' = Collected(dataLines, line) /\ UNCHANGED handled

Unanswered == answer = <<"none">>

\* (slip) Only an event: line begins an event.
Named(line) == line = "event"

Begins(line) == line \in {"data", "event"}

\* A blank line ends an event that has data, and resets one that has none.
RpcReads(line) ==
  IF Unanswered
  THEN CASE line = "blank" /\ inEvent /\ rpcLines # <<>> ->
              answer' = <<"data", rpcLines>> /\ UNCHANGED <<rpcLines, inEvent>>
         [] line = "blank" /\ ~(inEvent /\ rpcLines # <<>>) ->
              rpcLines' = <<>> /\ inEvent' = FALSE /\ UNCHANGED answer
         [] OTHER ->
              /\ rpcLines' = Collected(rpcLines, line)
              /\ inEvent' = (inEvent \/ Begins(line))
              /\ UNCHANGED answer
  ELSE UNCHANGED <<rpcLines, inEvent, answer>>

\* A line that ends in a newline comes in, for either reader.
BothRead(line) ==
  /\ ending = "open"
  /\ Len(input) < MaxStream
  /\ input' = Append(input, line)
  /\ LoopReads(line)
  /\ RpcReads(line)
  /\ UNCHANGED ending

\* (slip) Only the end of the stream flushes.
FlushAtEof(lines, how) == IF how = "eof" THEN Flush(lines) ELSE handled

\* The last event is handled however the stream ends.
FlushAtEnd(lines, how) == Flush(lines)

\* (slip) A broken answer is returned as far as it came.
AnswerSoFar(lines, how) ==
  IF lines # <<>> THEN <<"data", lines>> ELSE <<how>>

\* A broken answer is no answer.
AnswerAtEnd(lines, how) ==
  IF how = "eof" /\ lines # <<>> THEN <<"data", lines>> ELSE <<how>>

\* The stream ends, after a last line without a newline or after none.
End(how) ==
  /\ ending = "open"
  /\ ending' = how
  /\ \E line \in {"none"} \cup (Line \ {"blank"}) :
       LET data == Collected(dataLines, line)
           rpcData == Collected(rpcLines, line)
       IN  /\ Len(input) < MaxStream \/ line = "none"
           /\ input' = IF line = "none" THEN input ELSE Append(input, line)
           /\ handled' = FlushAtEnd(data, how)
           /\ answer' = IF Unanswered THEN AnswerAtEnd(rpcData, how) ELSE answer
  /\ dataLines' = <<>> /\ rpcLines' = <<>>
  /\ UNCHANGED inEvent

\* The context of runSSELoop is cancelled: nothing more is handled.
Cancel ==
  /\ ending = "open"
  /\ ending' = "cancelled"
  /\ UNCHANGED <<input, dataLines, handled, rpcLines, inEvent, answer>>

ReaderNext ==
  \/ \E line \in Line : BothRead(line)
  \/ \E how \in {"eof", "error"} : End(how)
  \/ Cancel

ReaderSpec == ReaderInit /\ [][ReaderNext]_readerVars

----------------------------------------------------------------------------
\* The data lines of the event that position p of the input ends.
DataBefore(p) ==
  {i \in 1 .. p - 1 : input[i] = "data" /\ \A j \in i .. p - 1 : input[j] # "blank"}

\* The events of the input: one for each blank line after data, and one at the
\* end of the stream.
Events(closed) ==
  LET stops == {p \in 1 .. Len(input) : input[p] = "blank"}
                 \cup (IF closed THEN {Len(input) + 1} ELSE {})
      full == {p \in stops : DataBefore(p) # {}}
      ordered == InArrivalOrder(full)
  IN  [k \in 1 .. Len(ordered) |-> InArrivalOrder(DataBefore(ordered[k]))]

\* "Events received are not dropped, whatever the kind of the read error", nor
\* handled twice or joined, at the end of the stream too.
EachEventOnce == handled = Events(ending \in {"eof", "error"})

\* An RPC returns the first event of its response, and none that a broken
\* connection may have cut short.
AnswerIsFirstEvent ==
  answer[1] = "data" =>
    Events(ending = "eof") # <<>> /\ answer[2] = Events(ending = "eof")[1]

\* An RPC fails only if its response holds no whole event.
NoAnswerIgnored == answer[1] \in {"eof", "error"} => Events(ending = "eof") = <<>>

=============================================================================
