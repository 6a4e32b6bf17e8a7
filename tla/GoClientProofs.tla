--------------------------- MODULE GoClientProofs ---------------------------
(***************************************************************************)
(* One stream goroutine per session, for any number of messages, of        *)
(* connections and of disturbances.                                        *)
(*                                                                         *)
(* The argument follows the bridge's goroutine: between StopSSE and        *)
(* StartSSE the goroutine of the last connection is first cancelled and    *)
(* then gone, so the next one starts alone.  That callbacks stay bounded   *)
(* rests on the order of the pushes in a stream.                           *)
(***************************************************************************)
EXTENDS GoClient, MessageOrderProofs, SequenceTheorems

\* Where the bridge is tells which goroutines there are.
StreamInv ==
  /\ pc = "stop" => Live = {handle} \ {0} /\ handle \notin cancelled
  /\ pc = "stopping" => handle = 0 /\ Live \subseteq {stopping} /\ Live \subseteq cancelled
  /\ pc \in {"init", "notify", "register", "start"} => handle = 0 /\ Live = {}
  /\ pc \in {"subscribe", "wait", "fetch"} =>
       Live = {handle} /\ handle \notin cancelled /\ from[handle] = sid
  /\ attached \subseteq {s \in Stream : at[s] \in {"read", "pong"}}

\* No more goroutines were started than sessions were given out, and no
\* context is cancelled before its goroutine is started.
StartInv ==
  /\ cancelled \subseteq {s \in Stream : at[s] # "none"}
  /\ sid <= lastSid
  /\ \A s \in Stream : at[s] # "none" => s <= lastSid
  /\ pc \in {"notify", "register", "start"} /\ sid # 0 =>
       \A s \in Stream : at[s] # "none" => s < lastSid

\* The pushes on a stream name messages in the order they arrived, newer than
\* there are callbacks under way.
WireInv ==
  /\ callbacks <= sent
  /\ \A s \in Stream : at[s] \in {"read", "pong"} =>
       \A i \in DOMAIN wire[s] : wire[s][i] # Ping =>
         /\ callbacks < wire[s][i] /\ wire[s][i] <= sent
         /\ \A j \in DOMAIN wire[s] : j < i => wire[s][j] < wire[s][i]

InductiveInv == TypeOK /\ StreamInv /\ StartInv /\ WireInv

----------------------------------------------------------------------------
\* Type correctness

\* StartSSE has a stream left to start: the newest session has none yet.
LEMMA StreamLeft ==
  ASSUME TypeOK, StartInv, pc = "start", sid # 0
  PROVE  \E s \in Stream :
           /\ at[s] = "none" /\ s <= lastSid
           /\ s = CHOOSE n \in Stream :
                    at[n] = "none" /\ \A k \in Stream : k < n => at[k] # "none"
<1>. DEFINE Unstarted == {n \in Stream : at[n] = "none"}
            First(n) == at[n] = "none" /\ \A k \in Stream : k < n => at[k] # "none"
<1>1. lastSid \in Stream /\ MaxStream \in Nat
  BY ClientAssumption DEF TypeOK, StartInv, Stream
<1>2. lastSid \in Unstarted
  BY <1>1 DEF StartInv, Stream
<1>3. PICK m \in Unstarted : \A k \in Unstarted : m <= k
  BY <1>1, <1>2, LeastExists DEF Stream
<1>4. \A n \in Stream : First(n) => n <= lastSid
  BY <1>1, <1>2 DEF Stream
<1>5. \E n \in Stream : First(n)
  <2>1. \A k \in Stream : k \in Nat
    BY DEF Stream
  <2>2. \A k \in Stream : k < m => at[k] # "none"
    BY <1>3, <2>1
  <2>. QED BY <1>3, <2>2
<1>. QED BY <1>4, <1>5

\* What StartSSE does, its choice of a stream resolved.
LEMMA StartEffect ==
  ASSUME TypeOK, StartInv, StartSSE
  PROVE  \E s \in Stream :
           /\ at[s] = "none" /\ s <= lastSid
           /\ at' = [at EXCEPT ![s] = "dial"]
           /\ from' = [from EXCEPT ![s] = sid]
           /\ handle' = s
<1>. DEFINE s == CHOOSE n \in Stream :
                   at[n] = "none" /\ \A k \in Stream : k < n => at[k] # "none"
<1>1. s \in Stream /\ at[s] = "none" /\ s <= lastSid
  BY StreamLeft DEF StartSSE
<1>2. /\ at' = [at EXCEPT ![s] = "dial"]
      /\ from' = [from EXCEPT ![s] = sid]
      /\ handle' = s
  BY DEF StartSSE
<1>. QED BY <1>1, <1>2

\* Every step preserves the types.
LEMMA TypeInductive ==
  ASSUME InductiveInv, [Next]_vars
  PROVE  TypeOK'
<1>. USE ClientAssumption DEF InductiveInv, TypeOK
<1>1. CASE UNCHANGED vars
  BY <1>1 DEF vars, hubVars, netVars, streamVars, bridgeVars
<1>2. CASE HubStep
  <2>1. CASE Arrive
    <3>1. \A s \in Stream : Append(wire[s], sent + 1) \in Seq(Msg \cup {Ping})
      BY <2>1, AppendProperties DEF Arrive, Msg
    <3>. QED BY <2>1, <3>1 DEF Arrive, streamVars, bridgeVars
  <2>2. CASE Restart
    BY <2>2 DEF Restart, Disturb, streamVars, bridgeVars
  <2>3. ASSUME NEW s \in Stream, SendPing(s) PROVE TypeOK'
    <3>1. Append(wire[s], Ping) \in Seq(Msg \cup {Ping})
      BY AppendProperties
    <3>. QED BY <2>3, <3>1 DEF SendPing, Disturb, hubVars, streamVars, bridgeVars
  <2>4. ASSUME NEW s \in Stream, Break(s) PROVE TypeOK'
    BY <2>4 DEF Break, Disturb, hubVars, streamVars, bridgeVars
  <2>. QED BY <1>2, <2>1, <2>2, <2>3, <2>4 DEF HubStep
<1>3. ASSUME NEW s \in Stream, StreamStep(s) PROVE TypeOK'
  <2>1. CASE Exit(s)
    BY <2>1 DEF Exit, Place, hubVars, bridgeVars
  <2>2. CASE Dial(s)
    BY <2>2, EmptySeq DEF Dial, Place, hubVars, bridgeVars
  <2>3. CASE DialFails(s)
    BY <2>3 DEF DialFails, Disturb, Place, hubVars, netVars, bridgeVars
  <2>4. CASE Event(s)
    <3>1. Tail(wire[s]) \in Seq(Msg \cup {Ping}) /\ Head(wire[s]) \in Msg \cup {Ping}
      BY <2>4, HeadTailProperties DEF Event
    <3>2. Head(wire[s]) # Ping => callbacks + 1 \in 0 .. MaxMsg
      <4>1. 1 \in DOMAIN wire[s] /\ Head(wire[s]) = wire[s][1]
        BY <2>4, EmptySeq, LenProperties, HeadTailProperties DEF Event
      <4>2. Head(wire[s]) # Ping => callbacks < Head(wire[s])
        BY <2>4, <4>1 DEF Event, WireInv
      <4>. QED BY <3>1, <4>2 DEF Msg
    <3>3. wire' \in [Stream -> Seq(Msg \cup {Ping})]
      BY <2>4, <3>1 DEF Event, LinesFlushed
    <3>4. at' \in [Stream -> Place] /\ callbacks' \in 0 .. MaxMsg
      BY <2>4, <3>2 DEF Event, Place
    <3>. QED BY <2>4, <3>3, <3>4 DEF Event, hubVars
  <2>5. CASE Pong(s) \/ EndOfStream(s) \/ Resume(s)
    BY <2>5 DEF Pong, EndOfStream, Resume, Place, hubVars, netVars, bridgeVars
  <2>. QED BY <1>3, <2>1, <2>2, <2>3, <2>4, <2>5 DEF StreamStep
<1>4. CASE Callback
  BY <1>4 DEF Callback, hubVars, netVars, streamVars
<1>5. CASE BridgeStep
  <2>. USE DEF hubVars, netVars, streamVars, bridgeVars, streamsUnchanged, Step
  <2>1. CASE StopSSE
    BY <2>1 DEF StopSSE
  <2>2. CASE StopSSEReturns
    BY <2>2 DEF StopSSEReturns
  <2>3. CASE Initialize
    BY <2>3 DEF Initialize, OpenSession
  <2>4. CASE InitializeRefused
    BY <2>4 DEF InitializeRefused, ClearedSid, Disturb
  <2>5. CASE Notify
    BY <2>5 DEF Notify, Disturb
  <2>6. CASE Register
    BY <2>6 DEF Register
  <2>7. CASE StartSSE
    <3>1. PICK s \in Stream :
            /\ at' = [at EXCEPT ![s] = "dial"]
            /\ from' = [from EXCEPT ![s] = sid]
            /\ handle' = s
      BY <2>7, StartEffect
    <3>2. at' \in [Stream -> Place] /\ from' \in [Stream -> 0 .. MaxStream] /\ handle' \in Stream
      BY <3>1 DEF Place
    <3>. QED BY <2>7, <3>2 DEF StartSSE
  <2>8. CASE Subscribed \/ SubscribeInbox
    BY <2>8 DEF Subscribed, SubscribeInbox, Rejected
  <2>9. CASE RpcFails
    <3>1. faults' \in 0 .. MaxFaults
      BY <2>9 DEF RpcFails, Disturb
    <3>. QED BY <2>9, <3>1 DEF RpcFails, ClearedSid
  <2>10. CASE Awake
    BY <2>10 DEF Awake
  <2>11. CASE GetMessages
    BY <2>11 DEF GetMessages, Msg
  <2>12. CASE InitializeCutOff
    BY <2>12 DEF InitializeCutOff, OpenSession, ClearedSid, Disturb
  <2>. QED BY <1>5, <2>1, <2>2, <2>3, <2>4, <2>5, <2>6, <2>7, <2>8, <2>9, <2>10, <2>11,
              <2>12
           DEF BridgeStep
<1>. QED BY <1>1, <1>2, <1>3, <1>4, <1>5 DEF Next

----------------------------------------------------------------------------
\* Goroutines and the handle

\* Steps that leave the bridge's goroutine where it is, and the contexts.
BridgeStays == UNCHANGED <<sid, handle, stopping, from, cancelled, pc>>

\* A goroutine that goes on within its loop stays alive.
LEMMA LoopStays ==
  ASSUME TypeOK, StreamInv, NEW s \in Stream, s \notin cancelled,
         Dial(s) \/ DialFails(s) \/ Event(s) \/ Pong(s) \/ EndOfStream(s) \/ Resume(s)
  PROVE  /\ Live' = Live
         /\ attached' \subseteq {n \in Stream : at'[n] \in {"read", "pong"}}
<1>. USE DEF TypeOK
<1>1. PICK p \in Place \ {"none", "done"} : at' = [at EXCEPT ![s] = p]
  <2>1. CASE Event(s)
    <3>1. at' = [at EXCEPT ![s] = "pong"] \/ at' = [at EXCEPT ![s] = at[s]]
      BY <2>1 DEF Event
    <3>. QED BY <2>1, <3>1 DEF Event, Place
  <2>. QED BY <2>1 DEF Dial, DialFails, Pong, EndOfStream, Resume, Place
<1>2. at[s] \notin {"none", "done"}
  BY DEF Dial, DialFails, Event, Pong, EndOfStream, Resume
<1>3. Live' = Live
  BY <1>1, <1>2 DEF Live
<1>4. attached' \subseteq attached \cup {s} /\ (s \in attached' => at'[s] \in {"read", "pong"})
  BY DEF Dial, DialFails, Event, Pong, EndOfStream, Resume, ReadError, StreamInv, netVars
<1>5. \A n \in Stream \ {s} : at'[n] = at[n]
  BY <1>1
<1>. QED BY <1>3, <1>4, <1>5 DEF StreamInv

\* Every step keeps the goroutines where the bridge expects them.
LEMMA StreamInductive ==
  ASSUME InductiveInv, [Next]_vars
  PROVE  StreamInv'
<1>. USE DEF InductiveInv
<1>1. CASE BridgeStays /\ Live' = Live
           /\ attached' \subseteq {n \in Stream : at'[n] \in {"read", "pong"}}
  BY <1>1 DEF StreamInv, BridgeStays
<1>2. CASE BridgeStays /\ UNCHANGED at /\ attached' \subseteq attached
  <2>1. Live' = Live
    BY <1>2 DEF Live
  <2>. QED BY <1>1, <1>2, <2>1 DEF StreamInv
<1>3. CASE UNCHANGED vars
  BY <1>2, <1>3 DEF vars, netVars, streamVars, BridgeStays
<1>4. CASE HubStep \/ Callback
  BY <1>2, <1>4 DEF HubStep, Arrive, Restart, SendPing, Break, Callback, netVars,
                    streamVars, BridgeStays
<1>5. ASSUME NEW s \in Stream, StreamStep(s) PROVE StreamInv'
  <2>1. CASE Exit(s)
    <3>1. Live' = Live \ {s} /\ s \in Live \cap cancelled
      BY <2>1 DEF Exit, Live, TypeOK
    <3>2. attached' \subseteq {n \in Stream : at'[n] \in {"read", "pong"}}
      BY <2>1 DEF Exit, StreamInv, TypeOK
    <3>3. BridgeStays
      BY <2>1 DEF Exit, BridgeStays
    <3>. QED BY <3>1, <3>2, <3>3 DEF StreamInv, BridgeStays
  <2>2. CASE /\ s \notin cancelled
             /\ Dial(s) \/ DialFails(s) \/ Event(s) \/ Pong(s) \/ EndOfStream(s) \/ Resume(s)
    <3>1. BridgeStays
      BY <2>2 DEF Dial, DialFails, Event, Pong, EndOfStream, Resume, BridgeStays
    <3>. QED BY <1>1, <2>2, <3>1, LoopStays
  <2>. QED BY <1>5, <2>1, <2>2 DEF StreamStep
<1>6. CASE BridgeStep
  <2>. USE DEF StreamInv
  <2>1. CASE StopSSE
    <3>1. Live' = Live /\ Live \subseteq Stream
      BY <2>1 DEF StopSSE, Live
    <3>2. 0 \notin Stream
      BY ClientAssumption DEF Stream
    <3>. QED BY <2>1, <3>1, <3>2 DEF StopSSE, netVars
  <2>2. CASE StopSSEReturns
    <3>1. Live = {} /\ Live' = Live
      BY <2>2 DEF StopSSEReturns, Stopped, Live, streamVars
    <3>. QED BY <2>2, <3>1 DEF StopSSEReturns, netVars, streamVars
  <2>3. CASE StartSSE
    <3>1. PICK s \in Stream :
            /\ at[s] = "none"
            /\ at' = [at EXCEPT ![s] = "dial"]
            /\ from' = [from EXCEPT ![s] = sid]
            /\ handle' = s
      BY <2>3, StartEffect
    <3>2. Live' = {s}
      <4>1. Live = {}
        BY <2>3 DEF StartSSE
      <4>2. at'[s] = "dial" /\ \A n \in Stream \ {s} : at'[n] = at[n]
        BY <3>1 DEF TypeOK
      <4>. HIDE DEF StreamInv
      <4>. QED BY <4>1, <4>2 DEF Live
    <3>3. s \notin cancelled
      BY <3>1 DEF StartInv
    <3>4. s \notin attached
      BY <3>1
    <3>. QED BY <2>3, <3>1, <3>2, <3>3, <3>4 DEF StartSSE, netVars, TypeOK
  <2>4. CASE /\ UNCHANGED <<netVars, streamVars, handle, stopping>>
             /\ \/ pc \in {"init", "notify", "register", "start"}
                   /\ pc' \in {"notify", "register", "start", "stop"}
                \/ /\ pc \in {"subscribe", "wait", "fetch"} /\ UNCHANGED sid
                   /\ pc' \in {"subscribe", "wait", "fetch", "stop"}
    <3>1. Live' = Live
      BY <2>4 DEF Live, streamVars
    <3>2. 0 \notin Stream /\ Live \subseteq Stream
      BY ClientAssumption DEF Stream, Live
    <3>3. 0 \notin cancelled
      BY <3>2 DEF TypeOK
    <3>. QED BY <2>4, <3>1, <3>2, <3>3 DEF netVars, streamVars
  <2>. QED BY <1>6, <2>1, <2>2, <2>3, <2>4
           DEF BridgeStep, Initialize, InitializeRefused, InitializeCutOff, Notify, Register,
               Subscribed, SubscribeInbox, RpcFails, Awake, GetMessages, streamsUnchanged
<1>. QED BY <1>3, <1>4, <1>5, <1>6 DEF Next

\* Every step leaves a stream for each session to come.
LEMMA StartInductive ==
  ASSUME InductiveInv, [Next]_vars
  PROVE  StartInv'
<1>. USE DEF InductiveInv, StartInv
<1>1. CASE UNCHANGED <<sid, lastSid, at, cancelled, pc>>
  BY <1>1
<1>2. CASE UNCHANGED vars
  BY <1>1, <1>2 DEF vars, hubVars, streamVars
<1>3. CASE HubStep \/ Callback
  BY <1>1, <1>3 DEF HubStep, Arrive, Restart, SendPing, Break, Callback, hubVars, streamVars
<1>4. ASSUME NEW s \in Stream, StreamStep(s) PROVE StartInv'
  <2>1. at[s] # "none" /\ \E p \in Place \ {"none"} : at' = [at EXCEPT ![s] = p]
    <3>1. CASE Event(s)
      <4>1. at' = [at EXCEPT ![s] = "pong"] \/ at' = [at EXCEPT ![s] = at[s]]
        BY <3>1 DEF Event, TypeOK
      <4>. QED BY <3>1, <4>1 DEF Event, Place
    <3>2. CASE Exit(s)
      BY <3>2 DEF Exit, Live, Place
    <3>. QED BY <1>4, <3>1, <3>2
             DEF StreamStep, Dial, DialFails, Pong, EndOfStream, Resume, Place
  <2>2. \A n \in Stream : at'[n] = "none" <=> at[n] = "none"
    BY <2>1 DEF TypeOK
  <2>3. UNCHANGED <<sid, lastSid, cancelled, pc>>
    BY <1>4 DEF StreamStep, Exit, Dial, DialFails, Event, Pong, EndOfStream, Resume, hubVars
  <2>. QED BY <2>2, <2>3
<1>5. CASE BridgeStep
  <2>. USE DEF hubVars, streamVars, streamsUnchanged, TypeOK
  <2>1. CASE StopSSE
    <3>1. handle # 0 => at[handle] # "none"
      BY <2>1 DEF StopSSE, StreamInv, Live
    <3>. QED BY <2>1, <3>1 DEF StopSSE
  <2>2. CASE StopSSEReturns
    BY <2>2 DEF StopSSEReturns
  <2>3. CASE Initialize
    <3>1. \A s \in Stream : at'[s] # "none" => s < lastSid'
      BY <2>3 DEF Initialize, OpenSession, Stream
    <3>2. \A s \in Stream : s < lastSid' => s <= lastSid'
      BY <2>3, ClientAssumption DEF Initialize, OpenSession, Stream
    <3>. QED BY <2>3, <3>1, <3>2 DEF Initialize, OpenSession
  <2>4. CASE InitializeRefused
    BY <2>4 DEF InitializeRefused, ClearedSid
  <2>5. CASE Notify \/ Register \/ Subscribed \/ SubscribeInbox \/ Awake \/ GetMessages
    BY <2>5 DEF Notify, Register, Subscribed, SubscribeInbox, Awake, GetMessages
  <2>6. CASE StartSSE
    <3>1. PICK s \in Stream :
            at[s] = "none" /\ s <= lastSid /\ at' = [at EXCEPT ![s] = "dial"]
      BY <2>6, StartEffect
    <3>. QED BY <2>6, <3>1 DEF StartSSE
  <2>7. CASE RpcFails
    BY <2>7 DEF RpcFails, ClearedSid, hubVars
  <2>8. CASE InitializeCutOff
    BY <2>8, ClientAssumption DEF InitializeCutOff, OpenSession, ClearedSid, Stream
  <2>. QED BY <1>5, <2>1, <2>2, <2>3, <2>4, <2>5, <2>6, <2>7, <2>8 DEF BridgeStep
<1>. QED BY <1>2, <1>3, <1>4, <1>5 DEF Next

----------------------------------------------------------------------------
\* Pushes and callbacks

\* The first event of a stream, and what is left once it is flushed.
LEMMA EventEffect ==
  ASSUME TypeOK, NEW s \in Stream, wire[s] # <<>>
  PROVE  /\ 1 \in DOMAIN wire[s] /\ Head(wire[s]) = wire[s][1]
         /\ \A i \in DOMAIN Tail(wire[s]) :
              /\ i \in Nat \ {0}
              /\ i + 1 \in DOMAIN wire[s]
              /\ Tail(wire[s])[i] = wire[s][i + 1]
<1>. DEFINE w == wire[s]
<1>1. w \in Seq(Msg \cup {Ping}) /\ w # <<>>
  BY DEF TypeOK
<1>. HIDE DEF w
<1>2. /\ Len(w) \in Nat \ {0} /\ DOMAIN w = 1 .. Len(w)
      /\ Len(Tail(w)) = Len(w) - 1 /\ Tail(w) \in Seq(Msg \cup {Ping})
      /\ Head(w) = w[1]
      /\ \A i \in 1 .. Len(Tail(w)) : Tail(w)[i] = w[i + 1]
  BY <1>1, EmptySeq, LenProperties, HeadTailProperties
<1>3. DOMAIN Tail(w) = 1 .. Len(Tail(w))
  BY <1>2, LenProperties
<1>4. \A i \in 1 .. Len(Tail(w)) : i + 1 \in 1 .. Len(w)
  BY <1>2
<1>. QED BY <1>2, <1>3, <1>4 DEF w

\* Every step keeps pushes ahead of callbacks.
LEMMA WireInductive ==
  ASSUME InductiveInv, [Next]_vars
  PROVE  WireInv'
<1>. USE DEF InductiveInv
<1>1. CASE /\ UNCHANGED <<sent, wire, callbacks>>
           /\ \A s \in Stream : at'[s] \in {"read", "pong"} => at[s] \in {"read", "pong"}
  BY <1>1 DEF WireInv
<1>2. CASE UNCHANGED <<sent, wire, callbacks, at>>
  BY <1>1, <1>2
<1>3. CASE UNCHANGED vars
  BY <1>2, <1>3 DEF vars, hubVars, netVars, streamVars, bridgeVars
<1>4. CASE HubStep
  <2>1. CASE Arrive
    <3>1. UNCHANGED <<at, callbacks>> /\ sent' = sent + 1
      BY <2>1 DEF Arrive, streamVars, bridgeVars
    <3>2. callbacks \in Nat /\ sent \in Nat /\ callbacks <= sent
      BY DEF TypeOK, WireInv
    <3>3. ASSUME NEW s \in Stream, at[s] \in {"read", "pong"},
                 NEW i \in DOMAIN wire'[s], wire'[s][i] # Ping
          PROVE  /\ callbacks < wire'[s][i] /\ wire'[s][i] <= sent + 1
                 /\ \A j \in DOMAIN wire'[s] : j < i => wire'[s][j] < wire'[s][i]
      <4>1. \A k \in DOMAIN wire[s] : wire[s][k] # Ping => 
               /\ callbacks < wire[s][k] /\ wire[s][k] <= sent
               /\ \A j \in DOMAIN wire[s] : j < k => wire[s][j] < wire[s][k]
        BY <3>3 DEF WireInv
      <4>2. wire[s] \in Seq(Msg \cup {Ping})
        BY DEF TypeOK
      <4>3. /\ DOMAIN wire[s] = 1 .. Len(wire[s]) /\ Len(wire[s]) \in Nat
            /\ \A k \in DOMAIN wire[s] : wire[s][k] \in Nat
        BY <4>2, LenProperties, ElementOfSeq, ClientAssumption DEF Msg, Ping
      <4>4. CASE wire'[s] = wire[s]
        BY <3>2, <3>3, <4>1, <4>3, <4>4
      <4>5. CASE wire'[s] = Append(wire[s], sent + 1)
        <5>1. /\ DOMAIN wire'[s] = 1 .. Len(wire[s]) + 1
              /\ \A k \in 1 .. Len(wire[s]) : wire'[s][k] = wire[s][k]
              /\ wire'[s][Len(wire[s]) + 1] = sent + 1
          <6>1. sent + 1 \in Msg \cup {Ping}
            BY <2>1, <3>2, ClientAssumption DEF Arrive, Msg
          <6>. QED BY <4>2, <4>5, <6>1, AppendProperties, LenProperties
        <5>2. \A k \in 1 .. Len(wire[s]) : wire[s][k] <= sent
          BY <3>2, <4>1, <4>3 DEF Ping
        <5>3. CASE i = Len(wire[s]) + 1
          BY <3>2, <4>3, <5>1, <5>2, <5>3
        <5>4. CASE i \in 1 .. Len(wire[s])
          <6>1. /\ callbacks < wire[s][i] /\ wire[s][i] <= sent /\ wire[s][i] \in Nat
                /\ \A j \in DOMAIN wire[s] : j < i => wire[s][j] < wire[s][i]
            BY <3>3, <4>1, <4>3, <5>1, <5>4
          <6>2. \A j \in DOMAIN wire'[s] : j < i => j \in DOMAIN wire[s]
            BY <4>3, <5>1, <5>4
          <6>3. wire[s][i] <= sent + 1
            BY <3>2, <6>1
          <6>. QED BY <4>3, <5>1, <5>4, <6>1, <6>2, <6>3
        <5>. QED BY <4>3, <5>1, <5>3, <5>4
      <4>. QED BY <2>1, <4>4, <4>5 DEF Arrive, TypeOK
    <3>. QED BY <3>1, <3>2, <3>3 DEF WireInv
  <2>2. ASSUME NEW s \in Stream, SendPing(s) PROVE WireInv'
    <3>1. UNCHANGED <<sent, callbacks, at>> /\ wire' = [wire EXCEPT ![s] = Append(@, Ping)]
      BY <2>2 DEF SendPing, hubVars, streamVars, bridgeVars
    <3>2. wire[s] \in Seq(Msg \cup {Ping}) /\ wire'[s] = Append(wire[s], Ping)
      BY <3>1 DEF TypeOK
    <3>3. /\ DOMAIN wire[s] = 1 .. Len(wire[s]) /\ Len(wire[s]) \in Nat
          /\ DOMAIN wire'[s] = 1 .. Len(wire[s]) + 1
          /\ \A k \in 1 .. Len(wire[s]) : wire'[s][k] = wire[s][k]
          /\ wire'[s][Len(wire[s]) + 1] = Ping
      BY <3>2, AppendProperties, LenProperties
    <3>4. \A i \in DOMAIN wire'[s] : wire'[s][i] # Ping =>
            /\ i \in DOMAIN wire[s]
            /\ \A j \in DOMAIN wire'[s] : j < i => j \in DOMAIN wire[s]
      BY <3>3
    <3>5. \A n \in Stream \ {s} : wire'[n] = wire[n]
      BY <3>1 DEF TypeOK
    <3>. QED BY <3>1, <3>3, <3>4, <3>5 DEF WireInv
  <2>. QED BY <1>2, <1>4, <2>1, <2>2
           DEF HubStep, Restart, Break, hubVars, streamVars, bridgeVars
<1>5. ASSUME NEW s \in Stream, StreamStep(s) PROVE WireInv'
  <2>1. CASE Dial(s)
    <3>1. UNCHANGED <<sent, callbacks>>
      BY <2>1 DEF Dial, hubVars, bridgeVars
    <3>2. wire'[s] = <<>> /\ DOMAIN wire'[s] = {}
      BY <2>1, EmptySeq DEF Dial, TypeOK
    <3>3. \A n \in Stream \ {s} : at'[n] = at[n] /\ wire'[n] = wire[n]
      BY <2>1 DEF Dial, TypeOK
    <3>. QED BY <3>1, <3>2, <3>3 DEF WireInv
  <2>2. CASE Event(s)
    <3>. DEFINE w == wire[s]
    <3>1. at[s] = "read" /\ w # <<>> /\ UNCHANGED sent
          /\ wire' = [wire EXCEPT ![s] = Tail(w)]
      BY <2>2 DEF Event, LinesFlushed, hubVars
    <3>2. \A n \in Stream \ {s} : at'[n] \notin {"read", "pong"}
      <4>1. Live \subseteq {s}
        BY <3>1 DEF StreamInv, Live, TypeOK, Step
      <4>2. \A n \in Stream \ {s} : at'[n] = at[n]
        BY <2>2 DEF Event, TypeOK
      <4>. QED BY <4>1, <4>2 DEF Live
    <3>3. /\ 1 \in DOMAIN w /\ Head(w) = w[1]
          /\ \A i \in DOMAIN Tail(w) : i \in Nat \ {0} /\ i + 1 \in DOMAIN w /\ Tail(w)[i] = w[i + 1]
      BY <3>1, EventEffect
    <3>4. wire'[s] = Tail(w)
      BY <3>1 DEF TypeOK
    <3>5. \A i \in DOMAIN w : w[i] # Ping =>
            /\ callbacks < w[i] /\ w[i] <= sent
            /\ \A j \in DOMAIN w : j < i => w[j] < w[i]
      BY <3>1 DEF WireInv
    <3>6. \A i \in DOMAIN w : w[i] \in Nat
      BY ElementOfSeq, LenProperties, ClientAssumption DEF TypeOK, Msg, Ping
    <3>7. callbacks \in Nat /\ sent \in Nat /\ callbacks <= sent
      BY DEF TypeOK, WireInv
    <3>8. callbacks' \in Nat /\ callbacks' <= sent
          /\ \A i \in DOMAIN w : 1 < i /\ w[i] # Ping => callbacks' < w[i]
      <4>1. CASE Head(w) = Ping
        <5>1. callbacks' = callbacks
          BY <2>2, <4>1 DEF Event
        <5>. QED BY <3>5, <3>7, <5>1
      <4>2. CASE Head(w) # Ping
        <5>1. callbacks' = callbacks + 1
          BY <2>2, <4>2 DEF Event
        <5>2. callbacks < w[1] /\ w[1] <= sent
          BY <3>3, <3>5, <4>2
        <5>3. \A i \in DOMAIN w : 1 < i /\ w[i] # Ping => w[1] < w[i]
          BY <3>3, <3>5
        <5>. HIDE DEF w
        <5>. QED BY <3>3, <3>6, <3>7, <5>1, <5>2, <5>3
      <4>. QED BY <4>1, <4>2
    <3>9. ASSUME NEW i \in DOMAIN Tail(w), Tail(w)[i] # Ping
          PROVE  /\ callbacks' < Tail(w)[i] /\ Tail(w)[i] <= sent
                 /\ \A j \in DOMAIN Tail(w) : j < i => Tail(w)[j] < Tail(w)[i]
      <4>1. /\ i + 1 \in DOMAIN w /\ Tail(w)[i] = w[i + 1] /\ 1 < i + 1
            /\ \A j \in DOMAIN Tail(w) : j < i =>
                 j + 1 \in DOMAIN w /\ Tail(w)[j] = w[j + 1] /\ j + 1 < i + 1
        BY <3>3
      <4>. HIDE DEF w
      <4>. QED BY <3>5, <3>8, <3>9, <4>1
    <3>. HIDE DEF w
    <3>. QED BY <3>1, <3>2, <3>4, <3>8, <3>9 DEF WireInv
  <2>3. CASE Exit(s) \/ DialFails(s) \/ Pong(s) \/ EndOfStream(s) \/ Resume(s)
    <3>1. UNCHANGED <<sent, wire, callbacks>>
      BY <2>3 DEF Exit, DialFails, Pong, EndOfStream, Resume, hubVars, netVars, bridgeVars
    <3>2. \A n \in Stream : at'[n] \in {"read", "pong"} => at[n] \in {"read", "pong"}
      BY <2>3 DEF Exit, DialFails, Pong, EndOfStream, Resume, TypeOK
    <3>. QED BY <1>1, <3>1, <3>2
  <2>. QED BY <1>5, <2>1, <2>2, <2>3 DEF StreamStep
<1>6. CASE Callback
  <2>1. UNCHANGED <<sent, wire, at>> /\ callbacks' = callbacks - 1 /\ callbacks > 0
    BY <1>6 DEF Callback, hubVars, netVars, streamVars
  <2>2. callbacks \in Nat /\ sent \in Nat
    BY DEF TypeOK
  <2>3. ASSUME NEW s \in Stream, NEW i \in DOMAIN wire[s], callbacks < wire[s][i]
        PROVE  callbacks - 1 < wire[s][i]
    <3>1. wire[s][i] \in Nat
      BY ElementOfSeq, LenProperties, ClientAssumption DEF TypeOK, Msg, Ping
    <3>. QED BY <2>2, <2>3, <3>1
  <2>. QED BY <2>1, <2>2, <2>3 DEF WireInv
<1>7. CASE BridgeStep
  <2>1. CASE StartSSE
    <3>1. UNCHANGED <<sent, wire, callbacks>>
      BY <2>1 DEF StartSSE, hubVars, netVars, bridgeVars
    <3>2. PICK s \in Stream : at' = [at EXCEPT ![s] = "dial"]
      BY <2>1, StartEffect
    <3>3. \A n \in Stream : at'[n] \in {"read", "pong"} => at[n] \in {"read", "pong"}
      BY <3>2 DEF TypeOK
    <3>. QED BY <1>1, <3>1, <3>3
  <2>. QED BY <1>2, <1>7, <2>1
           DEF BridgeStep, StopSSE, StopSSEReturns, Initialize, InitializeRefused,
               InitializeCutOff, OpenSession, Notify, Register, Subscribed, SubscribeInbox,
               RpcFails, Awake, GetMessages, streamsUnchanged, hubVars, netVars, streamVars,
               bridgeVars
<1>. QED BY <1>3, <1>4, <1>5, <1>6, <1>7 DEF Next

----------------------------------------------------------------------------
\* The theorems

\* The invariant is inductive, so it holds in every reachable state.
THEOREM Invariance == Spec => []InductiveInv
<1>1. Init => InductiveInv
  <2>. SUFFICES ASSUME Init PROVE InductiveInv
    OBVIOUS
  <2>. USE ClientAssumption DEF Init
  <2>1. TypeOK
    BY EmptySeq DEF TypeOK, Place, Step
  <2>2. StreamInv
    BY DEF StreamInv, Live
  <2>3. StartInv /\ WireInv
    BY DEF StartInv, WireInv
  <2>. QED BY <2>1, <2>2, <2>3 DEF InductiveInv
<1>2. InductiveInv /\ [Next]_vars => InductiveInv'
  BY TypeInductive, StreamInductive, StartInductive, WireInductive DEF InductiveInv
<1>. QED BY <1>1, <1>2, PTL DEF Spec

\* Every variable keeps its type: no more goroutines are started than the
\* bridge has sessions, no more callbacks wait than messages have arrived, and
\* a session that subscribes is one the hub knows.
THEOREM TypeCorrect == Spec => []TypeOK
BY Invariance, PTL DEF InductiveInv

\* A bridge that reconnects in the documented order never has a goroutine of an
\* earlier connection beside the present one, whatever fails on the way.
THEOREM OneStream == Spec => []OneStreamPerSession
<1>1. InductiveInv => OneStreamPerSession
  BY DEF InductiveInv, StreamInv, OneStreamPerSession
<1>. QED BY <1>1, Invariance, PTL

=============================================================================
