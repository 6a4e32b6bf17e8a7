-------------------------- MODULE ConnectionProofs --------------------------
(***************************************************************************)
(* Whatever SDK, arguments, environments and disturbances: a connection    *)
(* that is over has closed what it opened, its sessions speak with one     *)
(* identity, and its body runs registered.                                 *)
(*                                                                         *)
(* The code counts nothing: which contexts are entered follows from the    *)
(* await the application is in.  EnteredInv says how, and that `open`      *)
(* keeps up with it but for the clients that were rejected.                *)
(***************************************************************************)
EXTENDS Connection, MessageOrderProofs

\* Which contexts are entered at which await.
EnteredInv ==
  /\ open = entered["outer"] + entered["inner"] + rejected
  /\ at = "out" => entered["outer"] = 0
  /\ entered["outer"] = 0 => entered["inner"] = 0
  /\ at \in {"register", "subscribe", "listen"} => sess = "outer"
  /\ at \in {"fetch", "serve", "leave"} => sess = "inner"
  /\ at \in {"open", "initialize"} /\ sess = "outer" => entered["inner"] = 0
  /\ at = "open" => entered[sess] < Contexts
  /\ at \in {"initialize", "register", "subscribe", "listen", "fetch", "serve"}
       => entered[sess] = Contexts
  /\ at \in {"register", "subscribe", "listen"} => entered["inner"] = 0
  /\ at \notin {"out", "unwind"} /\ sess = "inner" => entered["outer"] = Contexts
  /\ at = "leave" => entered["inner"] > 0

\* Where the sessions' configurations come from.
ConfInv ==
  at # "out" =>
    /\ Complete(conf["outer"])
    /\ \A f \in Field : Present(args[f]) => conf["outer"][f] = args[f]
    /\ sess = "inner" => conf["inner"] = conf["outer"]

IInv ==
  /\ TypeOK
  /\ at = "serve" => batch # {}
  /\ EnteredInv
  /\ ConfInv
  /\ EnteredIsVisible

----------------------------------------------------------------------------

\* What resolve_config returns: a Config, in which what the caller passed wins.
LEMMA ResolveWins ==
  ASSUME TypeOK
  PROVE  /\ Resolve(args, env) \in [Field -> Value]
         /\ \A f \in Field : Present(args[f]) => Resolve(args, env)[f] = args[f]
<1>1. args \in [Field -> Value] /\ env \in [Field -> Value]
  BY ConnectionAssumption DEF TypeOK
<1>2. Resolve(args, env) \in [Field -> Value]
  BY <1>1 DEF Resolve
<1>3. ASSUME NEW f \in Field, Present(args[f])
      PROVE  Resolve(args, env)[f] = args[f]
  BY <1>3 DEF Resolve, Present
<1> QED
  BY <1>2, <1>3

LEMMA InitIInv == Init => IInv
<1> SUFFICES ASSUME Init PROVE IInv
  OBVIOUS
<1> USE DEF Init
<1>1. TypeOK
  <2>1. conf \in [Session -> [Field -> Value]]
    BY DEF Value
  <2>2. entered \in [Session -> 0 .. 2]
    OBVIOUS
  <2>3. MaxMsg \in Nat /\ PushCap \in Nat /\ MaxFaults \in Nat
    BY ConnectionAssumption
  <2>4. /\ pushing \subseteq 1 .. sent /\ announced \subseteq 1 .. sent
        /\ read \subseteq 1 .. sent /\ batch \subseteq 1 .. sent
    OBVIOUS
  <2>5. sent \in 0 .. MaxMsg /\ queue \in 0 .. PushCap /\ faults \in 0 .. MaxFaults
    BY <2>3
  <2> QED
    BY <2>1, <2>2, <2>4, <2>5 DEF TypeOK, At, Session
<1>2. EnteredInv
  BY DEF EnteredInv, Session
<1>3. ConfInv /\ EnteredIsVisible
  BY DEF ConfInv, EnteredIsVisible, Entered
<1> QED
  BY <1>1, <1>2, <1>3 DEF IInv

\* What the hub and the rest of the world do touches no context, no Config and
\* no await, and takes the registration only with the session.
LEMMA WorldStep ==
  ASSUME IInv, Arrive \/ Deliver \/ HubSubscribes \/ HubFails \/ EnvChanges
  PROVE  IInv'
<1> USE DEF IInv, opened, mail, sse, push, input
<1>1. UNCHANGED <<lang, args, conf, at, sess, entered, open, rejected, batch>>
  BY DEF Arrive, Deliver, HubSubscribes, HubFails, EnvChanges
<1>2. TypeOK'
  <2> MaxMsg \in Nat /\ MaxFaults \in Nat
    BY ConnectionAssumption
  <2>1. CASE Arrive
    <3>1. sent' \in 0 .. MaxMsg /\ sent' = sent + 1 /\ 1 .. sent \subseteq 1 .. sent'
      BY <2>1 DEF Arrive, TypeOK
    <3>2. pushing' \subseteq 1 .. sent'
      BY <2>1, <3>1 DEF Arrive, TypeOK
    <3> QED
      BY <2>1, <3>1, <3>2 DEF Arrive, TypeOK
  <2>2. CASE Deliver
    BY <2>2, ConnectionAssumption DEF Deliver, TypeOK, PushRoom
  <2>3. CASE HubSubscribes
    BY <2>3 DEF HubSubscribes, TypeOK
  <2>4. CASE HubFails
    <3>1. faults' \in 0 .. MaxFaults
      BY <2>4 DEF HubFails, Disturb, TypeOK
    <3> QED
      BY <2>4, <3>1 DEF HubFails, TypeOK
  <2>5. CASE EnvChanges
    <3>1. faults' \in 0 .. MaxFaults
      BY <2>5 DEF EnvChanges, Disturb, TypeOK
    <3> QED
      BY <2>5, <3>1 DEF EnvChanges, TypeOK
  <2> QED
    BY <2>1, <2>2, <2>3, <2>4, <2>5
<1>3. EnteredInv' /\ ConfInv'
  BY <1>1 DEF EnteredInv, ConfInv, Contexts
<1>4. EnteredIsVisible'
  BY <1>1 DEF EnteredIsVisible, Entered, Arrive, Deliver, HubSubscribes, HubFails,
              EnvChanges
<1> QED
  BY <1>1, <1>2, <1>3, <1>4

LEMMA ConnectStep == ASSUME IInv, Connect PROVE IInv'
<1> USE DEF IInv, Connect, opened, mail, sse, push, input
<1>1. TypeOK'
  BY ResolveWins, ConnectionAssumption DEF TypeOK, At, Connecting, Session
<1>2. EnteredInv'
  BY DEF EnteredInv, Contexts, Session, TypeOK
<1>3. ConfInv'
  BY ResolveWins DEF ConfInv, TypeOK, Session
<1> QED
  BY <1>1, <1>2, <1>3 DEF EnteredIsVisible, Entered

LEMMA EnterStep == ASSUME IInv, Enter PROVE IInv'
<1> USE DEF IInv, Enter, opened, mail, sse, push, input
<1>1. entered[sess] + 1 <= Contexts /\ Contexts \in {1, 2}
  BY DEF EnteredInv, Contexts, TypeOK, Session
<1>2. TypeOK'
  BY <1>1 DEF TypeOK, At, Connecting, Session
<1>3. EnteredInv'
  BY <1>1 DEF EnteredInv, Contexts, Session, TypeOK
<1>4. ConfInv' /\ EnteredIsVisible'
  BY DEF ConfInv, EnteredIsVisible, Entered
<1> QED
  BY <1>2, <1>3, <1>4

LEMMA AnsweredStep == ASSUME IInv, Answered PROVE IInv'
<1> USE DEF IInv, Answered, opened, mail, sse, push, input
<1>1. TypeOK'
  BY DEF TypeOK, At, Connecting, Confirmed
<1>2. EnteredInv'
  BY DEF EnteredInv, Contexts, Session, TypeOK
<1>3. ConfInv' /\ EnteredIsVisible'
  BY DEF ConfInv, EnteredIsVisible, Entered, Confirmed, EnteredInv, TypeOK, Session
<1> QED
  BY <1>1, <1>2, <1>3

LEMMA WorkerStep == ASSUME IInv, TakePush \/ Fetch \/ Serve PROVE IInv'
<1> USE DEF IInv, opened, mail, sse, push, input
<1>1. CASE TakePush
  <2>1. TypeOK'
    BY <1>1, ConnectionAssumption DEF TakePush, TypeOK, At, Connecting, Session, SameConfig
  <2>2. EnteredInv'
    BY <1>1 DEF TakePush, EnteredInv, Contexts, Session, TypeOK
  <2>3. ConfInv' /\ EnteredIsVisible'
    BY <1>1 DEF TakePush, ConfInv, EnteredIsVisible, Entered, TypeOK, Session, SameConfig
  <2> QED
    BY <1>1, <2>1, <2>2, <2>3 DEF TakePush
<1>2. CASE Fetch
  <2>1. TypeOK' /\ (at' = "serve" => batch' # {})
    BY <1>2 DEF Fetch, TypeOK, At, Connecting
  <2>2. EnteredInv'
    BY <1>2 DEF Fetch, EnteredInv, Contexts, Session, TypeOK
  <2>3. ConfInv' /\ EnteredIsVisible'
    BY <1>2 DEF Fetch, ConfInv, EnteredIsVisible, Entered
  <2> QED
    BY <2>1, <2>2, <2>3
<1>3. CASE Serve
  <2>1. Least(batch) \in batch
    <3>1. sent \in Nat /\ batch \in SUBSET (1 .. sent) /\ batch # {}
      BY <1>3, ConnectionAssumption DEF Serve, TypeOK
    <3> QED
      BY <3>1, LeastExists
  <2>2. TypeOK' /\ (at' = "serve" => batch' # {})
    BY <1>3, <2>1 DEF Serve, TypeOK, At, Connecting
  <2>3. EnteredInv'
    BY <1>3 DEF Serve, EnteredInv, Contexts, Session, TypeOK
  <2>4. ConfInv' /\ EnteredIsVisible'
    BY <1>3 DEF Serve, ConfInv, EnteredIsVisible, Entered
  <2> QED
    BY <2>2, <2>3, <2>4
<1> QED
  BY <1>1, <1>2, <1>3

\* Failing or leaving closes nothing yet; only JavaScript's rejected client is
\* given up at once.
LEMMA GiveUpStep == ASSUME IInv, Raise \/ Leave PROVE IInv'
<1> USE DEF IInv, opened, mail, sse, push, input
<1>1. CASE Raise
  <2>1. at = "serve" => Least(batch) \in batch
    <3>1. sent \in Nat /\ batch \in SUBSET (1 .. sent)
      BY ConnectionAssumption DEF TypeOK
    <3> QED
      BY <3>1, LeastExists
  <2>2. TypeOK'
    <3>1. read' \subseteq 1 .. sent
      BY <1>1, <2>1 DEF Raise, TypeOK
    <3>2. faults' \in 0 .. MaxFaults
      BY <1>1, ConnectionAssumption DEF Raise, Disturb, TypeOK
    <3>3. entered' \in [Session -> 0 .. 2] /\ rejected' \in Nat
      BY <1>1 DEF Raise, TypeOK
    <3> QED
      BY <1>1, <3>1, <3>2, <3>3 DEF Raise, TypeOK, At
  <2>3. EnteredInv'
    <3>1. CASE NobodysClient
      BY <1>1, <3>1 DEF Raise, NobodysClient, EnteredInv, Contexts, Session, TypeOK
    <3>2. CASE ~NobodysClient
      BY <1>1, <3>2 DEF Raise, NobodysClient, EnteredInv, Contexts, Session, TypeOK
    <3> QED
      BY <3>1, <3>2
  <2>4. ConfInv' /\ EnteredIsVisible'
    BY <1>1 DEF Raise, ConfInv, EnteredIsVisible, Entered, Connecting
  <2> QED
    BY <1>1, <2>2, <2>3, <2>4 DEF Raise
<1>2. CASE Leave
  <2>1. TypeOK'
    <3>1. faults' \in 0 .. MaxFaults
      BY <1>2, ConnectionAssumption DEF Leave, Disturb, TypeOK
    <3> QED
      BY <1>2, <3>1 DEF Leave, TypeOK, At
  <2>2. EnteredInv'
    BY <1>2 DEF Leave, EnteredInv, Contexts
  <2>3. ConfInv' /\ EnteredIsVisible'
    BY <1>2 DEF Leave, ConfInv, EnteredIsVisible, Entered
  <2> QED
    BY <1>2, <2>1, <2>2, <2>3 DEF Leave
<1> QED
  BY <1>1, <1>2

LEMMA CloseStep == ASSUME IInv, CloseInner \/ Unwind PROVE IInv'
<1> USE DEF IInv, opened, mail, sse, push, input
<1>1. CASE CloseInner
  <2> USE <1>1 DEF CloseInner, CloseContext
  <2>1. TypeOK'
    BY DEF TypeOK, At, Session, EnteredInv
  <2>2. EnteredInv'
    BY DEF EnteredInv, Contexts, Session, TypeOK
  <2>3. ConfInv' /\ EnteredIsVisible'
    BY DEF ConfInv, EnteredIsVisible, Entered
  <2> QED
    BY <2>1, <2>2, <2>3
<1>2. CASE Unwind
  <2>1. entered' \in [Session -> 0 .. 2] /\ open' \in Nat
    BY <1>2 DEF Unwind, CloseContext, TypeOK, Session, EnteredInv
  <2>4. TypeOK'
    BY <1>2, <2>1 DEF Unwind, CloseContext, TypeOK, At
  <2>2. EnteredInv'
    BY <1>2 DEF Unwind, CloseContext, EnteredInv, Contexts, Session, TypeOK
  <2>3. ConfInv' /\ EnteredIsVisible'
    BY <1>2 DEF Unwind, ConfInv, EnteredIsVisible, Entered
  <2> QED
    BY <1>2, <2>2, <2>3, <2>4 DEF Unwind
<1> QED
  BY <1>1, <1>2

\* The awaits tell which contexts are entered, and the Configs stay what
\* connect() resolved: the invariant the other theorems follow from.
THEOREM ConnectionInvariant == Spec => []IInv
<1>1. ASSUME IInv, [Next]_vars PROVE IInv'
  <2>1. CASE UNCHANGED vars
    BY <1>1, <2>1 DEF vars, input, opened, sse, mail, push, IInv, TypeOK, EnteredInv,
       ConfInv, EnteredIsVisible, Entered, Contexts
  <2>2. CASE Next
    BY <1>1, <2>2, WorldStep, ConnectStep, EnterStep, AnsweredStep, WorkerStep,
       GiveUpStep, CloseStep DEF Next, Work
  <2> QED
    BY <1>1, <2>1, <2>2
<1> QED
  BY <1>1, InitIInv, PTL DEF Spec

\* Every variable of a connection keeps its type; the queue keeps its bound.
THEOREM TypeCorrect == Spec => []TypeOK
<1>1. IInv => TypeOK
  BY DEF IInv
<1> QED
  BY <1>1, ConnectionInvariant, PTL

\* Wherever connect(), one_shot() or the worker fails, is cancelled or left,
\* everything is closed, JavaScript's rejected clients apart.
THEOREM EverythingCloses == Spec => []NothingLeftOpen
<1>1. IInv => NothingLeftOpen
  BY DEF IInv, TypeOK, EnteredInv, NothingLeftOpen, Session, Contexts
<1> QED
  BY <1>1, ConnectionInvariant, PTL

\* One identity per connection, the caller's arguments first, however the
\* environment changes.
THEOREM IdentityKept == Spec => []OneIdentity
<1>1. IInv => OneIdentity
  BY DEF IInv, ConfInv, OneIdentity, Complete
<1> QED
  BY <1>1, ConnectionInvariant, PTL

\* The body of connect() runs registered.
THEOREM VisibleInside == Spec => []EnteredIsVisible
<1>1. IInv => EnteredIsVisible
  BY DEF IInv
<1> QED
  BY <1>1, ConnectionInvariant, PTL

=============================================================================
