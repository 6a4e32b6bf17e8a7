--------------------------- MODULE GoReadersProofs --------------------------
(***************************************************************************)
(* The two algorithms of the Go SDK on the lines it reads: the rate limit  *)
(* of OversizeWarn, for any number of readers, any sizes and any threshold *)
(* above zero, and the two event readers of SseReader, for every stream.   *)
(***************************************************************************)
EXTENDS OversizeWarn, SseReader, MessageOrderProofs

----------------------------------------------------------------------------
\* The rate limit of the warnings


\* One step of one reader, or none, keeps the types.
LEMMA TypeStep == ASSUME TypeOK, [Next]_vars PROVE TypeOK'
<1> USE WarnAssumption DEF TypeOK
<1>1. CASE UNCHANGED vars
  BY <1>1 DEF vars
<1>2. ASSUME NEW r \in Reader, ReadLine(r) PROVE TypeOK'
  BY <1>2 DEF ReadLine
<1>3. ASSUME NEW r \in Reader, Load(r) PROVE TypeOK'
  BY <1>3 DEF Load
<1>4. ASSUME NEW r \in Reader, Swap(r) PROVE TypeOK'
  BY <1>4 DEF Swap
<1>5. ASSUME NEW r \in Reader, SwapFails(r) PROVE TypeOK'
  BY <1>5 DEF SwapFails, LoopHead
<1> QED
  BY <1>1, <1>2, <1>3, <1>4, <1>5 DEF Next, Warn

\* A line that has come is in the hands of its reader.
LEMMA ReadLineStep ==
  ASSUME InductiveInv, NEW r \in Reader, ReadLine(r), TypeOK'
  PROVE  InductiveInv'
<1> USE WarnAssumption DEF InductiveInv, TypeOK, ReadLine
<1>1. LastWarned'
  BY DEF LastWarned
<1>2. ReadersKnow'
  BY DEF ReadersKnow
<1>3. WarnsDouble'
  BY DEF WarnsDouble
<1>4. WorstInHand'
  <2>1. CASE worst' = worst /\ ~ \E q \in Reader : at[q] # "read" /\ n[q] = worst
    BY <2>1 DEF WorstInHand
  <2>2. CASE worst' = worst /\ \E q \in Reader : at[q] # "read" /\ n[q] = worst
    <3>1. PICK q \in Reader : at[q] # "read" /\ n[q] = worst
      BY <2>2
    <3>2. q # r
      BY <3>1
    <3> QED
      BY <2>2, <3>1, <3>2 DEF WorstInHand
  <2>3. CASE worst' # worst
    <3>1. at'[r] # "read" /\ n'[r] = worst'
      BY <2>3
    <3> QED
      BY <3>1 DEF WorstInHand
  <2> QED
    BY <2>1, <2>2, <2>3
<1> QED
  BY <1>1, <1>2, <1>3, <1>4

\* A reader that turns away has a line below twice the last warning.
LEMMA LoadStep ==
  ASSUME InductiveInv, NEW r \in Reader, Load(r), TypeOK'
  PROVE  InductiveInv'
<1> USE WarnAssumption DEF InductiveInv, TypeOK, Load
<1>1. LastWarned'
  BY DEF LastWarned
<1>2. ReadersKnow'
  BY DEF ReadersKnow, Suppressed
<1>3. WarnsDouble'
  BY DEF WarnsDouble
<1>4. WorstInHand'
  <2>1. CASE worst = 0 \/ worst < 2 * warnedBytes
    BY <2>1 DEF WorstInHand
  <2>2. CASE \E q \in Reader : at[q] # "read" /\ n[q] = worst
    <3>1. PICK q \in Reader : at[q] # "read" /\ n[q] = worst
      BY <2>2
    <3>2. CASE q = r /\ Suppressed(r)
      BY <3>1, <3>2 DEF WorstInHand, Suppressed
    <3>3. CASE q # r \/ ~Suppressed(r)
      <4>1. at'[q] # "read" /\ n'[q] = worst'
        BY <3>1, <3>3
      <4> QED
        BY <4>1 DEF WorstInHand
    <3> QED
      BY <3>2, <3>3
  <2> QED
    BY <2>1, <2>2 DEF WorstInHand
<1> QED
  BY <1>1, <1>2, <1>3, <1>4

\* A swap that succeeds finds the value it compared with: the new size is at
\* least twice the last.
LEMMA SwapStep ==
  ASSUME InductiveInv, NEW r \in Reader, Swap(r), TypeOK'
  PROVE  InductiveInv'
<1> USE WarnAssumption DEF InductiveInv, TypeOK, Swap, Unchanged
<1>1. n[r] >= Threshold /\ n[r] \in Nat
  BY DEF ReadersKnow
<1>2. warnedBytes = 0 \/ n[r] >= 2 * warnedBytes
  BY DEF ReadersKnow
<1>3. /\ Len(warns') = Len(warns) + 1
      /\ warns'[Len(warns) + 1] = n[r]
      /\ \A i \in 1 .. Len(warns) : warns'[i] = warns[i]
  BY <1>1
<1>4. LastWarned'
  BY <1>1, <1>3 DEF LastWarned
<1>5. ReadersKnow'
  BY DEF ReadersKnow
<1>6. WarnsDouble'
  <2> SUFFICES ASSUME NEW i \in 1 .. Len(warns)
               PROVE  warns'[i + 1] >= 2 * warns'[i]
    BY <1>3 DEF WarnsDouble
  <2>1. CASE i < Len(warns)
    BY <2>1, <1>3 DEF WarnsDouble
  <2>2. CASE i = Len(warns)
    <3>1. warns # <<>> /\ warnedBytes = warns[i] /\ warnedBytes >= Threshold
      BY <2>2 DEF LastWarned
    <3> QED
      BY <2>2, <3>1, <1>2, <1>3
  <2> QED
    BY <2>1, <2>2
<1>7. WorstInHand'
  <2>1. CASE worst = 0 \/ worst < 2 * warnedBytes
    BY <2>1, <1>1, <1>2 DEF WorstInHand
  <2>2. CASE \E q \in Reader : at[q] # "read" /\ n[q] = worst
    <3>1. PICK q \in Reader : at[q] # "read" /\ n[q] = worst
      BY <2>2
    <3>2. CASE q = r
      BY <3>1, <3>2, <1>1 DEF WorstInHand
    <3>3. CASE q # r
      <4>1. at'[q] # "read" /\ n'[q] = worst'
        BY <3>1, <3>3
      <4> QED
        BY <4>1 DEF WorstInHand
    <3> QED
      BY <3>2, <3>3
  <2> QED
    BY <2>1, <2>2 DEF WorstInHand
<1> QED
  BY <1>4, <1>5, <1>6, <1>7

\* A reader that loses the race keeps its line.
LEMMA SwapFailsStep ==
  ASSUME InductiveInv, NEW r \in Reader, SwapFails(r), TypeOK'
  PROVE  InductiveInv'
<1> USE WarnAssumption DEF InductiveInv, TypeOK, SwapFails, LoopHead
<1>1. LastWarned'
  BY DEF LastWarned
<1>2. ReadersKnow'
  BY DEF ReadersKnow
<1>3. WarnsDouble'
  BY DEF WarnsDouble
<1>4. WorstInHand'
  <2>1. CASE worst = 0 \/ worst < 2 * warnedBytes
    BY <2>1 DEF WorstInHand
  <2>2. CASE \E q \in Reader : at[q] # "read" /\ n[q] = worst
    <3>1. PICK q \in Reader : at[q] # "read" /\ n[q] = worst
      BY <2>2
    <3>2. at'[q] # "read" /\ n'[q] = worst'
      BY <3>1
    <3> QED
      BY <3>2 DEF WorstInHand
  <2> QED
    BY <2>1, <2>2 DEF WorstInHand
<1> QED
  BY <1>1, <1>2, <1>3, <1>4

\* InductiveInv holds in every state, for any readers, sizes and threshold.
THEOREM WarnInvariance == Spec => []InductiveInv
<1>1. Init => InductiveInv
  BY WarnAssumption
  DEF Init, InductiveInv, TypeOK, LastWarned, ReadersKnow, WarnsDouble, WorstInHand
<1>2. InductiveInv /\ [Next]_vars => InductiveInv'
  <2> SUFFICES ASSUME InductiveInv, [Next]_vars PROVE InductiveInv'
    OBVIOUS
  <2>1. TypeOK'
    BY TypeStep DEF InductiveInv
  <2>2. CASE UNCHANGED vars
    BY <2>2 DEF vars, InductiveInv, TypeOK, LastWarned, ReadersKnow, WarnsDouble,
      WorstInHand
  <2>3. CASE Next
    <3>1. PICK r \in Reader : ReadLine(r) \/ Warn(r)
      BY <2>3 DEF Next
    <3> QED
      BY <2>1, <3>1, ReadLineStep, LoadStep, SwapStep, SwapFailsStep DEF Warn
  <2> QED
    BY <2>2, <2>3
<1> QED
  BY <1>1, <1>2, PTL DEF Spec

\* "It fires again only once the line size has doubled": each size that passes
\* the limit is at least twice the one before.
THEOREM EveryWarningDoubles == Spec => []WarnsDouble
  BY WarnInvariance, PTL DEF InductiveInv

\* No line of twice the last warning is passed over.
THEOREM NoDoublingPassedOver == Spec => []WorseningReported
<1>1. InductiveInv => WorseningReported
  BY DEF InductiveInv, WorstInHand, WorseningReported
<1> QED
  BY <1>1, WarnInvariance, PTL

----------------------------------------------------------------------------
\* The events of a stream

\* The lines after the last blank one: what an event that ends now consists of.
Rest == InArrivalOrder(DataBefore(Len(input) + 1))

\* The positions that end an event, and the events they end.
Full(closed) ==
  {p \in {q \in 1 .. Len(input) : input[q] = "blank"}
           \cup (IF closed THEN {Len(input) + 1} ELSE {}) : DataBefore(p) # {}}

EventsAt(S) ==
  [k \in 1 .. Len(InArrivalOrder(S)) |-> InArrivalOrder(DataBefore(InArrivalOrder(S)[k]))]

\* Events is the list of what they end.
LEMMA EventsAreAt == \A closed \in BOOLEAN : Events(closed) = EventsAt(Full(closed))
BY DEF Events, EventsAt, Full

\* An event consists of earlier lines.
LEMMA EventTyped ==
  ASSUME NEW p \in Nat \ {0}
  PROVE  /\ p - 1 \in Nat /\ DataBefore(p) \in SUBSET (1 .. p - 1)
         /\ InArrivalOrder(DataBefore(p)) \in Seq(Nat)
         /\ InArrivalOrder(DataBefore(p)) = <<>> <=> DataBefore(p) = {}
<1>. DEFINE D == DataBefore(p)
<1>1. p - 1 \in Nat /\ D \in SUBSET (1 .. p - 1)
  BY DEF DataBefore
<1>. HIDE DEF D
<1>2. /\ InArrivalOrder(D) \in Seq(D)
      /\ \A m \in D : \E i \in 1 .. Len(InArrivalOrder(D)) : InArrivalOrder(D)[i] = m
  BY <1>1, ArrivalOrder
<1>3. InArrivalOrder(D) \in Seq(Nat)
  <2>1. D \subseteq Nat
    BY <1>1
  <2>. QED BY <1>2, <2>1, SeqMonotonic
<1>4. D # {} => InArrivalOrder(D) # <<>>
  <2>1. Len(<<>>) = 0 /\ 1 .. 0 = {}
    BY EmptySeq
  <2>. QED BY <1>2, <2>1
<1>5. D = {} => InArrivalOrder(D) = <<>>
  BY OrderGrows
<1>. QED BY <1>1, <1>3, <1>4, <1>5 DEF D

\* A list of events is a list of lists of lines, and one more that ends after
\* all others goes to its end.
LEMMA EventsAtGrow ==
  ASSUME input \in Seq(Line), NEW S \in SUBSET (1 .. Len(input) + 1)
  PROVE  /\ EventsAt(S) \in Seq(Seq(Nat))
         /\ S \subseteq 1 .. Len(input) =>
              EventsAt(S \cup {Len(input) + 1}) = Append(EventsAt(S), Rest)
<1>. DEFINE l == Len(input)
<1>1. l \in Nat /\ l + 1 \in Nat
  BY LenProperties
<1>. HIDE DEF l
<1>2. ASSUME NEW T \in SUBSET (1 .. l + 1)
      PROVE  /\ InArrivalOrder(T) \in Seq(T)
             /\ Len(InArrivalOrder(T)) \in Nat
             /\ EventsAt(T) \in Seq(Seq(Nat))
             /\ Len(EventsAt(T)) = Len(InArrivalOrder(T))
             /\ \A k \in 1 .. Len(InArrivalOrder(T)) :
                  EventsAt(T)[k] = InArrivalOrder(DataBefore(InArrivalOrder(T)[k]))
  <2>1. InArrivalOrder(T) \in Seq(T)
    BY <1>1, <1>2, ArrivalOrder
  <2>2. Len(InArrivalOrder(T)) \in Nat /\ \A k \in 1 .. Len(InArrivalOrder(T)) : InArrivalOrder(T)[k] \in T
    BY <2>1, LenProperties, ElementOfSeq
  <2>3. \A q \in T : q \in Nat \ {0}
    BY <1>1
  <2>4. \A k \in 1 .. Len(InArrivalOrder(T)) :
          InArrivalOrder(DataBefore(InArrivalOrder(T)[k])) \in Seq(Nat)
    BY <2>2, <2>3, EventTyped
  <2>5. EventsAt(T) \in [1 .. Len(InArrivalOrder(T)) -> Seq(Nat)]
    BY <2>4 DEF EventsAt
  <2>6. EventsAt(T) \in Seq(Seq(Nat)) /\ Len(EventsAt(T)) = Len(InArrivalOrder(T))
    BY <2>2, <2>5, SeqDef
  <2>. QED BY <2>1, <2>2, <2>6 DEF EventsAt
<1>3. S \in SUBSET (1 .. l + 1)
  BY DEF l
<1>4. ASSUME S \subseteq 1 .. l
      PROVE  EventsAt(S \cup {l + 1}) = Append(EventsAt(S), Rest)
  <2>. DEFINE T == S \cup {l + 1}
              o == InArrivalOrder(S)
              e == EventsAt(S)
  <2>1. T \in SUBSET (1 .. l + 1)
    <3>1. l + 1 \in 1 .. l + 1
      BY <1>1
    <3>. QED BY <1>3, <3>1
  <2>2. InArrivalOrder(T) = Append(o, l + 1)
    BY <1>1, <1>4, OrderGrows
  <2>. HIDE DEF T
  <2>3. /\ o \in Seq(S) /\ Len(o) \in Nat /\ e \in Seq(Seq(Nat)) /\ Len(e) = Len(o)
        /\ \A k \in 1 .. Len(o) : e[k] = InArrivalOrder(DataBefore(o[k]))
    BY <1>2, <1>3
  <2>. HIDE DEF o, e
  <2>4. /\ Len(Append(o, l + 1)) = Len(o) + 1
        /\ Append(o, l + 1)[Len(o) + 1] = l + 1
        /\ \A k \in 1 .. Len(o) : Append(o, l + 1)[k] = o[k]
    <3>1. o \in Seq(Nat)
      <4>1. S \subseteq Nat
        BY <1>3
      <4>. QED BY <2>3, <4>1, SeqMonotonic
    <3>. QED BY <1>1, <3>1, AppendProperties
  <2>5. /\ EventsAt(T) \in Seq(Seq(Nat)) /\ Len(EventsAt(T)) = Len(o) + 1
        /\ \A k \in 1 .. Len(o) + 1 :
             EventsAt(T)[k] = InArrivalOrder(DataBefore(Append(o, l + 1)[k]))
    BY <1>2, <2>1, <2>2, <2>4
  <2>6. Rest = InArrivalOrder(DataBefore(l + 1)) /\ Rest \in Seq(Nat)
    <3>1. l + 1 \in Nat \ {0}
      BY <1>1
    <3>. QED BY <3>1, EventTyped DEF Rest, l
  <2>. DEFINE a == Append(e, Rest)
  <2>7. /\ a \in Seq(Seq(Nat)) /\ Len(a) = Len(o) + 1 /\ a[Len(o) + 1] = Rest
        /\ \A k \in 1 .. Len(o) : a[k] = e[k]
    BY <2>3, <2>6, AppendProperties
  <2>. HIDE DEF a
  <2>8. \A k \in 1 .. Len(o) + 1 : k \in 1 .. Len(o) \/ k = Len(o) + 1
    BY <2>3
  <2>9. \A k \in 1 .. Len(o) + 1 : EventsAt(T)[k] = a[k]
    BY <2>3, <2>4, <2>5, <2>6, <2>7, <2>8
  <2>10. EventsAt(T) = a
    BY <2>5, <2>7, <2>9, SeqEqual
  <2>. QED BY <2>10 DEF T, a, e
<1>. QED BY <1>2, <1>3, <1>4 DEF l

\* The end of a stream ends one event more, if there is a rest.
RestEndsLast ==
  /\ Rest \in Seq(Nat)
  /\ Events(FALSE) \in Seq(Seq(Nat))
  /\ Events(TRUE) = IF Rest = <<>> THEN Events(FALSE) ELSE Append(Events(FALSE), Rest)

LEMMA EventsClosed == input \in Seq(Line) => RestEndsLast
<1>. SUFFICES ASSUME input \in Seq(Line) PROVE RestEndsLast
  OBVIOUS
<1>. USE DEF RestEndsLast
<1>1. Len(input) \in Nat /\ Len(input) + 1 \in Nat \ {0}
  BY LenProperties
<1>2. Rest \in Seq(Nat) /\ (Rest = <<>> <=> DataBefore(Len(input) + 1) = {})
  BY <1>1, EventTyped DEF Rest
<1>3. Full(FALSE) \subseteq 1 .. Len(input)
  BY DEF Full
<1>4. Full(TRUE) = IF Rest = <<>> THEN Full(FALSE) ELSE Full(FALSE) \cup {Len(input) + 1}
  BY <1>2 DEF Full
<1>5. Full(FALSE) \in SUBSET (1 .. Len(input) + 1)
  <2>1. \A p \in 1 .. Len(input) : p \in 1 .. Len(input) + 1
    BY <1>1
  <2>. QED BY <1>3, <2>1
<1>6. EventsAt(Full(FALSE)) \in Seq(Seq(Nat))
  BY <1>5, EventsAtGrow
<1>7. EventsAt(Full(FALSE) \cup {Len(input) + 1}) = Append(EventsAt(Full(FALSE)), Rest)
  BY <1>3, <1>5, EventsAtGrow
<1>. QED BY <1>2, <1>4, <1>6, <1>7, EventsAreAt

\* A line that comes in ends an event if it is blank, and belongs to the next
\* one else.
LEMMA EventsGrow ==
  ASSUME input \in Seq(Line), NEW line \in Line, input' = Append(input, line)
  PROVE  /\ input' \in Seq(Line)
         /\ Events(FALSE)' = IF line = "blank" THEN Events(TRUE) ELSE Events(FALSE)
         /\ Rest' = IF line = "blank" THEN <<>> ELSE Collected(Rest, line)
<1>. DEFINE l == Len(input)
<1>1. /\ l \in Nat /\ l + 1 \in Nat \ {0}
      /\ input' \in Seq(Line) /\ Len(input') = l + 1 /\ input'[l + 1] = line
      /\ \A i \in 1 .. l : input'[i] = input[i]
  BY LenProperties, AppendProperties
<1>2. ASSUME NEW p \in 1 .. l + 1 PROVE DataBefore(p)' = DataBefore(p)
  <2>1. \A i \in 1 .. p - 1 : i \in 1 .. l
    BY <1>1
  <2>2. \A i \in 1 .. p - 1 : \A j \in i .. p - 1 : j \in 1 .. l
    BY <1>1
  <2>. HIDE DEF l
  <2>. QED BY <1>1, <2>1, <2>2 DEF DataBefore
<1>3. Full(FALSE)' = IF line = "blank" THEN Full(TRUE) ELSE Full(FALSE)
  <2>1. Full(FALSE)' = {p \in 1 .. l + 1 : input'[p] = "blank" /\ DataBefore(p)' # {}}
    BY <1>1 DEF Full
  <2>2. Full(FALSE)' = {p \in 1 .. l + 1 : input'[p] = "blank" /\ DataBefore(p) # {}}
    BY <1>2, <2>1
  <2>3. \A p : p \in 1 .. l + 1 <=> p \in 1 .. l \/ p = l + 1
    BY <1>1
  <2>4. Full(FALSE) = {p \in 1 .. l : input[p] = "blank" /\ DataBefore(p) # {}}
    BY DEF Full
  <2>5. Full(TRUE) = Full(FALSE) \cup {p \in {l + 1} : DataBefore(p) # {}}
    BY DEF Full
  <2>. HIDE DEF l
  <2>. QED BY <1>1, <2>2, <2>3, <2>4, <2>5
<1>4. ASSUME NEW S \in SUBSET (1 .. l + 1) PROVE EventsAt(S)' = EventsAt(S)
  <2>1. InArrivalOrder(S) \in Seq(S)
    BY <1>1, ArrivalOrder
  <2>2. \A k \in 1 .. Len(InArrivalOrder(S)) : InArrivalOrder(S)[k] \in 1 .. l + 1
    BY <2>1, ElementOfSeq
  <2>. HIDE DEF l
  <2>. QED BY <1>2, <2>2 DEF EventsAt
<1>5. Full(FALSE) \in SUBSET (1 .. l + 1) /\ Full(TRUE) \in SUBSET (1 .. l + 1)
  BY <1>1 DEF Full
<1>6. Events(FALSE)' = IF line = "blank" THEN Events(TRUE) ELSE Events(FALSE)
  <2>1. PICK F : F = Full(FALSE)'
    OBVIOUS
  <2>2. Events(FALSE)' = EventsAt(F)'
    BY <2>1 DEF Events, EventsAt, Full
  <2>3. F = IF line = "blank" THEN Full(TRUE) ELSE Full(FALSE)
    BY <1>3, <2>1
  <2>. HIDE DEF l
  <2>4. EventsAt(F)' = EventsAt(F)
    BY <1>4, <1>5, <2>3
  <2>. QED BY <2>2, <2>3, <2>4, EventsAreAt
<1>7. DataBefore(Len(input) + 1)' =
        CASE line = "blank" -> {}
          [] line = "data" -> DataBefore(l + 1) \cup {l + 1}
          [] OTHER -> DataBefore(l + 1)
  <2>1. Len(input') + 1 - 1 = l + 1 /\ l + 1 - 1 = l
    BY <1>1
  <2>2. \A i \in 1 .. l : \A j : j \in i .. l + 1 <=> j \in i .. l \/ j = l + 1
    BY <1>1
  <2>3. \A j : j \in l + 1 .. l + 1 <=> j = l + 1
    BY <1>1
  <2>4. \A i : i \in 1 .. l + 1 <=> i \in 1 .. l \/ i = l + 1
    BY <1>1
  <2>5. \A i \in 1 .. l : \A j \in i .. l : j \in 1 .. l
    BY <1>1
  <2>. DEFINE Old == {i \in 1 .. l : input[i] = "data" /\ \A j \in i .. l : input[j] # "blank"}
              New == {i \in 1 .. l + 1 : input'[i] = "data" /\ \A j \in i .. l + 1 : input'[j] # "blank"}
  <2>6. DataBefore(l + 1) = Old /\ DataBefore(Len(input) + 1)' = New
    <3>1. DataBefore(l + 1) =
            {i \in 1 .. l + 1 - 1 :
               input[i] = "data" /\ \A j \in i .. l + 1 - 1 : input[j] # "blank"}
      BY DEF DataBefore
    <3>2. DataBefore(Len(input) + 1)' =
            {i \in 1 .. Len(input') + 1 - 1 :
               /\ input'[i] = "data"
               /\ \A j \in i .. Len(input') + 1 - 1 : input'[j] # "blank"}
      BY DEF DataBefore
    <3>. HIDE DEF l
    <3>. QED BY <2>1, <3>1, <3>2, Zenon
  <2>. HIDE DEF l
  <2>7. CASE line = "blank"
    BY <1>1, <2>2, <2>3, <2>4, <2>5, <2>7, <2>6
  <2>8. CASE line # "blank"
    <3>1. \A i \in 1 .. l : i \in New <=> i \in Old
      BY <1>1, <2>2, <2>4, <2>5, <2>8
    <3>2. l + 1 \in New <=> line = "data"
      BY <1>1, <2>3, <2>4, <2>8
    <3>. HIDE DEF Old
    <3>3. l + 1 \notin 1 .. l /\ Old \subseteq 1 .. l
      BY <1>1 DEF Old
    <3>4. \A i \in New : i \in 1 .. l \/ i = l + 1
      BY <2>4
    <3>. HIDE DEF New
    <3>5. CASE line = "data"
      <4>1. New = Old \cup {l + 1}
        BY <3>1, <3>2, <3>3, <3>4, <3>5
      <4>. QED BY <2>6, <3>5, <4>1
    <3>6. CASE line # "data"
      <4>1. New = Old
        BY <3>1, <3>2, <3>3, <3>4, <3>6
      <4>. QED BY <2>6, <2>8, <3>6, <4>1
    <3>. QED BY <3>5, <3>6
  <2>. QED BY <2>7, <2>8
<1>8. Rest' = InArrivalOrder(DataBefore(Len(input) + 1)')
  BY DEF Rest
<1>9. DataBefore(l + 1) \in SUBSET (1 .. l)
  BY <1>1, EventTyped
<1>10. Rest' = IF line = "blank" THEN <<>> ELSE Collected(Rest, line)
  <2>1. InArrivalOrder(DataBefore(l + 1) \cup {l + 1}) = Append(InArrivalOrder(DataBefore(l + 1)), l + 1)
    BY <1>1, <1>9, OrderGrows
  <2>2. InArrivalOrder({}) = <<>>
    BY OrderGrows
  <2>3. Rest = InArrivalOrder(DataBefore(l + 1))
    BY DEF Rest
  <2>. QED BY <1>7, <1>8, <2>1, <2>2, <2>3 DEF Collected
<1>. QED BY <1>1, <1>6, <1>10

\* What was the first event stays it when another one ends.
LEMMA FirstStays ==
  ASSUME NEW e \in Seq(Seq(Nat)), NEW r \in Seq(Nat)
  PROVE  /\ Append(e, r) \in Seq(Seq(Nat)) /\ Append(e, r) # <<>>
         /\ e = <<>> => Append(e, r)[1] = r
         /\ e # <<>> => Append(e, r)[1] = e[1]
<1>1. Len(<<>>) = 0 /\ (e # <<>> => Len(e) \in Nat \ {0})
  BY EmptySeq
<1>2. /\ Append(e, r) \in Seq(Seq(Nat)) /\ Append(e, r) # <<>>
      /\ \A k \in 1 .. Len(e) : Append(e, r)[k] = e[k]
      /\ Append(e, r)[Len(e) + 1] = r
  BY AppendProperties
<1>3. e # <<>> => 1 \in 1 .. Len(e)
  BY <1>1
<1>4. e = <<>> => Len(e) + 1 = 1
  BY <1>1
<1>. QED BY <1>2, <1>3, <1>4

----------------------------------------------------------------------------
\* The two event readers

\* The types, as far as the proof needs them.
ReaderTypes ==
  /\ input \in Seq(Line)
  /\ ending \in {"open", "eof", "error", "cancelled"}
  /\ inEvent \in BOOLEAN
  /\ answer \in {<<"none">>, <<"eof">>, <<"error">>} \cup {<<"data", l>> : l \in Seq(Nat)}

\* While the stream is open, runSSELoop holds the rest; readFirstSSEData, until
\* it has an answer, holds the same and has seen no event, and the end of the
\* stream is not its answer.
OpenInv ==
  ending = "open" =>
    /\ dataLines = Rest
    /\ IF Unanswered
       THEN /\ rpcLines = dataLines /\ handled = <<>>
            /\ rpcLines # <<>> => inEvent
       ELSE answer[1] = "data"

ReaderInv ==
  ReaderTypes /\ OpenInv /\ EachEventOnce /\ AnswerIsFirstEvent /\ NoAnswerIgnored

\* The events that count, by how the stream ended.
LEMMA WhichEvents ==
  /\ ending \in {"eof", "error"} => Events(ending \in {"eof", "error"}) = Events(TRUE)
  /\ ending \notin {"eof", "error"} => Events(ending \in {"eof", "error"}) = Events(FALSE)
  /\ ending = "eof" => Events(ending = "eof") = Events(TRUE)
  /\ ending # "eof" => Events(ending = "eof") = Events(FALSE)
BY DEF Events

\* A line that ends in a newline is read by both.
LEMMA BothReadStep ==
  ASSUME ReaderInv, NEW line \in Line, BothRead(line)
  PROVE  ReaderInv'
<1>1. ending = "open" /\ ending' = "open" /\ input \in Seq(Line)
  BY DEF BothRead, ReaderInv, ReaderTypes
<1>2. /\ input' \in Seq(Line)
      /\ Events(FALSE)' = IF line = "blank" THEN Events(TRUE) ELSE Events(FALSE)
      /\ Rest' = IF line = "blank" THEN <<>> ELSE Collected(Rest, line)
  BY <1>1, EventsGrow DEF BothRead
<1>3. /\ Rest \in Seq(Nat) /\ Events(FALSE) \in Seq(Seq(Nat))
      /\ Events(TRUE) = IF Rest = <<>> THEN Events(FALSE) ELSE Append(Events(FALSE), Rest)
  BY <1>1, EventsClosed DEF RestEndsLast
<1>4. handled = Events(FALSE) /\ dataLines = Rest
  BY <1>1, WhichEvents DEF ReaderInv, EachEventOnce, OpenInv
<1>5. handled' = Events(FALSE)' /\ dataLines' = Rest'
  <2>1. LoopReads(line)
    BY DEF BothRead
  <2>2. CASE line = "blank"
    <3>1. handled' = Flush(Rest) /\ dataLines' = <<>>
      BY <1>4, <2>1, <2>2 DEF LoopReads, Emptied
    <3>2. Flush(Rest) = Events(TRUE)
      BY <1>3, <1>4 DEF Flush
    <3>. QED BY <1>2, <2>2, <3>1, <3>2
  <2>3. CASE line # "blank"
    <3>1. handled' = handled /\ dataLines' = Collected(Rest, line)
      BY <1>4, <2>1, <2>3 DEF LoopReads
    <3>. QED BY <1>2, <1>4, <2>3, <3>1
  <2>. QED BY <2>2, <2>3
<1>6. EachEventOnce'
  BY <1>1, <1>5 DEF EachEventOnce, Events
<1>7. Events(ending = "eof")' = Events(FALSE)'
  BY <1>1 DEF Events
<1>8. Events(ending = "eof") = Events(FALSE)
  BY <1>1, WhichEvents
<1>9. CASE Unanswered
  <2>1. rpcLines = Rest /\ handled = <<>> /\ (rpcLines # <<>> => inEvent) /\ inEvent \in BOOLEAN
    BY <1>1, <1>4, <1>9 DEF ReaderInv, OpenInv, ReaderTypes
  <2>2. CASE line = "blank" /\ Rest # <<>>
    <3>1. answer' = <<"data", Rest>> /\ UNCHANGED <<rpcLines, inEvent>>
      BY <1>9, <2>1, <2>2 DEF BothRead, RpcReads
    <3>2. Events(FALSE)' # <<>> /\ Events(FALSE)'[1] = Rest
      <4>1. Events(FALSE)' = Append(Events(FALSE), Rest) /\ Events(FALSE) = <<>>
        BY <1>2, <1>3, <1>4, <2>1, <2>2
      <4>. QED BY <1>3, <4>1, FirstStays
    <3>3. answer'[1] = "data" /\ answer'[2] = Rest /\ ~Unanswered'
      BY <3>1 DEF Unanswered
    <3>4. ReaderTypes'
      BY <1>1, <1>2, <1>3, <2>1, <3>1 DEF ReaderTypes
    <3>. QED BY <1>5, <1>6, <1>7, <3>2, <3>3, <3>4
             DEF ReaderInv, OpenInv, AnswerIsFirstEvent, NoAnswerIgnored
  <2>3. CASE ~(line = "blank" /\ Rest # <<>>)
    <3>1. answer' = <<"none">> /\ rpcLines' = Rest' /\ (rpcLines' # <<>> => inEvent')
          /\ inEvent' \in BOOLEAN
      <4>1. CASE line = "blank"
        <5>1. answer' = answer /\ rpcLines' = <<>> /\ inEvent' = FALSE
          BY <1>9, <2>1, <2>3, <4>1 DEF BothRead, RpcReads
        <5>. QED BY <1>2, <1>9, <4>1, <5>1 DEF Unanswered
      <4>2. CASE line # "blank"
        <5>1. /\ answer' = answer /\ rpcLines' = Collected(Rest, line)
              /\ inEvent' = (inEvent \/ Begins(line))
          BY <1>9, <2>1, <4>2 DEF BothRead, RpcReads
        <5>2. Collected(Rest, line) # Rest => Begins(line)
          BY DEF Collected, Begins
        <5>3. inEvent' \in BOOLEAN /\ (inEvent' <=> inEvent \/ Begins(line))
          BY <5>1, Zenon
        <5>. QED BY <1>2, <1>9, <2>1, <4>2, <5>1, <5>2, <5>3 DEF Unanswered
      <4>. QED BY <4>1, <4>2
    <3>2. handled' = <<>>
      BY <1>2, <1>3, <1>4, <1>5, <2>1, <2>3
    <3>3. answer'[1] = "none" /\ Unanswered'
      BY <3>1 DEF Unanswered
    <3>4. ReaderTypes'
      BY <1>1, <1>2, <3>1 DEF ReaderTypes
    <3>. QED BY <1>5, <1>6, <3>1, <3>2, <3>3, <3>4
             DEF ReaderInv, OpenInv, AnswerIsFirstEvent, NoAnswerIgnored
  <2>. QED BY <2>2, <2>3
<1>10. CASE ~Unanswered
  <2>1. answer[1] = "data" /\ UNCHANGED <<rpcLines, inEvent, answer>>
    BY <1>1, <1>10 DEF ReaderInv, OpenInv, BothRead, RpcReads
  <2>2. Events(FALSE) # <<>> /\ answer[2] = Events(FALSE)[1]
    BY <1>8, <2>1 DEF ReaderInv, AnswerIsFirstEvent
  <2>3. Events(FALSE)' # <<>> /\ Events(FALSE)'[1] = Events(FALSE)[1]
    <3>1. Events(FALSE)' = Events(FALSE) \/ Events(FALSE)' = Append(Events(FALSE), Rest)
      BY <1>2, <1>3
    <3>. QED BY <1>3, <2>2, <3>1, FirstStays
  <2>4. ReaderTypes'
    BY <1>1, <1>2, <2>1 DEF ReaderInv, ReaderTypes
  <2>. QED BY <1>5, <1>6, <1>7, <1>10, <2>1, <2>2, <2>3, <2>4
           DEF ReaderInv, OpenInv, AnswerIsFirstEvent, NoAnswerIgnored, Unanswered
<1>. QED BY <1>9, <1>10

\* The stream ends, with or without a last line, or with an error.
LEMMA EndStep ==
  ASSUME ReaderInv, NEW how \in {"eof", "error"}, End(how)
  PROVE  ReaderInv'
<1>1. ending = "open" /\ ending' = how /\ input \in Seq(Line)
  BY DEF End, ReaderInv, ReaderTypes
<1>2. PICK line \in {"none"} \cup (Line \ {"blank"}) :
        /\ input' = IF line = "none" THEN input ELSE Append(input, line)
        /\ handled' = FlushAtEnd(Collected(dataLines, line), how)
        /\ answer' = IF Unanswered THEN AnswerAtEnd(Collected(rpcLines, line), how) ELSE answer
  BY DEF End
<1>3. input' \in Seq(Line) /\ Events(FALSE)' = Events(FALSE) /\ Rest' = Collected(Rest, line)
  <2>1. CASE line = "none"
    <3>1. input' = input
      BY <1>2, <2>1
    <3>2. Events(FALSE)' = Events(FALSE) /\ Rest' = Rest
      BY <3>1 DEF Events, Rest, DataBefore
    <3>. QED BY <1>1, <2>1, <3>1, <3>2 DEF Collected
  <2>2. CASE line \in Line \ {"blank"}
    <3>1. input' = Append(input, line)
      BY <1>2, <2>2 DEF Line
    <3>. QED BY <1>1, <2>2, <3>1, EventsGrow
  <2>. QED BY <2>1, <2>2
<1>4. handled = Events(FALSE) /\ dataLines = Rest
  BY <1>1, WhichEvents DEF ReaderInv, EachEventOnce, OpenInv
<1>5. /\ Rest' \in Seq(Nat) /\ Events(FALSE)' \in Seq(Seq(Nat))
      /\ Events(TRUE)' = IF Rest' = <<>> THEN Events(FALSE)' ELSE Append(Events(FALSE)', Rest')
  <2>1. (input \in Seq(Line))'
    BY <1>3
  <2>2. RestEndsLast'
    BY <2>1, EventsClosed, PTL
  <2>. QED BY <2>2 DEF RestEndsLast
<1>6. handled' = Events(TRUE)'
  BY <1>2, <1>3, <1>4, <1>5 DEF FlushAtEnd, Flush
<1>7. EachEventOnce'
  BY <1>1, <1>6 DEF EachEventOnce, Events
<1>8. Events(ending = "eof")' = IF how = "eof" THEN Events(TRUE)' ELSE Events(FALSE)
  BY <1>1, <1>3 DEF Events
<1>9. OpenInv'
  BY <1>1 DEF OpenInv
<1>10. CASE Unanswered
  <2>1. rpcLines = Rest /\ handled = <<>>
    BY <1>1, <1>4, <1>10 DEF ReaderInv, OpenInv
  <2>2. CASE how = "eof" /\ Rest' # <<>>
    <3>1. answer' = <<"data", Rest'>>
      BY <1>2, <1>3, <1>10, <2>1, <2>2 DEF AnswerAtEnd
    <3>2. Events(ending = "eof")' # <<>> /\ Events(ending = "eof")'[1] = Rest'
      <4>1. Events(ending = "eof")' = Append(Events(FALSE)', Rest') /\ Events(FALSE)' = <<>>
        BY <1>3, <1>4, <1>5, <1>8, <2>1, <2>2
      <4>2. Rest' \in Seq(Nat) /\ <<>> \in Seq(Seq(Nat))
        BY <1>5, EmptySeq
      <4>3. Append(<<>>, Rest') # <<>> /\ Append(<<>>, Rest')[1] = Rest'
        BY <4>2, FirstStays
      <4>. QED BY <4>1, <4>3
    <3>3. answer'[1] = "data" /\ answer'[2] = Rest'
      BY <3>1
    <3>4. ReaderTypes'
      BY <1>1, <1>3, <1>5, <3>1 DEF ReaderInv, ReaderTypes, End
    <3>. QED BY <1>7, <1>9, <3>2, <3>3, <3>4
             DEF ReaderInv, AnswerIsFirstEvent, NoAnswerIgnored
  <2>3. CASE ~(how = "eof" /\ Rest' # <<>>)
    <3>1. answer' = <<how>>
      BY <1>2, <1>3, <1>10, <2>1, <2>3 DEF AnswerAtEnd
    <3>2. Events(ending = "eof")' = <<>>
      BY <1>3, <1>4, <1>5, <1>8, <2>1, <2>3
    <3>3. answer'[1] = how /\ how # "data"
      BY <3>1
    <3>4. ReaderTypes'
      BY <1>1, <1>3, <3>1 DEF ReaderInv, ReaderTypes, End
    <3>. QED BY <1>7, <1>9, <3>2, <3>3, <3>4
             DEF ReaderInv, AnswerIsFirstEvent, NoAnswerIgnored
  <2>. QED BY <2>2, <2>3
<1>11. CASE ~Unanswered
  <2>1. answer' = answer /\ answer[1] = "data"
    BY <1>1, <1>2, <1>11 DEF ReaderInv, OpenInv
  <2>2. Events(FALSE) # <<>> /\ answer[2] = Events(FALSE)[1]
    BY <1>1, <2>1, WhichEvents DEF ReaderInv, AnswerIsFirstEvent
  <2>3. Events(ending = "eof")' # <<>> /\ Events(ending = "eof")'[1] = Events(FALSE)[1]
    <3>1. \/ Events(ending = "eof")' = Events(FALSE)
          \/ Events(ending = "eof")' = Append(Events(FALSE), Rest')
      BY <1>3, <1>5, <1>8
    <3>2. Events(FALSE) \in Seq(Seq(Nat))
      BY <1>3, <1>5
    <3>. QED BY <1>5, <2>2, <3>1, <3>2, FirstStays
  <2>4. ReaderTypes'
    BY <1>1, <1>3, <2>1 DEF ReaderInv, ReaderTypes, End
  <2>. QED BY <1>7, <1>9, <2>1, <2>2, <2>3, <2>4
           DEF ReaderInv, AnswerIsFirstEvent, NoAnswerIgnored
<1>. QED BY <1>10, <1>11

\* The context is cancelled.
LEMMA CancelStep == ASSUME ReaderInv, Cancel PROVE ReaderInv'
<1>. USE DEF Cancel
<1>1. /\ Events(FALSE)' = Events(FALSE) /\ ending = "open" /\ ending' = "cancelled"
      /\ UNCHANGED <<input, handled, answer, inEvent>>
  BY DEF Events, DataBefore
<1>2. /\ Events(ending = "eof") = Events(FALSE)
      /\ Events(ending \in {"eof", "error"}) = Events(FALSE)
  BY <1>1, WhichEvents
<1>3. /\ Events(ending = "eof")' = Events(FALSE)'
      /\ Events(ending \in {"eof", "error"})' = Events(FALSE)'
  BY <1>1 DEF Events
<1>4. EachEventOnce'
  BY <1>1, <1>2, <1>3 DEF ReaderInv, EachEventOnce
<1>5. AnswerIsFirstEvent' /\ NoAnswerIgnored'
  BY <1>1, <1>2, <1>3 DEF ReaderInv, AnswerIsFirstEvent, NoAnswerIgnored
<1>6. ReaderTypes' /\ OpenInv'
  BY <1>1 DEF ReaderInv, ReaderTypes, OpenInv
<1>. QED BY <1>4, <1>5, <1>6 DEF ReaderInv

\* ReaderInv holds in every state.
THEOREM ReaderInvariance == ReaderSpec => []ReaderInv
<1>1. ReaderInit => ReaderInv
  <2>. SUFFICES ASSUME ReaderInit PROVE ReaderInv
    OBVIOUS
  <2>1. input \in Seq(Line) /\ Len(input) = 0
    BY EmptySeq DEF ReaderInit
  <2>2. DataBefore(Len(input) + 1) = {} /\ Full(FALSE) = {}
    BY <2>1 DEF DataBefore, Full
  <2>3. Rest = <<>>
    BY <2>2, OrderGrows DEF Rest
  <2>4. Events(FALSE) = <<>>
    <3>1. Events(FALSE) = EventsAt({})
      BY <2>2, EventsAreAt
    <3>2. {} \in SUBSET (1 .. Len(input) + 1)
      OBVIOUS
    <3>3. EventsAt({}) \in Seq(Seq(Nat))
      BY <2>1, <3>2, EventsAtGrow
    <3>4. Len(EventsAt({})) = 0
      <4>1. InArrivalOrder({}) = <<>> /\ Len(<<>>) = 0
        BY OrderGrows, EmptySeq
      <4>2. DOMAIN EventsAt({}) = 1 .. 0
        BY <4>1 DEF EventsAt
      <4>3. Len(EventsAt({})) \in Nat /\ DOMAIN EventsAt({}) = 1 .. Len(EventsAt({}))
        BY <3>3, LenProperties
      <4>. QED BY <4>2, <4>3
    <3>. QED BY <3>1, <3>3, <3>4, EmptySeq
  <2>5. ReaderTypes
    BY <2>1 DEF ReaderInit, ReaderTypes
  <2>6. OpenInv
    BY <2>3 DEF ReaderInit, OpenInv, Unanswered
  <2>7. EachEventOnce
    BY <2>4, WhichEvents DEF ReaderInit, EachEventOnce
  <2>8. answer[1] = "none"
    BY DEF ReaderInit
  <2>. QED BY <2>5, <2>6, <2>7, <2>8 DEF ReaderInv, AnswerIsFirstEvent, NoAnswerIgnored
<1>2. ReaderInv /\ [ReaderNext]_readerVars => ReaderInv'
  <2>. SUFFICES ASSUME ReaderInv, [ReaderNext]_readerVars PROVE ReaderInv'
    OBVIOUS
  <2>1. CASE UNCHANGED readerVars
    <3>. USE <2>1 DEF readerVars
    <3>1. Events(ending = "eof")' = Events(ending = "eof") /\ Rest' = Rest
      BY DEF Events, Rest, DataBefore
    <3>2. Events(ending \in {"eof", "error"})' = Events(ending \in {"eof", "error"})
      BY DEF Events, DataBefore
    <3>3. EachEventOnce' /\ AnswerIsFirstEvent' /\ NoAnswerIgnored'
      BY <3>1, <3>2 DEF ReaderInv, EachEventOnce, AnswerIsFirstEvent, NoAnswerIgnored
    <3>4. ReaderTypes' /\ OpenInv'
      BY <3>1 DEF ReaderInv, ReaderTypes, OpenInv, Unanswered
    <3>. QED BY <3>3, <3>4 DEF ReaderInv
  <2>. QED BY <2>1, BothReadStep, EndStep, CancelStep DEF ReaderNext
<1>. QED BY <1>1, <1>2, PTL DEF ReaderSpec

\* runSSELoop handles every event once, and none in parts, however the stream
\* ends.
THEOREM EventsNeitherLostNorDoubled == ReaderSpec => []EachEventOnce
BY ReaderInvariance, PTL DEF ReaderInv

\* readFirstSSEData returns the first whole event of the response.
THEOREM FirstEventAnswers == ReaderSpec => []AnswerIsFirstEvent
BY ReaderInvariance, PTL DEF ReaderInv

\* readFirstSSEData fails only on a response without a whole event.
THEOREM FailsOnlyWithoutEvent == ReaderSpec => []NoAnswerIgnored
BY ReaderInvariance, PTL DEF ReaderInv

============================================================================
