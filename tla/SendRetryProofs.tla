--------------------------- MODULE SendRetryProofs ---------------------------
(***************************************************************************)
(* The promises of send_with_retry for any budget, delay and time-out, with *)
(* or without a deadline per call.  The delays are powers of two: the       *)
(* provers have no definition of exponentiation, but the library counts the *)
(* subsets of a finite set by it, and from that its recurrence follows.     *)
(***************************************************************************)
EXTENDS SendRetry, FiniteSetTheorems, TLAPS

Types ==
  /\ maxAttempts \in Nat \ {0}
  /\ attempt \in Nat
  /\ pending \in Nat /\ delivered \in Nat
  /\ absent \in BOOLEAN
  /\ stage \in {"calling", "sleeping", "done"}

\* As long as send_with_retry runs, an attempt is left, nothing has been
\* returned or raised, and no peer has been named as absent.
Running ==
  stage # "done" => attempt < maxAttempts /\ result = "none" /\ ~absent

\* The parts of the promises that each step needs of the one before.
RetryInv == Types /\ Running /\ CopiesBounded /\ AbsentPeerEndsIt

\* A request whose success was not reported is at most one copy more.
LEMMA OneCopyMore ==
  ASSUME Types, CopiesBounded, Unreported, Counted
  PROVE  delivered' + pending' <= attempt'
BY DEF Types, CopiesBounded, Unreported, Counted

\* One failed attempt that counts as transient, with what became of its
\* request: a sleep if an attempt is left, else the end.
LEMMA TransientStep ==
  ASSUME RetryInv, stage = "calling", Transient, Unreported, Counted,
         maxAttempts' = maxAttempts, absent' \in BOOLEAN, ~absent'
  PROVE  RetryInv'
<1> USE DEF RetryInv, Types, Running
<1>1. stage' \in {"sleeping", "done"} /\ attempt' = attempt + 1
  BY DEF Transient, Finish, Counted
<1>2. stage' = "sleeping" => attempt' < maxAttempts' /\ result' = "none"
  BY DEF Transient, Finish, Counted, MoreAllowed
<1>3. result' \in {"none", "transient"}
  BY DEF Transient, Finish
<1>4. Types'
  <2>1. pending' \in Nat /\ delivered' \in Nat
    BY DEF Unreported
  <2> QED
    BY <1>1, <2>1
<1>5. Running'
  BY <1>1, <1>2
<1>6. CopiesBounded'
  BY <1>1, <1>3 DEF CopiesBounded, Unreported
<1>7. AbsentPeerEndsIt'
  BY DEF AbsentPeerEndsIt
<1> QED
  BY <1>4, <1>5, <1>6, <1>7

\* An answer that is an error ends the attempt, and with a named peer the call.
LEMMA AnswerErrorStep == ASSUME RetryInv, AnswerError PROVE RetryInv'
<1>1. PICK text \in ErrorText :
        /\ absent' = ("peer" \in text)
        /\ IF Classify(text) = "transient" THEN Transient ELSE Finish(Classify(text))
  BY DEF AnswerError
<1>2. stage = "calling" /\ Unreported /\ Counted /\ maxAttempts' = maxAttempts
  BY DEF AnswerError
<1>3. CASE Classify(text) = "transient"
  <2>1. "peer" \notin text
    BY <1>3 DEF Classify
  <2>2. absent' \in BOOLEAN /\ ~absent'
    <3>1. absent' = ("peer" \in text)
      BY <1>1
    <3>2. ("peer" \in text) = FALSE
      BY <2>1
    <3>3. absent' = FALSE
      BY <3>1, <3>2, Zenon
    <3> QED
      BY <3>3
  <2>3. Transient
    BY <1>1, <1>3
  <2> QED
    BY <1>2, <2>2, <2>3, TransientStep
<1>4. CASE Classify(text) # "transient"
  <2>1. /\ stage' = "done" /\ attempt' = attempt + 1
        /\ result' = Classify(text)
        /\ pending' \in Nat /\ delivered' \in Nat
    BY <1>1, <1>2, <1>4 DEF Finish, Counted, Unreported, RetryInv, Types
  <2>2. absent' => result' = "participant_not_found"
    BY <1>1, <2>1 DEF Classify
  <2>3. absent' \in BOOLEAN
    BY <1>1
  <2>4. result' # "sent"
    BY <2>1 DEF Classify
  <2>5. Types' /\ Running'
    BY <1>2, <2>1, <2>3 DEF RetryInv, Types, Running
  <2>6. CopiesBounded'
    <3>1. delivered' + pending' <= attempt'
      BY <1>2, OneCopyMore DEF RetryInv
    <3> QED
      BY <2>4, <3>1 DEF CopiesBounded
  <2> QED
    BY <2>2, <2>5, <2>6 DEF RetryInv, AbsentPeerEndsIt
<1> QED
  BY <1>3, <1>4

----------------------------------------------------------------------------

\* RetryInv holds in every state.
THEOREM RetryInvariance == Spec => []RetryInv
<1>1. Init => RetryInv
  <2> SUFFICES ASSUME Init PROVE RetryInv
    OBVIOUS
  <2> USE SendAssumption DEF Init
  <2>1. Types
    <3>1. maxAttempts \in Nat \ {0}
      OBVIOUS
    <3> QED
      BY <3>1 DEF Types
  <2>2. Running
    BY DEF Running
  <2>3. CopiesBounded
    BY DEF CopiesBounded
  <2>4. AbsentPeerEndsIt
    BY DEF AbsentPeerEndsIt
  <2> QED
    BY <2>1, <2>2, <2>3, <2>4 DEF RetryInv
<1>2. RetryInv /\ [Next]_vars => RetryInv'
  <2> SUFFICES ASSUME RetryInv, [Next]_vars PROVE RetryInv'
    OBVIOUS
  <2> USE DEF RetryInv, Types, Running
  <2>1. CASE UNCHANGED vars
    BY <2>1 DEF vars, CopiesBounded, AbsentPeerEndsIt
  <2>2. CASE Answer
    BY <2>2 DEF Answer, Finish, Counted, CopiesBounded, AbsentPeerEndsIt
  <2>3. CASE AnswerError
    BY <2>3, AnswerErrorStep
  <2>4. CASE TransportFails
    BY <2>4, TransientStep DEF TransportFails
  <2>5. CASE TimesOut
    BY <2>5, TransientStep DEF TimesOut
  <2>6. CASE Wake
    BY <2>6 DEF Wake, CopiesBounded, AbsentPeerEndsIt
  <2>7. CASE Late
    BY <2>7 DEF Late, CopiesBounded, AbsentPeerEndsIt
  <2> QED
    BY <2>1, <2>2, <2>3, <2>4, <2>5, <2>6, <2>7 DEF Next
<1> QED
  BY <1>1, <1>2, PTL DEF Spec

\* A caller told "sent" has been heard, and no attempt yields two copies.
THEOREM AtMostOneCopyPerAttempt == Spec => []CopiesBounded
  BY RetryInvariance, PTL DEF RetryInv

\* No attempt follows an answer that names the peer as absent.
THEOREM AbsenceIsFinal == Spec => []AbsentPeerEndsIt
  BY RetryInvariance, PTL DEF RetryInv

----------------------------------------------------------------------------
\* The delays

\* A set of n numbers has 2 ^ n subsets, ...
LEMMA SubsetsCounted ==
  ASSUME NEW n \in Nat
  PROVE  /\ IsFiniteSet(SUBSET (1 .. n))
         /\ Cardinality(SUBSET (1 .. n)) = 2 ^ n
         /\ 2 ^ n \in Nat
<1>1. IsFiniteSet(1 .. n) /\ Cardinality(1 .. n) = n
  BY FS_Interval
<1>. QED BY <1>1, FS_SUBSET, FS_CardinalityType

\* ... half of which do not contain the last one, so the power doubles.
LEMMA PowerDoubles ==
  ASSUME NEW n \in Nat
  PROVE  2 ^ (n + 1) = 2 ^ n + 2 ^ n
<1>. DEFINE Without == SUBSET (1 .. n)
            With == {S \cup {n + 1} : S \in Without}
            f == [S \in Without |-> S \cup {n + 1}]
<1>1. f \in Bijection(Without, With)
  <2>1. f \in Surjection(Without, With)
    BY DEF Surjection
  <2>2. ASSUME NEW S \in Without, NEW T \in Without, f[S] = f[T] PROVE S = T
    <3>1. S = f[S] \ {n + 1} /\ T = f[T] \ {n + 1}
      OBVIOUS
    <3>. QED BY <2>2, <3>1
  <2>. HIDE DEF f, Without, With
  <2>3. f \in Injection(Without, With)
    BY <2>1, <2>2 DEF Surjection, Injection, IsInjective
  <2>. QED BY <2>1, <2>3 DEF Bijection
<1>2. IsFiniteSet(Without) /\ Cardinality(Without) = 2 ^ n /\ 2 ^ n \in Nat
  BY SubsetsCounted
<1>3. IsFiniteSet(With) /\ Cardinality(With) = 2 ^ n
  <2>. HIDE DEF f, Without, With
  <2>. QED BY <1>1, <1>2, FS_Bijection DEF ExistsBijection
<1>4. Without \cap With = {}
  OBVIOUS
<1>5. Without \cup With = SUBSET (1 .. n + 1)
  <2>1. ASSUME NEW S \in SUBSET (1 .. n + 1), S \notin Without PROVE S \in With
    <3>1. S = (S \ {n + 1}) \cup {n + 1} /\ S \ {n + 1} \in Without
      BY <2>1
    <3>. QED BY <3>1
  <2>2. \A k \in 1 .. n : k \in 1 .. n + 1
    OBVIOUS
  <2>3. n + 1 \in 1 .. n + 1
    OBVIOUS
  <2>4. ASSUME NEW S \in SUBSET (1 .. n)
        PROVE  S \in SUBSET (1 .. n + 1) /\ S \cup {n + 1} \in SUBSET (1 .. n + 1)
    BY <2>2, <2>3
  <2>5. With \subseteq SUBSET (1 .. n + 1) /\ Without \subseteq SUBSET (1 .. n + 1)
    BY <2>4
  <2>. HIDE DEF f, Without, With
  <2>. QED BY <2>1, <2>5
<1>6. Cardinality(SUBSET (1 .. n + 1)) = 2 ^ (n + 1)
  BY SubsetsCounted
<1>7. Cardinality(Without \cup With) = 2 ^ n + 2 ^ n - Cardinality({})
  <2>. HIDE DEF f, Without, With
  <2>. QED BY <1>2, <1>3, <1>4, FS_Union
<1>8. 2 ^ (n + 1) = 2 ^ n + 2 ^ n - Cardinality({})
  <2>. HIDE DEF f, Without, With
  <2>. QED BY <1>5, <1>6, <1>7
<1>9. Cardinality({}) = 0
  BY FS_EmptySet
<1>10. \A a \in Nat : a + a - 0 = a + a
  OBVIOUS
<1>. HIDE DEF f, Without, With
<1>. QED BY <1>2, <1>8, <1>9, <1>10

\* What has been slept before attempt k, if each delay is twice the last one.
Slept(k) == Base * (2 ^ k - 1)

\* The next delay brings the sum to the next term.
LEMMA SleptGrows ==
  ASSUME NEW k \in Nat
  PROVE  /\ Slept(k) \in Nat
         /\ Slept(k + 1) = Slept(k) + Base * 2 ^ k
<1>. DEFINE p == 2 ^ k
<1>1. p \in Nat \ {0} /\ 2 ^ (k + 1) = p + p /\ Base \in Nat
  <2>1. p \in Nat /\ 2 ^ (k + 1) = p + p
    BY SubsetsCounted, PowerDoubles
  <2>2. SUBSET (1 .. k) # {} /\ Cardinality(SUBSET (1 .. k)) # 0
    <3>. DEFINE P == SUBSET (1 .. k)
    <3>1. IsFiniteSet(P) /\ P # {}
      BY SubsetsCounted
    <3>. HIDE DEF P
    <3>2. Cardinality(P) # 0
      BY <3>1, FS_EmptySet
    <3>. QED BY <3>1, <3>2 DEF P
  <2>3. p # 0
    BY <2>2, SubsetsCounted
  <2>. QED BY <2>1, <2>3, SendAssumption
<1>2. Slept(k) = Base * (p - 1) /\ Slept(k + 1) = Base * (p + p - 1)
  BY <1>1 DEF Slept
<1>. HIDE DEF p
<1>3. \A b, q \in Nat : b * (q - 1) + b * q = b * (q + q - 1)
  OBVIOUS
<1>4. \A b, q \in Nat : b * q \in Nat
  OBVIOUS
<1>5. p - 1 \in Nat
  BY <1>1
<1>6. Base * (p - 1) \in Nat
  BY <1>1, <1>4, <1>5
<1>. QED BY <1>1, <1>2, <1>3, <1>6 DEF p

\* While attempts are left, all the delays so far have been slept; a call that
\* gave up on a transient failure has used all attempts, and slept after all
\* but the last.
SleepInv ==
  /\ stage # "done" => slept = Slept(attempt)
  /\ result = "transient" =>
       /\ stage = "done"
       /\ attempt = maxAttempts
       /\ slept = Slept(attempt - 1)

\* What RetryInv leaves out of the types.
RestOfTypes ==
  /\ maxAttempts \in 1 .. MaxMax
  /\ attempt <= maxAttempts
  /\ result \in {"none", "sent"} \cup Kind
  /\ slept \in Nat

\* One failed attempt that counts as transient: the sleep before the next one,
\* or the end.
LEMMA TransientSleep ==
  ASSUME RetryInv, SleepInv, RestOfTypes, stage = "calling", Transient, Counted,
         maxAttempts' = maxAttempts
  PROVE  SleepInv' /\ RestOfTypes'
<1>1. attempt \in Nat /\ attempt' = attempt + 1 /\ maxAttempts \in Nat
      /\ slept = Slept(attempt) /\ attempt < maxAttempts /\ result = "none"
  BY DEF RetryInv, Types, Running, SleepInv, Counted
<1>2. CASE MoreAllowed
  <2>1. stage' = "sleeping" /\ slept' = slept + Base * 2 ^ attempt /\ result' = result
    BY <1>2 DEF Transient, Delay
  <2>2. slept' = Slept(attempt + 1) /\ slept' \in Nat
    BY <1>1, <2>1, SleptGrows
  <2>3. SleepInv'
    BY <1>1, <2>1, <2>2 DEF SleepInv, Slept
  <2>. QED BY <1>1, <1>2, <2>1, <2>2, <2>3 DEF RestOfTypes, MoreAllowed
<1>3. CASE ~MoreAllowed
  <2>1. stage' = "done" /\ slept' = slept /\ result' = "transient"
    BY <1>3 DEF Transient, Finish
  <2>2. attempt' = maxAttempts' /\ attempt' - 1 = attempt
    BY <1>1, <1>3 DEF MoreAllowed
  <2>3. SleepInv'
    BY <1>1, <2>1, <2>2 DEF SleepInv, Slept
  <2>. QED BY <1>1, <2>1, <2>2, <2>3 DEF RestOfTypes, Kind
<1>. QED BY <1>2, <1>3

\* One attempt that ends the call with something else.
LEMMA OtherEnd ==
  ASSUME RetryInv, RestOfTypes, stage = "calling", Counted,
         NEW r \in {"sent", "participant_not_found", "unknown"}, Finish(r),
         maxAttempts' = maxAttempts
  PROVE  SleepInv' /\ RestOfTypes'
<1>1. stage' = "done" /\ result' = r /\ slept' = slept /\ attempt' = attempt + 1
  BY DEF Finish, Counted
<1>. QED BY <1>1 DEF RetryInv, Types, Running, RestOfTypes, SleepInv, Kind

\* SleepInv and the types hold in every state.
THEOREM SleepInvariance == Spec => [](SleepInv /\ RestOfTypes)
<1>1. Init => SleepInv /\ RestOfTypes
  <2>1. Slept(0) = 0
    <3>1. 2 ^ 0 = 1
      OBVIOUS
    <3>2. \A b \in Nat : b * 0 = 0
      OBVIOUS
    <3>. QED BY <3>1, <3>2, SendAssumption DEF Slept
  <2>. QED BY <2>1, SendAssumption DEF Init, SleepInv, RestOfTypes
<1>2. RetryInv /\ SleepInv /\ RestOfTypes /\ [Next]_vars => (SleepInv /\ RestOfTypes)'
  <2> SUFFICES ASSUME RetryInv, SleepInv, RestOfTypes, [Next]_vars
               PROVE  SleepInv' /\ RestOfTypes'
    OBVIOUS
  <2>1. CASE UNCHANGED <<maxAttempts, attempt, stage, slept, result>>
    BY <2>1 DEF SleepInv, RestOfTypes, Slept
  <2>2. CASE UNCHANGED vars \/ Late
    BY <2>1, <2>2 DEF vars, Late
  <2>3. CASE Answer
    BY <2>3, OtherEnd DEF Answer
  <2>4. CASE AnswerError
    <3>1. stage = "calling" /\ Counted /\ maxAttempts' = maxAttempts
      BY <2>4 DEF AnswerError
    <3>2. PICK text \in ErrorText :
            IF Classify(text) = "transient" THEN Transient ELSE Finish(Classify(text))
      BY <2>4 DEF AnswerError
    <3>3. Classify(text) \in Kind
      BY DEF Classify, Kind
    <3>4. CASE Classify(text) = "transient"
      BY <3>1, <3>2, <3>4, TransientSleep
    <3>5. CASE Classify(text) # "transient"
      <4>1. Classify(text) \in {"sent", "participant_not_found", "unknown"}
        BY <3>3, <3>5 DEF Kind
      <4>. HIDE DEF Classify
      <4>. QED BY <3>1, <3>2, <3>5, <4>1, OtherEnd
    <3>. QED BY <3>4, <3>5
  <2>5. CASE TransportFails \/ TimesOut
    BY <2>5, TransientSleep DEF TransportFails, TimesOut
  <2>6. CASE Wake
    <3>1. result # "transient"
      BY <2>6 DEF Wake, SleepInv
    <3>. QED BY <2>6, <3>1 DEF Wake, SleepInv, RestOfTypes, Slept
  <2>. QED BY <2>2, <2>3, <2>4, <2>5, <2>6 DEF Next
<1>. QED BY <1>1, <1>2, RetryInvariance, PTL DEF Spec

\* A transient failure is raised only with the budget used up, and the delays
\* are Base, 2 Base, 4 Base ... between the attempts and nowhere else.
THEOREM DelaysExact == Spec => []BudgetUsedExactly
<1>1. RetryInv /\ SleepInv => BudgetUsedExactly
  BY DEF RetryInv, Types, SleepInv, BudgetUsedExactly, Slept
<1>. QED BY <1>1, RetryInvariance, SleepInvariance, PTL

\* Every variable keeps its type.
THEOREM TypeCorrect == Spec => []TypeOK
<1>1. RetryInv /\ RestOfTypes => TypeOK
  BY DEF RetryInv, Types, RestOfTypes, TypeOK
<1>. QED BY <1>1, RetryInvariance, SleepInvariance, PTL

=============================================================================
