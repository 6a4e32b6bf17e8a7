------------------------- MODULE MessageOrderProofs ------------------------
(***************************************************************************)
(* What the proofs about drains need of MessageOrder.  It rests on the     *)
(* well-foundedness of the strict subsets of a finite set, from which the  *)
(* first lemma draws least elements, and the second counting up.           *)
(***************************************************************************)
EXTENDS MessageOrder, FiniteSetTheorems, SequenceTheorems, TLAPS

\* A snapshot that is not empty has a least message, and Least finds it: the
\* drain's loop always has a next message to turn to.
LEMMA LeastExists ==
  ASSUME NEW n \in Nat, NEW S \in SUBSET (1 .. n), S # {}
  PROVE  Least(S) \in S /\ \A k \in S : Least(S) <= k
<1>. DEFINE Below(x) == {y \in S : y < x}
            R == StrictSubsetOrdering(S)
            T == {Below(x) : x \in S}
<1>1. IsFiniteSet(S)
  <2>1. IsFiniteSet(1 .. n)
    BY FS_Interval
  <2>. QED BY <2>1, FS_Subset
<1>2. T \subseteq FiniteSubsetsOf(S)
  BY <1>1, FS_Subset DEF FiniteSubsetsOf
<1>3. IsWellFoundedOn(R, FiniteSubsetsOf(S))
  BY <1>1, FS_StrictSubsetOrderingWellFounded
<1>4. ASSUME NEW x \in S, NEW y \in S, y < x
      PROVE  <<Below(y), Below(x)>> \in R
  <2>1. Below(y) \subseteq Below(x)
    <3>1. x \in Nat /\ y \in Nat /\ S \subseteq Nat
      OBVIOUS
    <3>2. ASSUME NEW z \in Below(y) PROVE z < x /\ z \in S
      BY <1>4, <3>1
    <3>. QED BY <3>2
  <2>2. y \in Below(x) /\ y \notin Below(y)
    BY <1>4
  <2>3. Below(x) \in SUBSET S /\ Below(y) \in SUBSET S
    OBVIOUS
  <2>. QED BY <2>1, <2>2, <2>3 DEF StrictSubsetOrdering
<1>5. T # {}
  OBVIOUS
<1>6. PICK B \in T : \A A \in T : <<A, B>> \notin R
  <2>. HIDE DEF R, T
  <2>. QED BY <1>2, <1>3, <1>5, WFMin
<1>7. PICK x \in S : B = Below(x)
  OBVIOUS
<1>8. ASSUME NEW k \in S PROVE x <= k
  <2>1. <<Below(k), Below(x)>> \notin R
    BY <1>6, <1>7
  <2>2. ~(k < x)
    BY <1>4, <2>1
  <2>. QED BY <2>2
<1>. QED BY <1>8 DEF Least

\* Induction over the numbers, for a set in the place of a predicate.
LEMMA CountingUp ==
  ASSUME NEW S, 0 \in S, \A n \in Nat : n \in S => n + 1 \in S
  PROVE  Nat \subseteq S
<1>. SUFFICES ASSUME NEW n \in Nat, n \notin S PROVE FALSE
  OBVIOUS
<1>. DEFINE T == {k \in 1 .. n : k \notin S}
<1>1. n \in T
  OBVIOUS
<1>2. PICK m \in T : \A k \in T : m <= k
  BY <1>1, LeastExists
<1>3. m \in 1 .. n /\ m \notin S
  OBVIOUS
<1>4. m - 1 \in Nat /\ m - 1 \in S
  <2>1. CASE m = 1
    BY <2>1
  <2>2. CASE m # 1
    <3>1. m - 1 \in 1 .. n /\ ~(m <= m - 1)
      BY <1>3, <2>2
    <3>. QED BY <1>2, <3>1
  <2>. QED BY <2>1, <2>2
<1>5. m - 1 + 1 = m
  BY <1>3
<1>. QED BY <1>3, <1>4, <1>5

\* A snapshot can be listed in the order of arrival, ...
LEMMA OrderExists ==
  ASSUME NEW n \in Nat, NEW S \in SUBSET (1 .. n)
  PROVE  \E s \in [1 .. Cardinality(S) -> S] :
           \A i, j \in DOMAIN s : i < j => s[i] < s[j]
<1>. DEFINE Lists(s, T) == \A i, j \in 1 .. Cardinality(T) : i < j => s[i] < s[j]
            Good == {k \in Nat : \A T \in SUBSET (1 .. k) :
                                   \E s \in [1 .. Cardinality(T) -> T] : Lists(s, T)}
<1>1. 0 \in Good
  <2>1. ASSUME NEW T \in SUBSET (1 .. 0)
        PROVE  \E s \in [1 .. Cardinality(T) -> T] : Lists(s, T)
    <3>1. T = {} /\ Cardinality(T) = 0
      <4>1. T = {}
        OBVIOUS
      <4>. QED BY <4>1, FS_EmptySet
    <3>2. [i \in {} |-> 0] \in [1 .. 0 -> {}]
      OBVIOUS
    <3>. QED BY <3>1, <3>2
  <2>. QED BY <2>1
<1>2. ASSUME NEW k \in Nat, k \in Good PROVE k + 1 \in Good
  <2>1. ASSUME NEW T \in SUBSET (1 .. k + 1), k + 1 \in T
        PROVE  \E s \in [1 .. Cardinality(T) -> T] : Lists(s, T)
    <3>. DEFINE R == T \ {k + 1}
                c == Cardinality(R)
    <3>1. R \in SUBSET (1 .. k)
      OBVIOUS
    <3>2. PICK r \in [1 .. c -> R] : Lists(r, R)
      BY <1>2, <3>1
    <3>3. c \in Nat /\ Cardinality(T) = c + 1
      <4>1. IsFiniteSet(T) /\ IsFiniteSet(R)
        <5>1. IsFiniteSet(1 .. k + 1)
          BY FS_Interval
        <5>. QED BY <5>1, FS_Subset
      <4>. QED BY <2>1, <4>1, FS_RemoveElement, FS_CardinalityType
    <3>. DEFINE s == [i \in 1 .. c + 1 |-> IF i <= c THEN r[i] ELSE k + 1]
    <3>. HIDE DEF R, c
    <3>4. \A i \in 1 .. c : r[i] \in T /\ r[i] < k + 1
      <4>1. \A m \in R : m \in T /\ m < k + 1
        BY <3>1 DEF R
      <4>. QED BY <3>2, <4>1
    <3>5. s \in [1 .. c + 1 -> T]
      BY <2>1, <3>3, <3>4
    <3>6. ASSUME NEW i \in 1 .. c + 1, NEW j \in 1 .. c + 1, i < j
          PROVE  s[i] < s[j]
      <4>1. i \in 1 .. c /\ s[i] = r[i]
        BY <3>3, <3>6
      <4>2. CASE j = c + 1
        BY <3>3, <3>4, <4>1, <4>2
      <4>3. CASE j \in 1 .. c
        BY <3>2, <3>3, <3>6, <4>1, <4>3 DEF c
      <4>. QED BY <3>3, <4>2, <4>3
    <3>. QED BY <3>3, <3>5, <3>6
  <2>2. \A T \in SUBSET (1 .. k + 1) : k + 1 \notin T => T \in SUBSET (1 .. k)
    OBVIOUS
  <2>. QED BY <1>2, <2>1, <2>2
<1>3. n \in Good
  <2>. HIDE DEF Good
  <2>. QED BY <1>1, <1>2, CountingUp
<1>4. PICK s \in [1 .. Cardinality(S) -> S] : Lists(s, S)
  BY <1>3
<1>. QED BY <1>4

\* ... and InArrivalOrder does so: every message once, the oldest first.
LEMMA ArrivalOrder ==
  ASSUME NEW n \in Nat, NEW S \in SUBSET (1 .. n)
  PROVE  /\ InArrivalOrder(S) \in Seq(S)
         /\ \A m \in S : \E i \in 1 .. Len(InArrivalOrder(S)) : InArrivalOrder(S)[i] = m
         /\ \A i, j \in 1 .. Len(InArrivalOrder(S)) :
              i < j => InArrivalOrder(S)[i] < InArrivalOrder(S)[j]
<1>. DEFINE c == Cardinality(S)
            s == InArrivalOrder(S)
<1>1. s \in [1 .. c -> S] /\ \A i, j \in 1 .. c : i < j => s[i] < s[j]
  BY OrderExists DEF InArrivalOrder
<1>2. IsFiniteSet(S) /\ c \in Nat
  <2>1. IsFiniteSet(1 .. n)
    BY FS_Interval
  <2>. QED BY <2>1, FS_Subset, FS_CardinalityType
<1>. HIDE DEF s
<1>3. s \in Seq(S) /\ Len(s) = c
  BY <1>1, <1>2, SeqDef
<1>4. s \in Surjection(1 .. c, S)
  <2>1. \A i, j \in 1 .. c : s[i] = s[j] => i = j
    <3>1. \A i \in 1 .. c : s[i] \in S
      BY <1>1
    <3>2. \A m \in S : m \in Nat
      OBVIOUS
    <3>. HIDE DEF c
    <3>3. \A i \in 1 .. c : s[i] \in Nat
      BY <3>1, <3>2
    <3>. QED BY <1>1, <1>2, <3>3
  <2>2. s \in Injection(1 .. c, S)
    BY <1>1, <2>1 DEF Injection, IsInjective
  <2>3. Cardinality(1 .. c) = c
    BY <1>2, FS_Interval
  <2>. QED BY <1>2, <2>2, <2>3, FS_Injection
<1>5. \A m \in S : \E i \in 1 .. c : s[i] = m
  BY <1>4 DEF Surjection
<1>. QED BY <1>1, <1>3, <1>5 DEF s

\* There is no other such list, ...
LEMMA OneOrder ==
  ASSUME NEW n \in Nat, NEW S \in SUBSET (1 .. n), NEW s \in Seq(S),
         \A m \in S : \E i \in 1 .. Len(s) : s[i] = m,
         \A i, j \in 1 .. Len(s) : i < j => s[i] < s[j]
  PROVE  InArrivalOrder(S) = s
<1>. DEFINE t == InArrivalOrder(S)
<1>1. /\ t \in Seq(S)
      /\ \A m \in S : \E i \in 1 .. Len(t) : t[i] = m
      /\ \A i, j \in 1 .. Len(t) : i < j => t[i] < t[j]
  BY ArrivalOrder
<1>. HIDE DEF t
<1>2. /\ Len(s) \in Nat /\ \A i \in 1 .. Len(s) : s[i] \in S
      /\ Len(t) \in Nat /\ \A i \in 1 .. Len(t) : t[i] \in S
  BY <1>1, LenProperties, ElementOfSeq
<1>3. /\ \A i \in 1 .. Len(s) : s[i] \in Nat
      /\ \A i \in 1 .. Len(t) : t[i] \in Nat
  <2>1. \A m \in S : m \in Nat
    OBVIOUS
  <2>. QED BY <1>2, <2>1
<1>. DEFINE Differs == {i \in 1 .. Len(s) : i \notin 1 .. Len(t) \/ s[i] # t[i]}
\* Where the lists differ first, each would have the other's message later.
<1>4. Differs = {}
  <2>. SUFFICES ASSUME Differs # {} PROVE FALSE
    OBVIOUS
  <2>1. PICK i \in Differs : \A k \in Differs : i <= k
    <3>1. Differs \in SUBSET (1 .. Len(s))
      OBVIOUS
    <3>. HIDE DEF Differs
    <3>. QED BY <1>2, <3>1, LeastExists
  <2>2. \A k \in 1 .. Len(s) : k < i => k \in 1 .. Len(t) /\ s[k] = t[k]
    BY <1>2, <2>1
  <2>3. i \in 1 .. Len(s) /\ s[i] \in S
    BY <1>2
  <2>4. PICK j \in 1 .. Len(t) : t[j] = s[i]
    BY <1>1, <2>3
  <2>5. ~(j < i)
    <3>. SUFFICES ASSUME j < i PROVE FALSE
      OBVIOUS
    <3>1. j \in 1 .. Len(s)
      BY <1>2, <2>3
    <3>2. s[j] = s[i] /\ s[j] < s[i]
      BY <2>2, <2>3, <2>4, <3>1
    <3>. QED BY <1>3, <2>3, <3>2
  <2>6. i \in 1 .. Len(t) /\ j # i
    BY <1>2, <2>1, <2>3, <2>4, <2>5
  <2>7. i < j /\ t[i] < s[i]
    BY <1>1, <1>2, <2>4, <2>5, <2>6
  <2>8. PICK k \in 1 .. Len(s) : s[k] = t[i]
    BY <1>2, <2>6
  <2>9. k < i
    <3>. SUFFICES ASSUME ~(k < i) PROVE FALSE
      OBVIOUS
    <3>1. k = i \/ i < k
      BY <1>2, <2>3
    <3>2. s[i] <= s[k]
      BY <1>3, <2>3, <3>1
    <3>. QED BY <1>3, <2>3, <2>6, <2>7, <2>8, <3>2
  <2>10. t[k] = t[i] /\ k \in 1 .. Len(t)
    BY <2>2, <2>8, <2>9
  <2>11. t[k] < t[i]
    BY <1>1, <2>6, <2>9, <2>10
  <2>. QED BY <1>3, <2>6, <2>10, <2>11
<1>5. \A i \in 1 .. Len(s) : i \in 1 .. Len(t) /\ s[i] = t[i]
  BY <1>4
<1>6. Len(s) = Len(t)
  <2>1. Len(s) <= Len(t)
    BY <1>2, <1>5
  <2>2. ASSUME Len(s) < Len(t) PROVE FALSE
    <3>. DEFINE l == Len(t)
    <3>1. l \in 1 .. Len(t) /\ t[l] \in S /\ \A k \in 1 .. Len(s) : k < l
      BY <1>2, <2>2
    <3>2. PICK k \in 1 .. Len(s) : s[k] = t[l]
      BY <3>1
    <3>3. k \in 1 .. Len(t) /\ t[k] = t[l]
      BY <1>5, <3>2
    <3>4. t[k] < t[l]
      BY <1>1, <3>1, <3>2, <3>3
    <3>. QED BY <1>3, <3>1, <3>3, <3>4
  <2>. QED BY <1>2, <2>1, <2>2
<1>. QED BY <1>1, <1>5, <1>6, SeqEqual DEF t

\* ... so a list grows by what arrives last.
LEMMA OrderGrows ==
  /\ InArrivalOrder({}) = <<>>
  /\ \A n \in Nat : \A S \in SUBSET (1 .. n) :
       InArrivalOrder(S \cup {n + 1}) = Append(InArrivalOrder(S), n + 1)
<1>1. InArrivalOrder({}) = <<>>
  <2>1. <<>> \in Seq({}) /\ Len(<<>>) = 0
    BY EmptySeq
  <2>2. {} \in SUBSET (1 .. 0) /\ 0 \in Nat
    OBVIOUS
  <2>. DEFINE s == <<>>
  <2>3. s \in Seq({}) /\ Len(s) = 0
    BY <2>1
  <2>. HIDE DEF s
  <2>4. 1 .. Len(s) = {}
    BY <2>3
  <2>5. \A i, j \in 1 .. Len(s) : i < j => s[i] < s[j]
    BY <2>4
  <2>6. InArrivalOrder({}) = s
    BY <2>2, <2>3, <2>5, OneOrder
  <2>. QED BY <2>6 DEF s
<1>2. ASSUME NEW n \in Nat, NEW S \in SUBSET (1 .. n)
      PROVE  InArrivalOrder(S \cup {n + 1}) = Append(InArrivalOrder(S), n + 1)
  <2>. DEFINE T == S \cup {n + 1}
              s == InArrivalOrder(S)
              t == Append(s, n + 1)
  <2>1. /\ s \in Seq(S)
        /\ \A m \in S : \E i \in 1 .. Len(s) : s[i] = m
        /\ \A i, j \in 1 .. Len(s) : i < j => s[i] < s[j]
    BY ArrivalOrder
  <2>2. T \in SUBSET (1 .. n + 1)
    <3>1. \A k \in 1 .. n : k \in 1 .. n + 1
      OBVIOUS
    <3>2. n + 1 \in 1 .. n + 1
      OBVIOUS
    <3>. QED BY <3>1, <3>2
  <2>. HIDE DEF s
  <2>3. s \in Seq(T) /\ n + 1 \in T
    BY <2>1, SeqMonotonic
  <2>. HIDE DEF T
  <2>4. /\ t \in Seq(T) /\ Len(t) = Len(s) + 1 /\ t[Len(s) + 1] = n + 1
        /\ \A i \in 1 .. Len(s) : t[i] = s[i]
    BY <2>3, AppendProperties
  <2>. HIDE DEF t
  <2>5. Len(s) \in Nat /\ \A i \in 1 .. Len(s) : s[i] \in S
    BY <2>1, LenProperties, ElementOfSeq
  <2>6. \A m \in T : \E i \in 1 .. Len(t) : t[i] = m
    <3>1. Len(s) + 1 \in 1 .. Len(t) /\ \A i \in 1 .. Len(s) : i \in 1 .. Len(t)
      BY <2>4, <2>5
    <3>. QED BY <2>1, <2>4, <3>1 DEF T
  <2>7. \A i, j \in 1 .. Len(t) : i < j => t[i] < t[j]
    <3>1. ASSUME NEW i \in 1 .. Len(t), NEW j \in 1 .. Len(t), i < j PROVE t[i] < t[j]
      <4>1. i \in 1 .. Len(s)
        BY <2>4, <2>5, <3>1
      <4>2. CASE j \in 1 .. Len(s)
        BY <2>1, <2>4, <3>1, <4>1, <4>2
      <4>3. CASE j = Len(s) + 1
        <5>1. s[i] \in 1 .. n
          BY <2>5, <4>1
        <5>. QED BY <2>4, <4>1, <4>3, <5>1
      <4>. QED BY <2>4, <2>5, <4>2, <4>3
    <3>. QED BY <3>1
  <2>8. InArrivalOrder(T) = t
    <3>1. n + 1 \in Nat /\ t \in Seq(T)
      BY <2>4
    <3>. QED BY <2>2, <2>6, <2>7, <3>1, OneOrder
  <2>. QED BY <2>8 DEF T, s, t
<1>. QED BY <1>1, <1>2

============================================================================
