---------------------------- MODULE MessageOrder ---------------------------
(***************************************************************************)
(* Messages are numbered in the order they arrive at the hub, the order in *)
(* which get_messages lists them.  A drain goes through its snapshot with  *)
(* `for msg in messages`, that is, least number first.  The lines of an    *)
(* event stream are numbered and listed in the same way.                   *)
(***************************************************************************)
EXTENDS Naturals, FiniteSets

\* (slip) The newest message first.
Newest(S) == CHOOSE m \in S : \A k \in S : m >= k

\* The message of S a drain turns to next.
Least(S) == CHOOSE m \in S : \A k \in S : m <= k

\* All messages of S, in the order a drain turns to them.  (The library's
\* SetToSortSeq says the same by TLC's SortSeq, which has no definition for the
\* provers.)
InArrivalOrder(S) ==
  CHOOSE s \in [1 .. Cardinality(S) -> S] : \A i, j \in DOMAIN s : i < j => s[i] < s[j]

============================================================================
