--------------------------- MODULE RequestLimiter ---------------------------
(***************************************************************************)
(* What filter.Upstream promises to the server behind it and to requests:  *)
(* a request is admitted only while fewer requests than the limit are      *)
(* admitted, and made to wait only while there are as many as the limit or *)
(* more.  The limit may change at any time; lowering it revokes nothing.   *)
(* There are no counters, condition variable or queue, and nothing says    *)
(* who of those who wait is admitted.                                      *)
(***************************************************************************)
EXTENDS Integers, FiniteSets

CONSTANTS
  Request,  \* the requests that may come
  Limits    \* the limits that may be set

VARIABLES
  limit,     \* no limit unless it is positive
  waiting,   \* requests that wait
  admitted,  \* requests that have been admitted and have not left
  left       \* requests that have left

vars == <<limit, waiting, admitted, left>>

Room == limit > 0 => Cardinality(admitted) < limit

Init ==
  /\ limit = 0
  /\ waiting = {} /\ admitted = {} /\ left = {}

Wait(r) ==
  /\ r \notin waiting \cup admitted \cup left
  /\ ~Room
  /\ waiting' = waiting \cup {r}
  /\ UNCHANGED <<limit, admitted, left>>

\* A newcomer may be admitted while others wait.
Admit(r) ==
  /\ r \notin admitted \cup left
  /\ Room
  /\ admitted' = admitted \cup {r}
  /\ waiting' = waiting \ {r}
  /\ UNCHANGED <<limit, left>>

Leave(r) ==
  /\ r \in admitted
  /\ admitted' = admitted \ {r}
  /\ left' = left \cup {r}
  /\ UNCHANGED <<limit, waiting>>

SetLimit(max) ==
  /\ limit' = max
  /\ UNCHANGED <<waiting, admitted, left>>

Next ==
  \/ \E r \in Request : Wait(r) \/ Admit(r) \/ Leave(r)
  \/ \E max \in Limits : SetLimit(max)

Spec == Init /\ [][Next]_vars
=============================================================================
