-------------------------- MODULE ThrottlerProofs --------------------------
(* Proofs about the throttler, for any finite set of requests and any      *)
(* number of calls of SetRPS: types, the count of waiting requests, and    *)
(* that a sleeping request hears of the next SetRPS.                       *)
EXTENDS Throttler, FiniteSetTheorems, TLAPS

Panicked == {r \in Request : pc[r] = "panicked"}

\* SetRPS stores a ticker only on its way to a new channel, which replaces one.
RoomForChannel ==
  /\ setPC = "ticker" => tickerClose < MaxSets
  /\ setPC = "channel" => tickerClose > 0

Inv == TypeOK /\ RoomForChannel /\ PendingIsExact /\ WatchersHear

-----------------------------------------------------------------------------
(* Counting sets of requests.                                              *)

LEMMA RequestsFinite ==
  ASSUME NEW S \in SUBSET Request
  PROVE  IsFiniteSet(S) /\ Cardinality(S) \in Nat
<1>1. IsFiniteSet(Request)
  BY ThrottlerAssumption
<1> QED
  BY <1>1, FS_Subset, FS_CardinalityType

LEMMA CountIn ==
  ASSUME NEW S \in SUBSET Request, NEW r \in Request, r \notin S
  PROVE  Cardinality(S \cup {r}) = Cardinality(S) + 1
  BY RequestsFinite, FS_AddElement

LEMMA CountOut ==
  ASSUME NEW S \in SUBSET Request, NEW r \in S
  PROVE  /\ Cardinality(S \ {r}) = Cardinality(S) - 1
         /\ Cardinality(S) - 1 \in Nat
<1>1. IsFiniteSet(S) /\ S \ {r} \in SUBSET Request
  BY RequestsFinite
<1>2. Cardinality(S \ {r}) = Cardinality(S) - 1
  BY <1>1, FS_RemoveElement
<1> QED
  BY <1>1, <1>2, RequestsFinite

LEMMA Sets ==
  /\ Pending \in SUBSET Request /\ Cardinality(Pending) \in Nat
  /\ Panicked \in SUBSET Request /\ Cardinality(Panicked) \in Nat
<1>1. Pending \in SUBSET Request /\ Panicked \in SUBSET Request
  BY DEF Pending, Panicked
<1> QED
  BY <1>1, RequestsFinite

-----------------------------------------------------------------------------
(* How a step of a request moves it between the sets that are counted.     *)

\* A step that leaves the request waiting, or finds it passed already.
Stays == Pending' = Pending /\ Panicked' = Panicked /\ count' = count

Leaves(r) ==
  /\ r \in Pending /\ Pending' = Pending \ {r} /\ Panicked' = Panicked
  /\ count' = count - 1

LEMMA MoveArrive ==
  ASSUME TypeOK, NEW r \in Request, Arrive(r)
  PROVE  \/ Stays
         \/ /\ r \notin Pending /\ Pending' = Pending \cup {r} /\ Panicked' = Panicked
            /\ count' = count + 1
<1>1. CASE ticker = Nil
  BY <1>1 DEF TypeOK, Arrive, Goto, Pending, Panicked, Stays
<1>2. CASE ticker # Nil
  BY <1>2 DEF TypeOK, Arrive, Goto, Pending, Panicked
<1> QED
  BY <1>1, <1>2

LEMMA MoveEvaluate ==
  ASSUME TypeOK, NEW r \in Request, Evaluate(r)
  PROVE  \/ Stays
         \/ /\ r \in Pending /\ Pending' = Pending \ {r}
            /\ r \notin Panicked /\ Panicked' = Panicked \cup {r}
            /\ count' = count
<1>1. CASE tt[r] = Nil
  BY <1>1 DEF TypeOK, Evaluate, Goto, Pending, Panicked
<1>2. CASE tt[r] # Nil
  BY <1>2 DEF TypeOK, Evaluate, Goto, Pending, Panicked, Stays
<1> QED
  BY <1>1, <1>2

LEMMA MoveTakeTick ==
  ASSUME TypeOK, NEW r \in Request, TakeTick(r)
  PROVE  Leaves(r)
  BY DEF TypeOK, TakeTick, Goto, Pending, Panicked, Leaves

LEMMA MoveTest ==
  ASSUME TypeOK, NEW r \in Request, Test(r)
  PROVE  Stays \/ Leaves(r)
<1>1. CASE ticker = Nil
  BY <1>1 DEF TypeOK, Test, Goto, Pending, Panicked, Leaves
<1>2. CASE ticker # Nil
  BY <1>2 DEF TypeOK, Test, Goto, Pending, Panicked, Stays
<1> QED
  BY <1>1, <1>2

LEMMA MoveWithin ==
  ASSUME TypeOK, NEW r \in Request, Exempt(r) \/ SeeClosed(r) \/ Reread(r)
  PROVE  Stays
  BY DEF TypeOK, Exempt, SeeClosed, Reread, Goto, Pending, Panicked, Stays

\* The count stays exact, and so never negative, whatever the move.
LEMMA CountStep ==
  ASSUME Inv, NEW r \in Request,
         \/ Stays \/ Leaves(r)
         \/ /\ r \notin Pending /\ Pending' = Pending \cup {r} /\ Panicked' = Panicked
            /\ count' = count + 1
         \/ /\ r \in Pending /\ Pending' = Pending \ {r}
            /\ r \notin Panicked /\ Panicked' = Panicked \cup {r}
            /\ count' = count
  PROVE  PendingIsExact' /\ count' \in Nat
<1>1. count = Cardinality(Pending) + Cardinality(Panicked)
  BY DEF Inv, PendingIsExact, Panicked
<1>2. Cardinality(Pending) \in Nat /\ Cardinality(Panicked) \in Nat
  BY Sets
<1>3. count' = Cardinality(Pending') + Cardinality(Panicked') /\ count' \in Nat
  <2>1. CASE Stays
    BY <1>1, <1>2, <2>1 DEF Stays
  <2>2. CASE Leaves(r)
    <3>1. Pending' = Pending \ {r} /\ Panicked' = Panicked /\ count' = count - 1 /\ r \in Pending
      BY <2>2 DEF Leaves
    <3>2. Cardinality(Pending') = Cardinality(Pending) - 1 /\ Cardinality(Pending) - 1 \in Nat
      BY <3>1, CountOut, Sets
    <3>3. Cardinality(Panicked') = Cardinality(Panicked)
      BY <3>1
    <3> QED
      BY <1>1, <1>2, <3>1, <3>2, <3>3
  <2>3. CASE /\ r \notin Pending /\ Pending' = Pending \cup {r} /\ Panicked' = Panicked
             /\ count' = count + 1
    <3>1. Cardinality(Pending') = Cardinality(Pending) + 1
      BY <2>3, CountIn, Sets
    <3>2. Cardinality(Panicked') = Cardinality(Panicked)
      BY <2>3
    <3> QED
      BY <1>1, <1>2, <2>3, <3>1, <3>2
  <2>4. CASE /\ r \in Pending /\ Pending' = Pending \ {r}
             /\ r \notin Panicked /\ Panicked' = Panicked \cup {r}
             /\ count' = count
    <3>1. Cardinality(Pending') = Cardinality(Pending) - 1 /\ Cardinality(Pending) - 1 \in Nat
      BY <2>4, CountOut, Sets
    <3>2. Cardinality(Panicked') = Cardinality(Panicked) + 1
      BY <2>4, CountIn, Sets
    <3> QED
      BY <1>1, <1>2, <2>4, <3>1, <3>2
  <2> QED
    BY <2>1, <2>2, <2>3, <2>4
<1> QED
  BY <1>3 DEF PendingIsExact, Panicked

-----------------------------------------------------------------------------
(* The inductive step.                                                     *)

LEMMA InitInv == Init => Inv
<1> SUFFICES ASSUME Init PROVE Inv
  OBVIOUS
<1>1. 0 \in Made
  BY ThrottlerAssumption DEF Made
<1>2. TypeOK
  BY <1>1 DEF Init, TypeOK, RequestPC, SetPC
<1>3. RoomForChannel /\ WatchersHear
  BY DEF Init, RoomForChannel, WatchersHear
<1>4. Pending = {} /\ {r \in Request : pc[r] = "panicked"} = {}
  BY DEF Init, Pending
<1> QED
  BY <1>2, <1>3, <1>4, FS_EmptySet DEF Init, Inv, PendingIsExact

LEMMA RequestTypes ==
  ASSUME Inv, NEW r \in Request, count' \in Nat,
         Exempt(r) \/ Arrive(r) \/ RequestStep(r)
  PROVE  TypeOK' /\ RoomForChannel'
<1> USE DEF Inv, TypeOK, RoomForChannel, setVars, Goto, RequestPC
<1>1. CASE Exempt(r) \/ Arrive(r)
  BY <1>1 DEF Exempt, Arrive
<1>2. CASE Evaluate(r) \/ TakeTick(r)
  BY <1>2 DEF Evaluate, TakeTick
<1>3. CASE SeeClosed(r) \/ Reread(r) \/ Test(r)
  BY <1>3 DEF SeeClosed, Reread, Test
<1> QED
  BY <1>1, <1>2, <1>3 DEF RequestStep

\* A request goes to sleep on the channel that is current.
LEMMA RequestHears ==
  ASSUME Inv, NEW r \in Request, Exempt(r) \/ Arrive(r) \/ RequestStep(r)
  PROVE  WatchersHear'
<1> USE DEF Inv, TypeOK, WatchersHear, Signalled, setVars, Goto
<1>1. CASE Evaluate(r)
  BY <1>1 DEF Evaluate
<1>2. CASE Exempt(r) \/ Arrive(r) \/ TakeTick(r)
  BY <1>2 DEF Exempt, Arrive, TakeTick
<1>3. CASE SeeClosed(r) \/ Reread(r) \/ Test(r)
  BY <1>3 DEF SeeClosed, Reread, Test
<1> QED
  BY <1>1, <1>2, <1>3 DEF RequestStep

LEMMA RequestInv ==
  ASSUME Inv, NEW r \in Request, Exempt(r) \/ Arrive(r) \/ RequestStep(r)
  PROVE  Inv'
<1>1. TypeOK
  BY DEF Inv
<1>2. PendingIsExact' /\ count' \in Nat
  BY <1>1, CountStep, MoveArrive, MoveEvaluate, MoveTakeTick, MoveTest, MoveWithin
     DEF RequestStep
<1> QED
  BY <1>2, RequestTypes, RequestHears DEF Inv

\* SetRPS stores the new channel, and closes the old one.
LEMMA SetInv ==
  ASSUME Inv, (\E positive \in BOOLEAN : SetTicker(positive)) \/ StoreChannel \/ SignalWaiters
  PROVE  Inv'
<1> USE ThrottlerAssumption
<1>1. UNCHANGED <<count, pc, tt, watched, ticked>>
  BY DEF SetTicker, StoreChannel, SignalWaiters, requestVars
<1>2. PendingIsExact'
  BY <1>1 DEF Inv, PendingIsExact, Pending
<1>3. TypeOK' /\ RoomForChannel'
  <2>1. ASSUME NEW positive \in BOOLEAN, SetTicker(positive)
        PROVE  TypeOK' /\ RoomForChannel'
    <3>1. tickerClose + 1 \in Made
      BY <2>1 DEF Inv, TypeOK, SetTicker, Made
    <3> QED
      BY <1>1, <2>1, <3>1 DEF Inv, TypeOK, RoomForChannel, SetTicker, SetPC
  <2>2. CASE StoreChannel
    <3>1. tickerClose + 1 \in Made /\ tickerClose + 1 > 0
      BY <2>2 DEF Inv, TypeOK, RoomForChannel, StoreChannel, Made
    <3> QED
      BY <1>1, <2>2, <3>1 DEF Inv, TypeOK, RoomForChannel, StoreChannel, SetPC
  <2>3. CASE SignalWaiters
    <3>1. tickerClose - 1 \in Made
      BY <2>3 DEF Inv, TypeOK, RoomForChannel, SignalWaiters, Made
    <3> QED
      BY <1>1, <2>3, <3>1 DEF Inv, TypeOK, RoomForChannel, SignalWaiters, SetPC
  <2> QED
    BY <2>1, <2>2, <2>3
<1>4. WatchersHear'
  <2>1. ASSUME NEW positive \in BOOLEAN, SetTicker(positive) PROVE WatchersHear'
    BY <1>1, <2>1 DEF Inv, WatchersHear, Signalled, SetTicker, Locked
  <2>2. CASE StoreChannel
    <3>1. tickerClose' - 1 = tickerClose
      BY <2>2 DEF Inv, TypeOK, StoreChannel, Made
    <3> QED
      BY <1>1, <2>2, <3>1 DEF Inv, WatchersHear, Signalled, StoreChannel
  <2>3. CASE SignalWaiters
    BY <1>1, <2>3 DEF Inv, WatchersHear, Signalled, SignalWaiters
  <2> QED
    BY <2>1, <2>2, <2>3
<1> QED
  BY <1>2, <1>3, <1>4 DEF Inv

LEMMA FireInv ==
  ASSUME Inv, NEW n \in Made, Fire(n)
  PROVE  Inv'
  BY DEF Inv, Fire, TypeOK, RoomForChannel, PendingIsExact, Pending, WatchersHear,
         Signalled, setVars, requestVars

LEMMA InvStep == Inv /\ [Next]_vars => Inv'
<1> SUFFICES ASSUME Inv, [Next]_vars PROVE Inv'
  OBVIOUS
<1>1. CASE UNCHANGED vars
  BY <1>1 DEF vars, setVars, requestVars, Inv, TypeOK, RoomForChannel, PendingIsExact,
              Pending, WatchersHear, Signalled
<1> QED
  BY <1>1, RequestInv, SetInv, FireInv DEF Next, RequestStep

-----------------------------------------------------------------------------
(* The theorems.                                                           *)

\* Inv is an invariant of the throttler.
THEOREM Invariance == Spec => []Inv
  BY InitInv, InvStep, PTL DEF Spec

\* Every variable keeps its type; the count of requests is never negative.
THEOREM TypeCorrect == Spec => []TypeOK
<1>1. Inv => TypeOK
  BY DEF Inv
<1> QED
  BY Invariance, <1>1, PTL

\* Pending() is exact, but for requests that have panicked.
THEOREM ExactPending == Spec => []PendingIsExact
<1>1. Inv => PendingIsExact
  BY DEF Inv
<1> QED
  BY Invariance, <1>1, PTL

\* A request that sleeps will be woken by the next SetRPS.
THEOREM NextSetRPSHeard == Spec => []WatchersHear
<1>1. Inv => WatchersHear
  BY DEF Inv
<1> QED
  BY Invariance, <1>1, PTL
=============================================================================
