--------------------------- MODULE UpstreamProofs ---------------------------
(* Proofs about the throttle of filter.Upstream, for any finite set of     *)
(* requests and any limits: the counters are exact, no request is admitted *)
(* beyond the limit, no wakeup is lost, and the throttle implements        *)
(* RequestLimiter.                                                         *)
EXTENDS Upstream, FiniteSetTheorems, TLAPS

Inv == TypeOK /\ CountersAreExact /\ NoLostWakeup

-----------------------------------------------------------------------------
(* Counting sets of requests.                                              *)

LEMMA RequestsFinite ==
  ASSUME NEW S \in SUBSET Request
  PROVE  IsFiniteSet(S) /\ Cardinality(S) \in Nat
<1>1. IsFiniteSet(Request)
  BY RequestAssumption
<1> QED
  BY <1>1, FS_Subset, FS_CardinalityType

LEMMA CountIn ==
  ASSUME NEW S \in SUBSET Request, NEW r \in Request, r \notin S
  PROVE  Cardinality(S \cup {r}) = Cardinality(S) + 1
  BY RequestsFinite, FS_AddElement

LEMMA CountOut ==
  ASSUME NEW S \in SUBSET Request, NEW r \in S
  PROVE  /\ Cardinality(S \ {r}) = Cardinality(S) - 1
         /\ Cardinality(S) - 1 \in Nat
<1>1. IsFiniteSet(S) /\ S \ {r} \in SUBSET Request
  BY RequestsFinite
<1>2. Cardinality(S \ {r}) = Cardinality(S) - 1
  BY <1>1, FS_RemoveElement
<1> QED
  BY <1>1, <1>2, RequestsFinite

LEMMA Sets ==
  /\ \A label : At(label) \in SUBSET Request /\ Cardinality(At(label)) \in Nat
  /\ Waiting \in SUBSET Request /\ Cardinality(Waiting) \in Nat
  /\ InFlight \in SUBSET Request /\ Cardinality(InFlight) \in Nat
<1>1. \A label : At(label) \in SUBSET Request
  BY DEF At
<1>2. Waiting \in SUBSET Request /\ InFlight \in SUBSET Request
  BY DEF At, Waiting, InFlight
<1> QED
  BY <1>1, <1>2, RequestsFinite

-----------------------------------------------------------------------------
(* How each action moves requests between the sets that are counted.       *)

LEMMA MoveEnterFull ==
  ASSUME TypeOK, NEW r \in Request, Enter(r), Full
  PROVE  /\ Waiting' = Waiting \cup {r} /\ r \notin Waiting
         /\ InFlight' = InFlight
         /\ At("woken")' = At("woken")
  BY DEF TypeOK, Enter, Goto, At, Waiting, InFlight

LEMMA MoveEnterFree ==
  ASSUME TypeOK, NEW r \in Request, Enter(r), ~Full
  PROVE  /\ InFlight' = InFlight \cup {r} /\ r \notin InFlight
         /\ Waiting' = Waiting
         /\ At("woken")' = At("woken") /\ At("parked")' = At("parked")
  BY DEF TypeOK, Enter, Goto, At, Waiting, InFlight

LEMMA MoveResumeFull ==
  ASSUME TypeOK, NEW r \in Request, Resume(r), Full
  PROVE  Waiting' = Waiting /\ InFlight' = InFlight
  BY DEF TypeOK, Resume, Goto, At, Waiting, InFlight

LEMMA MoveResumeFree ==
  ASSUME TypeOK, NEW r \in Request, Resume(r), ~Full
  PROVE  /\ InFlight' = InFlight \cup {r} /\ r \notin InFlight
         /\ Waiting' = Waiting \ {r} /\ r \in Waiting
         /\ At("woken")' = At("woken") \ {r} /\ r \in At("woken")
         /\ At("parked")' = At("parked")
  BY DEF TypeOK, Resume, Goto, At, Waiting, InFlight

LEMMA MoveRelease ==
  ASSUME TypeOK, NEW r \in Request, Release(r)
  PROVE  /\ InFlight' = InFlight \ {r} /\ r \in InFlight
         /\ Waiting' = Waiting
         /\ \/ At("parked") = {} /\ At("parked")' = {}
            \/ \E w \in Request : /\ At("woken")' = At("woken") \cup {w}
                                  /\ w \notin At("woken")
                                  /\ At("parked") # {}
<1>1. PICK w \in IF At("parked") # {} THEN At("parked") ELSE {None} :
        pc' = [q \in Request |-> IF q = r THEN "done" ELSE IF q = w THEN "woken" ELSE pc[q]]
  BY DEF Release
<1>2. pc[r] = "roundtrip" /\ None \notin Request
  BY RequestAssumption DEF Release
<1>3. CASE At("parked") = {}
  <2>1. w = None
    BY <1>1, <1>3
  <2> QED
    BY <1>1, <1>2, <1>3, <2>1 DEF TypeOK, At, Waiting, InFlight
<1>4. CASE At("parked") # {}
  <2>1. w \in Request /\ pc[w] = "parked"
    BY <1>1, <1>4 DEF At
  <2>2. At("woken")' = At("woken") \cup {w} /\ w \notin At("woken")
    BY <1>1, <1>2, <2>1 DEF At
  <2> QED
    BY <1>1, <1>2, <1>4, <2>1, <2>2 DEF TypeOK, At, Waiting, InFlight
<1> QED
  BY <1>3, <1>4

LEMMA MoveSetMax ==
  ASSUME TypeOK, NEW max \in Limits, SetMaxConcurrent(max)
  PROVE  At("parked")' = {} /\ Waiting' = Waiting /\ InFlight' = InFlight
  BY DEF TypeOK, SetMaxConcurrent, At, Waiting, InFlight

LEMMA MoveHang ==
  ASSUME TypeOK, NEW r \in Request, Hang(r)
  PROVE  /\ Waiting' = Waiting /\ InFlight' = InFlight
         /\ At("woken")' = At("woken") /\ At("parked")' = At("parked")
  BY DEF TypeOK, Hang, Goto, At, Waiting, InFlight
-----------------------------------------------------------------------------
(* The inductive step, one lemma per action; the counts come from the      *)
(* moves.                                                                  *)

LEMMA InitInv == Init => Inv
<1> SUFFICES ASSUME Init PROVE Inv
  OBVIOUS
<1>1. TypeOK
  BY DEF Init, TypeOK, RequestPC
<1>2. At("parked") = {} /\ Waiting = {} /\ InFlight = {}
  BY DEF Init, At, Waiting, InFlight
<1> QED
  BY <1>1, <1>2, FS_EmptySet DEF Init, Inv, CountersAreExact, NoLostWakeup

LEMMA EnterStep ==
  ASSUME Inv, NEW r \in Request, Enter(r)
  PROVE  Inv'
<1> USE DEF Inv, CountersAreExact
<1>1. CASE Full
  <2>1. throttleQueue' = throttleQueue + 1 /\ UNCHANGED <<throttleMax, throttleInFlight>>
    BY <1>1 DEF Enter
  <2>2. CountersAreExact'
    BY <1>1, <2>1, MoveEnterFull, CountIn, Sets
  <2>3. NoLostWakeup'
    BY <1>1, <2>1, MoveEnterFull, Sets, LimitsAssumption DEF NoLostWakeup, Full, TypeOK
  <2>4. TypeOK'
    BY <1>1, <2>1 DEF TypeOK, Enter, Goto, RequestPC
  <2> QED
    BY <2>2, <2>3, <2>4
<1>2. CASE ~Full
  <2>1. throttleInFlight' = throttleInFlight + 1 /\ UNCHANGED <<throttleMax, throttleQueue>>
    BY <1>2 DEF Enter
  <2>2. CountersAreExact'
    BY <1>2, <2>1, MoveEnterFree, CountIn, Sets
  <2>3. NoLostWakeup'
    BY <1>2, <2>1, MoveEnterFree, Sets, LimitsAssumption DEF NoLostWakeup, TypeOK
  <2>4. TypeOK'
    BY <1>2, <2>1 DEF TypeOK, Enter, Goto, RequestPC
  <2> QED
    BY <2>2, <2>3, <2>4
<1> QED
  BY <1>1, <1>2

LEMMA ResumeStep ==
  ASSUME Inv, NEW r \in Request, Resume(r)
  PROVE  Inv'
<1> USE DEF Inv, CountersAreExact
<1>1. CASE Full
  <2>1. UNCHANGED <<throttleMax, throttleInFlight, throttleQueue>>
    BY <1>1 DEF Resume
  <2>2. CountersAreExact'
    BY <1>1, <2>1, MoveResumeFull
  <2>3. At("woken")' \in SUBSET Request
    BY DEF At
  <2>4. NoLostWakeup'
    BY <1>1, <2>1, <2>3, RequestsFinite, LimitsAssumption DEF NoLostWakeup, Full, TypeOK
  <2>5. TypeOK'
    BY <1>1, <2>1 DEF TypeOK, Resume, Goto, RequestPC
  <2> QED
    BY <2>2, <2>4, <2>5
<1>2. CASE ~Full
  <2>1. /\ throttleInFlight' = throttleInFlight + 1
        /\ throttleQueue' = throttleQueue - 1
        /\ throttleMax' = throttleMax
    BY <1>2 DEF Resume
  <2>2. CountersAreExact' /\ throttleQueue' \in Nat
    BY <1>2, <2>1, MoveResumeFree, CountIn, CountOut, Sets
  <2>3. NoLostWakeup'
    BY <1>2, <2>1, MoveResumeFree, CountOut, Sets, LimitsAssumption
       DEF NoLostWakeup, TypeOK
  <2>4. TypeOK'
    BY <1>2, <2>1, <2>2 DEF TypeOK, Resume, Goto, RequestPC
  <2> QED
    BY <2>2, <2>3, <2>4
<1> QED
  BY <1>1, <1>2

LEMMA ReleaseStep ==
  ASSUME Inv, NEW r \in Request, Release(r)
  PROVE  Inv'
<1> USE DEF Inv, CountersAreExact
<1>1. throttleInFlight' = throttleInFlight - 1 /\ UNCHANGED <<throttleMax, throttleQueue>>
  BY DEF Release
<1>2. CountersAreExact' /\ throttleInFlight' \in Nat
  BY <1>1, MoveRelease, CountOut, Sets
<1>3. NoLostWakeup'
  <2>1. CASE At("parked")' = {}
    BY <2>1 DEF NoLostWakeup
  <2>2. ASSUME NEW w \in Request, At("parked") # {}, w \notin At("woken"),
               At("woken")' = At("woken") \cup {w}
        PROVE  NoLostWakeup'
    <3>1. Cardinality(At("woken")') = Cardinality(At("woken")) + 1
      BY <2>2, CountIn, Sets
    <3> QED
      BY <1>1, <2>2, <3>1, Sets, LimitsAssumption DEF NoLostWakeup, TypeOK
  <2> QED
    BY <2>1, <2>2, MoveRelease
<1>4. TypeOK'
  BY <1>1, <1>2 DEF TypeOK, Release, RequestPC
<1> QED
  BY <1>2, <1>3, <1>4

LEMMA HangStep ==
  ASSUME Inv, NEW r \in Request, Hang(r)
  PROVE  Inv'
<1>1. UNCHANGED <<throttleMax, throttleInFlight, throttleQueue>>
  BY DEF Hang
<1>2. CountersAreExact' /\ NoLostWakeup'
  BY <1>1, MoveHang DEF Inv, CountersAreExact, NoLostWakeup
<1>3. TypeOK'
  BY <1>1 DEF Inv, TypeOK, Hang, Goto, RequestPC
<1> QED
  BY <1>2, <1>3 DEF Inv

LEMMA SetMaxStep ==
  ASSUME Inv, NEW max \in Limits, SetMaxConcurrent(max)
  PROVE  Inv'
<1>1. throttleMax' = max /\ UNCHANGED <<throttleInFlight, throttleQueue>>
  BY DEF SetMaxConcurrent
<1>2. CountersAreExact' /\ NoLostWakeup'
  BY <1>1, MoveSetMax DEF Inv, CountersAreExact, NoLostWakeup
<1>3. TypeOK'
  BY <1>1 DEF Inv, TypeOK, SetMaxConcurrent, RequestPC
<1> QED
  BY <1>2, <1>3 DEF Inv

LEMMA StutterStep ==
  ASSUME Inv, UNCHANGED vars
  PROVE  Inv'
  BY DEF Inv, vars, TypeOK, CountersAreExact, NoLostWakeup, Waiting, InFlight, At

-----------------------------------------------------------------------------
(* The theorems.                                                           *)

\* Inv is an invariant of the throttle.
THEOREM Invariance == Spec => []Inv
<1>1. Inv /\ [Next]_vars => Inv'
  BY EnterStep, ResumeStep, ReleaseStep, HangStep, SetMaxStep, StutterStep DEF Next
<1> QED
  BY InitInv, <1>1, PTL DEF Spec

\* Every variable keeps its type; the counters are never negative.
THEOREM TypeCorrect == Spec => []TypeOK
<1>1. Inv => TypeOK
  BY DEF Inv
<1> QED
  BY Invariance, <1>1, PTL

\* throttleInFlight and throttleQueue count the admitted and the waiting
\* requests, whatever order the goroutines take the mutex in.
THEOREM ExactCounters == Spec => []CountersAreExact
<1>1. Inv => CountersAreExact
  BY DEF Inv
<1> QED
  BY Invariance, <1>1, PTL

\* Signal on release and Broadcast on a new limit are enough: a slot is never
\* free while a request sleeps and nobody is on the way to that slot.
THEOREM WakeupsNotLost == Spec => []NoLostWakeup
<1>1. Inv => NoLostWakeup
  BY DEF Inv
<1> QED
  BY Invariance, <1>1, PTL

\* No request is admitted beyond the limit in force.
THEOREM AdmissionBounded == Spec => NeverOverAdmits
<1>1. Inv /\ [Next]_vars
        => [throttleInFlight' > throttleInFlight
              => throttleMax <= 0 \/ throttleInFlight' <= throttleMax]_vars
  <2> SUFFICES ASSUME Inv, Next, throttleInFlight' > throttleInFlight
               PROVE  throttleMax <= 0 \/ throttleInFlight' <= throttleMax
    BY DEF vars
  <2>1. throttleMax \in Int /\ throttleInFlight \in Nat
    BY LimitsAssumption DEF Inv, TypeOK
  <2>2. ASSUME NEW r \in Request, Enter(r) \/ Resume(r)
        PROVE  ~Full /\ throttleInFlight' = throttleInFlight + 1
    BY <2>1, <2>2 DEF Enter, Resume
  <2>3. ASSUME NEW r \in Request, Hang(r) \/ Release(r)
        PROVE  FALSE
    BY <2>1, <2>3 DEF Hang, Release
  <2>4. ASSUME NEW max \in Limits, SetMaxConcurrent(max)
        PROVE  FALSE
    BY <2>1, <2>4 DEF SetMaxConcurrent
  <2>5. ~Full /\ throttleInFlight' = throttleInFlight + 1
    BY <2>2, <2>3, <2>4 DEF Next
  <2> QED
    BY <2>1, <2>5 DEF Full
<1> QED
  BY Invariance, <1>1, PTL DEF Spec, NeverOverAdmits

-----------------------------------------------------------------------------
(* The throttle implements RequestLimiter.                                 *)

\* The loop's condition, which reads a counter, is about the requests in flight.
LEMMA RoomIsNotFull ==
  ASSUME Inv
  PROVE  Limiter!Room <=> ~Full
<1>1. throttleMax \in Int /\ throttleInFlight \in Nat /\ throttleInFlight = Cardinality(InFlight)
  BY LimitsAssumption DEF Inv, TypeOK, CountersAreExact
<1>2. Limiter!Cardinality(InFlight) = Cardinality(InFlight)
  BY DEF Cardinality, Limiter!Cardinality
<1> QED
  BY <1>1, <1>2 DEF Limiter!Room, Full

\* A newcomer is admitted or has to wait.
LEMMA EnterLimits ==
  ASSUME Inv, NEW r \in Request, Enter(r)
  PROVE  Limiter!Wait(r) \/ Limiter!Admit(r)
<1>0. /\ r \notin Waiting \cup InFlight \cup At("done")
      /\ At("done")' = At("done") /\ throttleMax' = throttleMax
  BY DEF Inv, TypeOK, Enter, Goto, At, Waiting, InFlight
<1>1. CASE Full
  BY <1>0, <1>1, MoveEnterFull, RoomIsNotFull DEF Inv, Limiter!Wait
<1>2. CASE ~Full
  <2>1. Waiting' = Waiting \ {r} /\ InFlight' = InFlight \cup {r}
    BY <1>0, <1>2, MoveEnterFree DEF Inv
  <2> QED
    BY <1>0, <1>2, <2>1, RoomIsNotFull DEF Limiter!Admit
<1> QED
  BY <1>1, <1>2

\* A waiter that has the mutex back is admitted or waits on.
LEMMA ResumeLimits ==
  ASSUME Inv, NEW r \in Request, Resume(r)
  PROVE  Limiter!Admit(r) \/ UNCHANGED Limiter!vars
<1>0. /\ r \notin InFlight \cup At("done")
      /\ At("done")' = At("done") /\ throttleMax' = throttleMax
  BY DEF Inv, TypeOK, Resume, Goto, At, InFlight
<1>1. CASE Full
  BY <1>0, <1>1, MoveResumeFull DEF Inv, Limiter!vars
<1>2. CASE ~Full
  BY <1>0, <1>2, MoveResumeFree, RoomIsNotFull DEF Inv, Limiter!Admit
<1> QED
  BY <1>1, <1>2

\* The deferred function takes the request out, whomever it wakes.
LEMMA ReleaseLimits ==
  ASSUME Inv, NEW r \in Request, Release(r)
  PROVE  Limiter!Leave(r)
<1>1. /\ InFlight' = InFlight \ {r} /\ r \in InFlight /\ Waiting' = Waiting
      /\ throttleMax' = throttleMax
  BY MoveRelease DEF Inv, Release
<1>2. At("done")' = At("done") \cup {r}
  <2>1. PICK w \in IF At("parked") # {} THEN At("parked") ELSE {None} :
          pc' = [q \in Request |-> IF q = r THEN "done" ELSE IF q = w THEN "woken" ELSE pc[q]]
    BY DEF Release
  <2>2. \A q \in Request : q = w => pc[q] = "parked"
    BY <2>1, RequestAssumption DEF At
  <2>3. \A q \in Request : pc'[q] = "done" <=> q = r \/ pc[q] = "done"
    BY <2>1, <2>2
  <2> QED
    BY <2>3 DEF At
<1> QED
  BY <1>1, <1>2 DEF Limiter!Leave

\* A new limit wakes waiters and admits nobody by itself.
LEMMA SetMaxLimits ==
  ASSUME Inv, NEW max \in Limits, SetMaxConcurrent(max)
  PROVE  Limiter!SetLimit(max)
<1>1. At("done")' = At("done")
  BY DEF Inv, TypeOK, SetMaxConcurrent, At
<1>2. throttleMax' = max
  BY DEF SetMaxConcurrent
<1> QED
  BY <1>1, <1>2, MoveSetMax DEF Inv, Limiter!SetLimit

\* The throttle implements its promise, for any number of requests and any limits:
\* admission depends on a counter that four critical sections maintain, and yet a
\* request is admitted exactly when fewer than the limit are in flight.
THEOREM Refinement == Spec => LimiterSpec
<1>1. Init => Limiter!Init
  BY DEF Init, Limiter!Init, Waiting, InFlight, At
<1>2. Inv /\ [Next]_vars => [Limiter!Next]_(Limiter!vars)
  <2> SUFFICES ASSUME Inv, [Next]_vars PROVE [Limiter!Next]_(Limiter!vars)
    OBVIOUS
  <2>1. ASSUME NEW r \in Request, Enter(r) \/ Resume(r) \/ Release(r)
        PROVE  [Limiter!Next]_(Limiter!vars)
    BY <2>1, EnterLimits, ResumeLimits, ReleaseLimits DEF Limiter!Next
  <2>2. ASSUME NEW r \in Request, Hang(r)
        PROVE  UNCHANGED Limiter!vars
    <3>1. At("done")' = At("done") /\ throttleMax' = throttleMax
      BY <2>2 DEF Inv, TypeOK, Hang, Goto, At
    <3> QED
      BY <2>2, <3>1, MoveHang DEF Inv, Limiter!vars
  <2>3. ASSUME NEW max \in Limits, SetMaxConcurrent(max)
        PROVE  [Limiter!Next]_(Limiter!vars)
    BY <2>3, SetMaxLimits DEF Limiter!Next
  <2>4. CASE UNCHANGED vars
    BY <2>4 DEF vars, Limiter!vars, Waiting, InFlight, At
  <2> QED
    BY <2>1, <2>2, <2>3, <2>4 DEF Next
<1> QED
  BY <1>1, <1>2, Invariance, PTL DEF Spec, LimiterSpec, Limiter!Spec
=============================================================================
