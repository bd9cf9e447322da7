------------------------- MODULE UpstreamPoolProofs -------------------------
(* Proofs about the upstream pool, for any number of entries, requests and *)
(* pings and any weights: types, the fallback only when every entry was    *)
(* found down, and the single delivery of an offer that has become stale.  *)
EXTENDS UpstreamPool, TLAPS

-----------------------------------------------------------------------------
(* The inductive invariant, part by part.                                  *)

\* How many entries before next the entry e is, in the order of the pool.
Behind(e) == IF e < next THEN next - e ELSE next - e + N

\* The last loopCount entries have been found down; an offer starts the count
\* anew.
SkippedWereDown ==
  /\ serverPC = "look" => \A e \in Entry : Behind(e) <= loopCount => e \in seenDown
  /\ serverPC = "offer" => loopCount = 0

\* An entry with a late delivery is down, and not offered as if it were up.
LateIsDown ==
  \A e \in Entry :
    stale[e] > 0 => weight[e] <= 0 /\ ~(serverPC = "offer" /\ next = e /\ ~fallback)

Inv == TypeOK /\ SkippedWereDown /\ FallbackOnlyWhenAllDown /\ LateIsDown /\ OneStaleDelivery

-----------------------------------------------------------------------------
(* Facts about entries and weights.                                        *)

LEMMA EntryIsNat == Entry \subseteq Nat /\ 0 \in Entry /\ N \in Nat \ {0}
  BY PoolAssumption DEF Entry

LEMMA WeightIsInt ==
  ASSUME TypeOK, NEW e \in Entry
  PROVE  weight[e] \in Int
<1>1. weight[e] \in Weights \cup {0, 1}
  BY DEF TypeOK
<1>2. \A w \in Weights \cup {0, 1} : w \in Int
  BY PoolAssumption
<1> QED
  BY <1>1, <1>2

\* rr_count % len(up.pool) walks round the pool.
LEMMA AdvanceIsNext ==
  ASSUME NEW i \in Entry
  PROVE  Advance(i) = IF i = N-1 THEN 0 ELSE i + 1
  BY PoolAssumption DEF Entry, Advance

LEMMA AdvanceInEntry ==
  ASSUME NEW i \in Entry
  PROVE  Advance(i) \in Entry
  BY AdvanceIsNext, EntryIsNat DEF Entry

\* A weight that a failed request or a ping stores.
LEMMA UpdateKeepsTypes ==
  ASSUME TypeOK, NEW e \in Entry, NEW w \in {0, 1}, UpdateUpstream(e, w)
  PROVE  weight' \in [Entry -> Weights \cup {0, 1}] /\ stale' \in [Entry -> Nat]
  BY DEF TypeOK, UpdateUpstream

LEMMA DeliverKeepsTypes ==
  ASSUME TypeOK, Deliver
  PROVE  /\ next' \in Entry /\ loopCount' \in 0 .. 2*N+1 /\ serverPC' = "look"
         /\ fallback' \in BOOLEAN /\ seenDown' = {} /\ stale' \in [Entry -> Nat]
  BY AdvanceInEntry DEF TypeOK, Deliver

-----------------------------------------------------------------------------
(* Types.                                                                  *)

LEMMA TypeInit == Init => TypeOK
<1> SUFFICES ASSUME Init PROVE TypeOK
  OBVIOUS
<1>1. weight \in [Entry -> Weights \cup {0, 1}]
  BY DEF Init
<1>2. request \in [Request -> RequestState]
  BY DEF Init, RequestState, At
<1>3. loopCount \in 0 .. 2*N+1
  BY EntryIsNat DEF Init
<1>4. next \in Entry /\ flips \in 0..MaxFlips
  BY EntryIsNat, PoolAssumption DEF Init
<1>5. pings \in [Ping -> PingState] /\ stale \in [Entry -> Nat]
  BY DEF Init, PingState
<1> QED
  BY <1>1, <1>2, <1>3, <1>4, <1>5 DEF Init, TypeOK

\* The states a request moves between.
LEMMA RequestStates ==
  /\ \A p \in {"new", "next", "done"} : At(p) \in RequestState
  /\ \A p \in {"sent", "failed"}, e \in Entry : [pc |-> p, entry |-> e] \in RequestState
  BY DEF RequestState

\* A request that has been sent, or has failed, knows its entry.
LEMMA SentHasEntry ==
  ASSUME TypeOK, NEW r \in Request, request[r].pc \in {"sent", "failed"}
  PROVE  /\ request[r].entry \in Entry
         /\ [request[r] EXCEPT !.pc = "failed"] = [pc |-> "failed", entry |-> request[r].entry]
<1>1. request[r] \in RequestState
  BY DEF TypeOK
<1>2. request[r] \in [pc : {"sent", "failed"}, entry : Entry]
  BY <1>1 DEF RequestState, At
<1> QED
  BY <1>2

LEMMA TypeStep == TypeOK /\ [Next]_vars => TypeOK'
<1> SUFFICES ASSUME TypeOK, [Next]_vars PROVE TypeOK'
  OBVIOUS
<1> USE DEF nextVars, pingVars, envVars
<1>1. CASE Look
  <2>1. next' \in Entry
    BY <1>1, AdvanceInEntry DEF Look, TypeOK
  <2>2. loopCount' \in 0 .. 2*N+1
    BY <1>1, EntryIsNat DEF Look, TypeOK
  <2>3. fallback' \in BOOLEAN /\ seenDown' \subseteq Entry
    BY <1>1 DEF Look, TypeOK
  <2> QED
    BY <1>1, <2>1, <2>2, <2>3 DEF Look, TypeOK
<1>2. CASE ServerStops \/ Shutdown \/ PingerStops
  BY <1>2 DEF ServerStops, Shutdown, PingerStops, TypeOK
<1>3. CASE ShutdownNext
  BY <1>3, DeliverKeepsTypes DEF ShutdownNext, TypeOK
<1>4. CASE Tick
  BY <1>4 DEF Tick, TypeOK, PingState
<1>5. ASSUME NEW r \in Request, Arrive(r) PROVE TypeOK'
  BY <1>5, RequestStates DEF Arrive, TypeOK
<1>6. ASSUME NEW r \in Request, TakeNext(r) PROVE TypeOK'
  <2>1. request' \in [Request -> RequestState]
    BY <1>6, RequestStates DEF TakeNext, TypeOK
  <2> QED
    BY <1>6, <2>1, DeliverKeepsTypes DEF TakeNext, TypeOK
<1>7. ASSUME NEW r \in Request, RoundTrip(r) PROVE TypeOK'
  <2>1. request[r].entry \in Entry
        /\ [request[r] EXCEPT !.pc = "failed"] = [pc |-> "failed", entry |-> request[r].entry]
    BY <1>7, SentHasEntry DEF RoundTrip
  <2>2. At("done") \in RequestState /\ [request[r] EXCEPT !.pc = "failed"] \in RequestState
    BY <2>1, RequestStates
  <2>3. PICK result \in RequestState : request' = [request EXCEPT ![r] = result]
    BY <1>7, <2>2 DEF RoundTrip
  <2>4. request' \in [Request -> RequestState]
    BY <2>3 DEF TypeOK
  <2> QED
    BY <1>7, <2>4 DEF RoundTrip, TypeOK
<1>8. ASSUME NEW r \in Request, MarkDown(r) PROVE TypeOK'
  <2>1. request' \in [Request -> RequestState]
    BY <1>8, RequestStates DEF MarkDown, TypeOK
  <2>2. weight' \in [Entry -> Weights \cup {0, 1}] /\ stale' \in [Entry -> Nat]
    BY <1>8, SentHasEntry, UpdateKeepsTypes DEF MarkDown
  <2> QED
    BY <1>8, <2>1, <2>2 DEF MarkDown, TypeOK
<1>9. ASSUME NEW p \in Ping, PingReply(p) \/ PingCheck(p) PROVE TypeOK'
  BY <1>9 DEF PingReply, PingCheck, TypeOK, PingState
<1>10. ASSUME NEW p \in Ping, PingUpdate(p) PROVE TypeOK'
  <2>1. p.entry \in Entry
    BY PoolAssumption DEF Ping
  <2>2. weight' \in [Entry -> Weights \cup {0, 1}] /\ stale' \in [Entry -> Nat]
    BY <1>10, <2>1, UpdateKeepsTypes DEF PingUpdate
  <2> QED
    BY <1>10, <2>2 DEF PingUpdate, TypeOK, PingState
<1>11. ASSUME NEW e \in Entry, Flip(e) PROVE TypeOK'
  BY <1>11, PoolAssumption DEF Flip, TypeOK
<1>12. CASE UNCHANGED vars
  BY <1>12 DEF vars, TypeOK
<1> QED
  BY <1>1, <1>2, <1>3, <1>4, <1>5, <1>6, <1>7, <1>8, <1>9, <1>10, <1>11, <1>12 DEF Next

\* Every variable keeps its type, for any pool.
THEOREM TypeCorrect == Spec => []TypeOK
  BY TypeInit, TypeStep, PTL DEF Spec

-----------------------------------------------------------------------------
(* The fallback.                                                           *)

\* Skipping an entry puts it right behind next, and the others one further.
LEMMA BehindAdvance ==
  ASSUME NEW i \in Entry, NEW e \in Entry, NEW n, next = i, n = Advance(i)
  PROVE  (IF e < n THEN n - e ELSE n - e + N) = IF e = i THEN 1 ELSE Behind(e) + 1
  BY AdvanceIsNext, EntryIsNat DEF Entry, Behind

LEMMA BehindBounds ==
  ASSUME TypeOK, NEW e \in Entry
  PROVE  Behind(e) \in 1..N
  BY EntryIsNat DEF TypeOK, Entry, Behind

LEMMA LookSkips ==
  ASSUME TypeOK, SkippedWereDown, Look, ~Offerable(next), NEW e \in Entry,
         Behind(e)' <= loopCount'
  PROVE  e \in seenDown'
<1>1. next' = Advance(next) /\ seenDown' = seenDown \cup {next}
  BY DEF Look
<1>2. Behind(e)' = IF e = next THEN 1 ELSE Behind(e) + 1
  BY <1>1, BehindAdvance DEF TypeOK, Behind
<1>3. loopCount' = loopCount + 1 \/ (loopCount' = loopCount /\ loopCount > 2*N)
  BY DEF Look
<1>4. e # next => Behind(e) <= loopCount
  BY <1>2, <1>3, BehindBounds, EntryIsNat DEF TypeOK
<1> QED
  BY <1>1, <1>4 DEF SkippedWereDown, Look

\* Steps of others leave the walk of nextServer alone.
LEMMA NextServerAlone ==
  ASSUME [Next]_vars
  PROVE  Look \/ ServerStops \/ Deliver \/ UNCHANGED nextVars
<1> USE DEF nextVars
<1>1. CASE Shutdown \/ ShutdownNext \/ Tick \/ PingerStops
  BY <1>1 DEF Shutdown, ShutdownNext, Tick, PingerStops
<1>2. ASSUME NEW r \in Request, Arrive(r) \/ TakeNext(r) \/ RoundTrip(r) \/ MarkDown(r)
      PROVE  Deliver \/ UNCHANGED nextVars
  BY <1>2 DEF Arrive, TakeNext, RoundTrip, MarkDown
<1>3. ASSUME NEW p \in Ping, PingReply(p) \/ PingCheck(p) \/ PingUpdate(p)
      PROVE  UNCHANGED nextVars
  BY <1>3 DEF PingReply, PingCheck, PingUpdate
<1>4. ASSUME NEW e \in Entry, Flip(e) PROVE UNCHANGED nextVars
  BY <1>4 DEF Flip
<1> QED
  BY <1>1, <1>2, <1>3, <1>4 DEF Next, vars

LEMMA SkippedStep ==
  TypeOK /\ SkippedWereDown /\ [Next]_vars => SkippedWereDown'
<1> SUFFICES ASSUME TypeOK, SkippedWereDown, [Next]_vars PROVE SkippedWereDown'
  OBVIOUS
<1>1. CASE Look
  <2>1. CASE Offerable(next)
    BY <1>1, <2>1 DEF Look, SkippedWereDown
  <2>2. CASE ~Offerable(next)
    BY <1>1, <2>2, LookSkips DEF Look, SkippedWereDown
  <2> QED
    BY <2>1, <2>2
<1>2. CASE Deliver
  <2>1. loopCount' = 0 /\ serverPC' = "look"
    BY <1>2 DEF Deliver, SkippedWereDown
  <2>2. next' \in Entry
    BY <1>2, AdvanceInEntry DEF Deliver, TypeOK
  <2>3. \A e, n \in Entry : ~((IF e < n THEN n - e ELSE n - e + N) <= 0)
    BY EntryIsNat DEF Entry
  <2>4. \A e \in Entry : ~(Behind(e)' <= 0)
    BY <2>2, <2>3 DEF Behind
  <2> QED
    BY <2>1, <2>4 DEF SkippedWereDown
<1>3. CASE ServerStops
  BY <1>3 DEF ServerStops, SkippedWereDown
<1>4. CASE UNCHANGED nextVars
  BY <1>4 DEF nextVars, SkippedWereDown, Behind
<1> QED
  BY <1>1, <1>2, <1>3, <1>4, NextServerAlone

LEMMA FallbackStep ==
  TypeOK /\ SkippedWereDown /\ FallbackOnlyWhenAllDown /\ [Next]_vars
    => FallbackOnlyWhenAllDown'
<1> SUFFICES ASSUME TypeOK, SkippedWereDown, FallbackOnlyWhenAllDown, [Next]_vars
             PROVE  FallbackOnlyWhenAllDown'
  OBVIOUS
<1>1. CASE Look
  <2> SUFFICES ASSUME Offerable(next), weight[next] = 0 PROVE seenDown' = Entry
    BY <1>1 DEF Look, FallbackOnlyWhenAllDown
  <2>1. loopCount > 2*N
    BY DEF Offerable
  <2>2. \A e \in Entry : e \in seenDown
    BY <1>1, <2>1, BehindBounds, EntryIsNat DEF SkippedWereDown, Look, TypeOK
  <2> QED
    BY <1>1, <2>2 DEF Look, TypeOK
<1>2. CASE Deliver \/ ServerStops
  BY <1>2 DEF Deliver, ServerStops, FallbackOnlyWhenAllDown
<1>3. CASE UNCHANGED nextVars
  BY <1>3 DEF nextVars, FallbackOnlyWhenAllDown
<1> QED
  BY <1>1, <1>2, <1>3, NextServerAlone

-----------------------------------------------------------------------------
(* The stale offer.                                                        *)

LEMMA LateAfterUpdate ==
  ASSUME TypeOK, LateIsDown, NEW e \in Entry, NEW w \in {0, 1}, UpdateUpstream(e, w),
         UNCHANGED nextVars
  PROVE  LateIsDown' /\ (OneStaleDelivery => OneStaleDelivery')
  BY DEF TypeOK, LateIsDown, OneStaleDelivery, UpdateUpstream, nextVars

LEMMA LateAfterDeliver ==
  ASSUME TypeOK, LateIsDown, OneStaleDelivery, Deliver, UNCHANGED weight
  PROVE  LateIsDown' /\ OneStaleDelivery'
<1>1. CASE ~fallback /\ weight[next] <= 0
  <2>1. stale[next] \in Nat /\ next \in Entry /\ serverPC = "offer"
    BY DEF Deliver, TypeOK
  <2>2. stale[next] = 0
    BY <1>1, <2>1 DEF LateIsDown
  <2>3. stale' = [stale EXCEPT ![next] = stale[next] + 1]
    BY <1>1 DEF Deliver
  <2>4. \A e \in Entry : stale'[e] = IF e = next THEN 1 ELSE stale[e]
    BY <2>2, <2>3 DEF TypeOK
  <2>5. serverPC' = "look" /\ weight' = weight
    BY DEF Deliver
  <2> QED
    BY <1>1, <2>4, <2>5 DEF LateIsDown, OneStaleDelivery
<1>2. CASE ~(~fallback /\ weight[next] <= 0)
  BY <1>2 DEF Deliver, LateIsDown, OneStaleDelivery
<1> QED
  BY <1>1, <1>2

LEMMA LateStep ==
  TypeOK /\ LateIsDown /\ OneStaleDelivery /\ [Next]_vars
    => LateIsDown' /\ OneStaleDelivery'
<1> SUFFICES ASSUME TypeOK, LateIsDown, OneStaleDelivery, [Next]_vars
             PROVE  LateIsDown' /\ OneStaleDelivery'
  OBVIOUS
<1> USE DEF nextVars
<1>1. CASE Look
  <2>1. \A e \in Entry : weight[e] \in Int /\ stale[e] \in Nat
    BY WeightIsInt DEF TypeOK
  <2>2. next \in Entry
    BY DEF TypeOK
  <2>3. serverPC' = "offer" /\ ~fallback' => weight[next] > 0 /\ next' = next
    BY <1>1, <2>1, <2>2 DEF Look, Offerable
  <2> QED
    BY <1>1, <2>1, <2>2, <2>3 DEF Look, LateIsDown, OneStaleDelivery
<1>2. CASE ServerStops
  BY <1>2 DEF ServerStops, LateIsDown, OneStaleDelivery
<1>3. CASE Shutdown \/ Tick \/ PingerStops
  BY <1>3 DEF Shutdown, Tick, PingerStops, LateIsDown, OneStaleDelivery
<1>4. CASE ShutdownNext
  BY <1>4, LateAfterDeliver DEF ShutdownNext
<1>5. ASSUME NEW r \in Request, Arrive(r) \/ RoundTrip(r)
      PROVE  LateIsDown' /\ OneStaleDelivery'
  BY <1>5 DEF Arrive, RoundTrip, LateIsDown, OneStaleDelivery
<1>6. ASSUME NEW r \in Request, TakeNext(r) PROVE LateIsDown' /\ OneStaleDelivery'
  BY <1>6, LateAfterDeliver DEF TakeNext
<1>7. ASSUME NEW r \in Request, MarkDown(r) PROVE LateIsDown' /\ OneStaleDelivery'
  BY <1>7, SentHasEntry, LateAfterUpdate DEF MarkDown
<1>8. ASSUME NEW p \in Ping, PingReply(p) \/ PingCheck(p)
      PROVE  LateIsDown' /\ OneStaleDelivery'
  BY <1>8 DEF PingReply, PingCheck, LateIsDown, OneStaleDelivery
<1>9. ASSUME NEW p \in Ping, PingUpdate(p) PROVE LateIsDown' /\ OneStaleDelivery'
  BY <1>9, LateAfterUpdate, PoolAssumption DEF PingUpdate, Ping
<1>10. ASSUME NEW e \in Entry, Flip(e) PROVE LateIsDown' /\ OneStaleDelivery'
  BY <1>10 DEF Flip, LateIsDown, OneStaleDelivery
<1>11. CASE UNCHANGED vars
  BY <1>11 DEF vars, LateIsDown, OneStaleDelivery
<1> QED
  BY <1>1, <1>2, <1>3, <1>4, <1>5, <1>6, <1>7, <1>8, <1>9, <1>10, <1>11 DEF Next

-----------------------------------------------------------------------------
(* The theorems.                                                           *)

LEMMA InitInv == Init => Inv
<1> SUFFICES ASSUME Init PROVE Inv
  OBVIOUS
<1>1. SkippedWereDown
  BY EntryIsNat DEF Init, SkippedWereDown, Behind, Entry
<1>2. LateIsDown /\ OneStaleDelivery /\ FallbackOnlyWhenAllDown
  BY DEF Init, LateIsDown, OneStaleDelivery, FallbackOnlyWhenAllDown
<1> QED
  BY <1>1, <1>2, TypeInit DEF Inv

LEMMA Invariance == Spec => []Inv
<1>1. Inv /\ [Next]_vars => Inv'
  BY TypeStep, SkippedStep, FallbackStep, LateStep DEF Inv
<1> QED
  BY InitInv, <1>1, PTL DEF Spec

\* nextServer hands out an entry that is down only after it has found every entry
\* of the pool down since its last offer.
THEOREM FallbackWhenAllDown == Spec => []FallbackOnlyWhenAllDown
<1>1. Inv => FallbackOnlyWhenAllDown
  BY DEF Inv
<1> QED
  BY Invariance, <1>1, PTL

\* At most one request gets an entry that went down while it was on offer, until
\* the entry is up again.
THEOREM StaleOnce == Spec => []OneStaleDelivery
<1>1. Inv => OneStaleDelivery
  BY DEF Inv
<1> QED
  BY Invariance, <1>1, PTL
=============================================================================
