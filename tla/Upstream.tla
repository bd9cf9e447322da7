------------------------------ MODULE Upstream ------------------------------
(***************************************************************************)
(* The throttle of filter.Upstream: at most throttleMax requests at a time *)
(* are sent to an upstream server, the others wait on a condition variable.*)
(*                                                                         *)
(* Every request is handled by a goroutine of its own, in FilterRequest.   *)
(* The critical sections of throttleC.L are atomic; between them any       *)
(* goroutine may run, so a waiter that has been woken competes for the     *)
(* mutex with requests that just arrive.  Of the round trip only its       *)
(* duration remains: it ends, by a response, an error or a panic, or never *)
(* does (the transport's timeout is optional).                             *)
(***************************************************************************)
EXTENDS Integers, FiniteSets

CONSTANTS
  Request,   \* the requests that reach the filter
  Limits,    \* the values SetMaxConcurrent may be called with
  None       \* no request

ASSUME RequestAssumption == IsFiniteSet(Request) /\ None \notin Request

ASSUME LimitsAssumption == Limits \subseteq Int

VARIABLES
  throttleMax,       \* at most this many in flight; unlimited unless positive
  throttleInFlight,  \* the code's counter of admitted requests
  throttleQueue,     \* the code's counter of waiting requests
  pc                 \* per request: where its goroutine is

vars == <<throttleMax, throttleInFlight, throttleQueue, pc>>

\* "parked" is inside throttleC.Wait(); "woken" has been signalled and has not
\* got the mutex back; "hung" is a round trip that will not end.
RequestPC == {"new", "parked", "woken", "roundtrip", "hung", "done"}

At(label) == {r \in Request : pc[r] = label}

Goto(r, to) == pc' = [pc EXCEPT ![r] = to]

\* The condition of FilterRequest's waiting loop.
Full == throttleMax > 0 /\ throttleInFlight >= throttleMax

-----------------------------------------------------------------------------
Init ==
  /\ throttleMax = 0
  /\ throttleInFlight = 0
  /\ throttleQueue = 0
  /\ pc = [r \in Request |-> "new"]

\* A request arrives: it is queued, and admitted at once if there is a slot.
EnterLeavingQueued(r) ==
  /\ pc[r] = "new"
  /\ throttleQueue' = throttleQueue + 1
  /\ IF Full
       THEN Goto(r, "parked") /\ UNCHANGED throttleInFlight
       ELSE Goto(r, "roundtrip") /\ throttleInFlight' = throttleInFlight + 1
  /\ UNCHANGED throttleMax

Enter(r) ==
  /\ pc[r] = "new"
  /\ IF Full
       THEN /\ throttleQueue' = throttleQueue + 1
            /\ Goto(r, "parked")
            /\ UNCHANGED throttleInFlight
       ELSE /\ UNCHANGED throttleQueue
            /\ Goto(r, "roundtrip")
            /\ throttleInFlight' = throttleInFlight + 1
  /\ UNCHANGED throttleMax

\* A woken waiter gets the mutex back and evaluates the loop condition again.
ResumeWithoutRecheck(r) ==
  /\ pc[r] = "woken"
  /\ throttleQueue' = throttleQueue - 1
  /\ throttleInFlight' = throttleInFlight + 1
  /\ Goto(r, "roundtrip")
  /\ UNCHANGED throttleMax

ResumeUncounted(r) ==
  /\ pc[r] = "woken"
  /\ IF Full
       THEN Goto(r, "parked") /\ UNCHANGED <<throttleQueue, throttleInFlight>>
       ELSE /\ throttleQueue' = throttleQueue - 1
            /\ Goto(r, "roundtrip")
            /\ UNCHANGED throttleInFlight
  /\ UNCHANGED throttleMax

Resume(r) ==
  /\ pc[r] = "woken"
  /\ IF Full
       THEN Goto(r, "parked") /\ UNCHANGED <<throttleQueue, throttleInFlight>>
       ELSE /\ throttleQueue' = throttleQueue - 1
            /\ throttleInFlight' = throttleInFlight + 1
            /\ Goto(r, "roundtrip")
  /\ UNCHANGED throttleMax

\* RoundTrip never returns: the upstream server does not answer and there is no
\* timeout.
Hang(r) ==
  /\ pc[r] = "roundtrip"
  /\ Goto(r, "hung")
  /\ UNCHANGED <<throttleMax, throttleInFlight, throttleQueue>>

\* The deferred function, which runs even when FilterRequest panics: give the
\* slot back and signal one waiter, w, if there is any.
ReleaseSignallingWhenFull(r) ==
  /\ pc[r] = "roundtrip"
  /\ throttleInFlight' = throttleInFlight - 1
  /\ \E w \in IF throttleInFlight = throttleMax /\ At("parked") # {}
                THEN At("parked") ELSE {None} :
       pc' = [q \in Request |-> IF q = r THEN "done" ELSE IF q = w THEN "woken" ELSE pc[q]]
  /\ UNCHANGED <<throttleMax, throttleQueue>>

Release(r) ==
  /\ pc[r] = "roundtrip"
  /\ throttleInFlight' = throttleInFlight - 1
  /\ \E w \in IF At("parked") # {} THEN At("parked") ELSE {None} :
       pc' = [q \in Request |-> IF q = r THEN "done" ELSE IF q = w THEN "woken" ELSE pc[q]]
  /\ UNCHANGED <<throttleMax, throttleQueue>>

\* SetMaxConcurrent: set the limit and wake every waiter.
SetMaxWithoutBroadcast(max) ==
  /\ throttleMax' = max
  /\ UNCHANGED <<throttleInFlight, throttleQueue, pc>>

SetMaxConcurrent(max) ==
  /\ throttleMax' = max
  /\ pc' = [q \in Request |-> IF pc[q] = "parked" THEN "woken" ELSE pc[q]]
  /\ UNCHANGED <<throttleInFlight, throttleQueue>>

Next ==
  \/ \E r \in Request : Enter(r) \/ Resume(r) \/ Hang(r) \/ Release(r)
  \/ \E max \in Limits : SetMaxConcurrent(max)

Spec == Init /\ [][Next]_vars

\* A woken goroutine gets the mutex, and a round trip that does not hang ends.
\* Nothing makes requests arrive or the limit change.
FairSpec ==
  /\ Spec
  /\ \A r \in Request : WF_vars(Resume(r)) /\ WF_vars(Release(r))

-----------------------------------------------------------------------------
(* Properties.                                                             *)

Waiting  == At("parked") \cup At("woken")
InFlight == At("roundtrip") \cup At("hung")

\* The type of every variable.
TypeOK ==
  /\ throttleMax \in Limits \cup {0}
  /\ throttleInFlight \in Nat
  /\ throttleQueue \in Nat
  /\ pc \in [Request -> RequestPC]

\* What the counters say is true: throttleInFlight, on which admission depends,
\* and throttleQueue, which QueueLength reports, are changed by different
\* goroutines in different critical sections.
CountersAreExact ==
  /\ throttleInFlight = Cardinality(InFlight)
  /\ throttleQueue = Cardinality(Waiting)

\* No request is admitted beyond the limit in force, although newcomers take
\* slots that were signalled to a waiter, and the limit may have been lowered
\* below what is in flight while the waiter slept.
NeverOverAdmits ==
  [][throttleInFlight' > throttleInFlight
       => throttleMax <= 0 \/ throttleInFlight' <= throttleMax]_vars

\* No wakeup is lost: while a request is parked there is a limit, and every
\* free slot has a waiter that has been woken and is on its way to it.
NoLostWakeup ==
  At("parked") # {}
    => throttleMax > 0 /\ throttleMax - throttleInFlight <= Cardinality(At("woken"))

\* The throttle implements its promise, RequestLimiter: it goes by the number of
\* requests that really are in flight, although it knows a counter only.
Limiter == INSTANCE RequestLimiter WITH
  limit <- throttleMax,
  waiting <- Waiting,
  admitted <- InFlight,
  left <- At("done")

LimiterSpec == Limiter!Spec

\* Hung round trips hold all the slots there are.
Exhausted == throttleMax > 0 /\ Cardinality(At("hung")) >= throttleMax

\* Every request that waits is sent to the upstream server in the end, whoever
\* overtakes it and however the limit changes, unless hung round trips come to
\* hold every slot.
WaitersAdmitted ==
  \A r \in Request : (r \in Waiting) ~> (r \notin Waiting \/ Exhausted)
=============================================================================
