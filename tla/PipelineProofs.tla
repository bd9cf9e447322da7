--------------------------- MODULE PipelineProofs ---------------------------
(* Proofs about the pipeline, for any number of pipelines and any contents *)
(* of their lists: stages are started and finished in pairs, the first     *)
(* response is final, and it passes the right response filters in order.   *)
EXTENDS Pipeline, TLAPS

-----------------------------------------------------------------------------
(* The inductive invariant, part by part.                                  *)

\* Every stage is finished.
Closed(s) == s \in Seq(Stage) /\ Len(s) > 0 /\ \A i \in 1..Len(s) : s[i].finished = 1

\* The last stage is being executed, the others are finished.
Open(s) ==
  /\ s \in Seq(Stage) /\ Len(s) > 0
  /\ \A i \in 1..Len(s)-1 : s[i].finished = 1
  /\ s[Len(s)].finished = 0

\* A stage is open exactly while application code or the write is running.
StagesMatchPC ==
  /\ pc \in {"router", "filter", "response", "write"} => Open(stages)
  /\ pc \in {"upstream", "downstream", "answer", "finished"} => Closed(stages)
  /\ pc = "panicked" => Open(stages) \/ Closed(stages)

\* There is a frame while pipelines are executed.
Executing == pc \in {"upstream", "router", "filter", "downstream", "response"} => Len(stack) > 0

\* There is no response before the downstream.
NoResponseUpstream == pc \in {"upstream", "router", "filter"} => res = None

Inv ==
  /\ config \in Configs
  /\ TypeOK
  /\ Executing
  /\ StagesMatchPC
  /\ NoResponseUpstream

-----------------------------------------------------------------------------
(* Stages.                                                                 *)

\* A stage that is started after the others have been finished is the open one.
LEMMA StartOpens ==
  ASSUME NEW s, Closed(s), NEW e \in Stage, e.finished = 0
  PROVE  Open(Append(s, e)) /\ Len(Append(s, e)) > Len(s) /\ Append(s, e)[Len(Append(s, e))] = e
<1>1. s \in Seq(Stage) /\ Len(s) \in Nat
  BY DEF Closed
<1>2. /\ Append(s, e) \in Seq(Stage)
      /\ Len(Append(s, e)) = Len(s) + 1
      /\ \A i \in 1..Len(s) : Append(s, e)[i] = s[i]
      /\ Append(s, e)[Len(s) + 1] = e
  BY <1>1
<1> QED
  BY <1>1, <1>2 DEF Closed, Open

\* Finishing the current stage closes the open one.
LEMMA FinishCloses ==
  ASSUME NEW s, Open(s)
  PROVE  Closed(Finished(s)) /\ Len(Finished(s)) = Len(s)
<1>1. s \in Seq(Stage) /\ Len(s) \in Nat \ {0}
  BY DEF Open
<1>2. s[Len(s)] \in Stage
  BY <1>1
<1>3. [s[Len(s)] EXCEPT !.finished = @ + 1] \in Stage
  BY <1>2 DEF Stage
<1>4. Finished(s) = [s EXCEPT ![Len(s)] = [s[Len(s)] EXCEPT !.finished = @ + 1]]
  BY <1>1, <1>2 DEF Finished
<1>5. Finished(s) \in Seq(Stage) /\ Len(Finished(s)) = Len(s)
  BY <1>1, <1>3, <1>4
<1>6. \A i \in 1..Len(s) : Finished(s)[i].finished = 1
  <2> TAKE i \in 1..Len(s)
  <2>1. CASE i = Len(s)
    <3>1. Finished(s)[i] = [s[i] EXCEPT !.finished = @ + 1]
      BY <1>1, <1>4, <2>1
    <3>2. s[i].finished = 0
      BY <2>1 DEF Open
    <3> QED
      BY <1>2, <2>1, <3>1, <3>2 DEF Stage
  <2>2. CASE i # Len(s)
    <3>1. Finished(s)[i] = s[i]
      BY <1>1, <1>4, <2>2
    <3> QED
      BY <1>1, <2>2, <3>1 DEF Open
  <2> QED
    BY <2>1, <2>2
<1> QED
  BY <1>1, <1>5, <1>6 DEF Closed

\* The stage that startPipelineStage makes.
LEMMA NewStage ==
  ASSUME stack \in Seq(Frame), Len(stack) > 0, NEW type \in {"OH", "RT", "UP", "DN"}, NEW s, Closed(s)
  PROVE  /\ Open(Started(s, type))
         /\ Len(Started(s, type)) > Len(s)
         /\ Started(s, type)[Len(Started(s, type))].type = type
<1> DEFINE e == [type |-> type, pipe |-> Top.pipe, pos |-> Top.pos, finished |-> 0]
<1>1. Top \in Frame
  BY DEF Top, Last
<1>2. e \in Stage /\ e.finished = 0 /\ e.type = type
  BY <1>1 DEF Stage, Frame
<1>3. Started(s, type) = Append(s, e)
  BY DEF Started
<1> HIDE DEF e
<1> QED
  BY <1>2, <1>3, StartOpens

-----------------------------------------------------------------------------
(* Frames.                                                                 *)

\* The frame on top of the stack.
LEMMA TopFrame ==
  ASSUME stack \in Seq(Frame), Len(stack) > 0
  PROVE  Top \in Frame /\ Top.pipe \in Pipe /\ Top.pos \in Nat \ {0}
<1>1. Top \in Frame
  BY DEF Top, Last
<1> QED
  BY <1>1 DEF Frame

\* The next entry of the list is processed.
LEMMA AdvanceFrame ==
  ASSUME stack \in Seq(Frame), Len(stack) > 0
  PROVE  Advanced \in Seq(Frame) /\ Len(Advanced) > 0
<1>1. Len(stack) \in Nat \ {0} /\ stack[Len(stack)] \in Frame
  OBVIOUS
<1>2. [stack[Len(stack)] EXCEPT !.pos = @ + 1] \in Frame
  BY <1>1 DEF Frame
<1>3. Advanced = [stack EXCEPT ![Len(stack)] = [stack[Len(stack)] EXCEPT !.pos = @ + 1]]
  BY <1>1 DEF Advanced
<1> QED
  BY <1>1, <1>2, <1>3

\* The first entry of the other list is processed.
LEMMA RestartFrame ==
  ASSUME NEW s \in Seq(Frame), NEW n \in 1..Len(s)
  PROVE  [s EXCEPT ![n].pos = 1] \in Seq(Frame) /\ Len([s EXCEPT ![n].pos = 1]) = Len(s)
<1>1. s[n] \in Frame /\ Len(s) \in Nat
  OBVIOUS
<1>2. [s[n] EXCEPT !.pos = 1] \in Frame
  BY <1>1 DEF Frame
<1>3. [s EXCEPT ![n].pos = 1] = [s EXCEPT ![n] = [s[n] EXCEPT !.pos = 1]]
  OBVIOUS
<1> QED
  BY <1>1, <1>2, <1>3

\* A nested pipeline returns to the one around it.
LEMMA PopFrame ==
  ASSUME stack \in Seq(Frame), Len(stack) > 0, Len(stack) # 1
  PROVE  /\ Front(stack) \in Seq(Frame)
         /\ Len(stack)-1 \in 1..Len(Front(stack))
         /\ Front(stack)[Len(stack)-1] \in Frame
<1>1. Len(stack) \in Nat
  OBVIOUS
<1>2. PICK n \in Nat : n = Len(stack) /\ n > 1
  <2>1. \A n \in Nat : n > 0 /\ n # 1 => n > 1
    OBVIOUS
  <2> QED
    BY <1>1, <2>1
<1>3. Front(stack) \in Seq(Frame) /\ Len(Front(stack)) = Len(stack)-1
  BY <1>1, <1>2 DEF Front
<1> QED
  BY <1>1, <1>2, <1>3

-----------------------------------------------------------------------------
(* The steps.                                                              *)

\* The request as NewRequest makes it.
LEMMA InitInv == Init => Inv
<1> SUFFICES ASSUME Init PROVE Inv
  OBVIOUS
<1>1. 0 \in Pipe
  BY ConfigAssumption DEF Pipe
<1>2. stages \in Seq(Stage) /\ Len(stages) = 1 /\ stages[1].finished = 1
  BY <1>1 DEF Init, Stage
<1>3. Closed(stages)
  BY <1>2 DEF Closed
<1>4. stack \in Seq(Frame) /\ Len(stack) = 1
  BY <1>1 DEF Init, Frame
<1>5. TypeOK
  BY <1>2, <1>4 DEF Init, TypeOK, PC
<1> QED
  BY <1>3, <1>4, <1>5 DEF Init, Inv, Executing, StagesMatchPC, NoResponseUpstream

\* execFilter, with stages s that are all finished.
LEMMA ExecFilterStep ==
  ASSUME Inv, NEW s, Closed(s), NEW filter \in Selectable(Top.pipe), Len(stack) > 0,
         res = None, ExecFilter(filter, s), UNCHANGED <<config, res, path>>
  PROVE  Inv'
<1> USE DEF Inv, TypeOK
<1>1. CASE filter = RequestFilter
  <2>1. stages' = Started(s, "UP") /\ pc' = "filter" /\ UNCHANGED stack
    BY <1>1 DEF ExecFilter
  <2>2. Open(stages')
    BY <2>1, NewStage
  <2> QED
    BY <2>1, <2>2 DEF PC, Open, Executing, StagesMatchPC, NoResponseUpstream
<1>2. CASE filter # RequestFilter
  <2> DEFINE f == [pipe |-> filter, pos |-> 1]
  <2>1. Top.pipe \in Nat
    BY TopFrame DEF Pipe
  <2>2. filter \in Pipe
    BY <1>2, <2>1, ConfigAssumption DEF Selectable, Pipe
  <2>3. f \in Frame
    BY <2>2 DEF Frame
  <2>4. stages' = s /\ pc' = "upstream" /\ stack' = Append(stack, f)
    BY <1>2 DEF ExecFilter
  <2> HIDE DEF f
  <2>5. stack' \in Seq(Frame) /\ Len(stack') > 0
    BY <2>3, <2>4
  <2> QED
    BY <2>4, <2>5 DEF PC, Closed, Executing, StagesMatchPC, NoResponseUpstream
<1> QED
  BY <1>1, <1>2

\* execute's loop over the upstream list.
LEMMA UpstreamStep ==
  ASSUME Inv, SkipEntry \/ CallFilter \/ CallRouter \/ SelectPipeline
  PROVE  Inv'
<1> USE DEF Inv, TypeOK
<1>0. Len(stack) > 0 /\ res = None
  BY DEF Executing, NoResponseUpstream, SkipEntry, CallFilter, CallRouter, SelectPipeline
<1>1. CASE SkipEntry
  BY <1>0, <1>1, AdvanceFrame DEF SkipEntry, Executing, StagesMatchPC, NoResponseUpstream
<1>2. CASE CallFilter
  <2>1. Entry \in UpstreamEntry(Top.pipe)
    <3>1. config.upstream[Top.pipe] \in Seq(UpstreamEntry(Top.pipe))
      BY <1>0, TopFrame, ConfigAssumption
    <3>2. Top.pos \in Nat \ {0} /\ Top.pos <= Len(config.upstream[Top.pipe])
      BY <1>0, <1>2, TopFrame DEF CallFilter, More, List
    <3> QED
      BY <1>2, <3>1, <3>2 DEF CallFilter, Entry, List
  <2>2. Entry \in Selectable(Top.pipe)
    BY <1>2, <2>1 DEF CallFilter, UpstreamEntry
  <2>3. Closed(stages)
    BY <1>2 DEF CallFilter, StagesMatchPC
  <2> QED
    BY <1>0, <1>2, <2>2, <2>3, ExecFilterStep DEF CallFilter
<1>3. CASE CallRouter
  <2>1. Closed(stages)
    BY <1>3 DEF CallRouter, StagesMatchPC
  <2>2. Open(stages')
    BY <1>0, <1>3, <2>1, NewStage DEF CallRouter
  <2> QED
    BY <1>0, <1>3, <2>2 DEF CallRouter, PC, Open, Executing, StagesMatchPC, NoResponseUpstream
<1>4. CASE SelectPipeline
  <2>1. Closed(Finished(stages))
    BY <1>4, FinishCloses DEF SelectPipeline, StagesMatchPC
  <2>2. CASE stages' = Finished(stages) /\ stack' = Advanced /\ pc' = "upstream"
    BY <1>0, <1>4, <2>1, <2>2, AdvanceFrame
    DEF SelectPipeline, PC, Closed, Executing, StagesMatchPC, NoResponseUpstream
  <2>3. CASE \E pipe \in Selectable(Top.pipe) : ExecFilter(pipe, Finished(stages))
    BY <1>0, <1>4, <2>1, <2>3, ExecFilterStep DEF SelectPipeline
  <2> QED
    BY <1>4, <2>2, <2>3 DEF SelectPipeline
<1> QED
  BY <1>1, <1>2, <1>3, <1>4

\* The ways out of a request filter and of an upstream list.
LEMMA FilterStep ==
  ASSUME Inv, FilterReturnsNil \/ FilterReturnsResponse \/ NoResponse
  PROVE  Inv'
<1> USE DEF Inv, TypeOK
<1>0. Len(stack) > 0 /\ Len(stack) \in Nat /\ res = None
  BY DEF Executing, NoResponseUpstream, FilterReturnsNil, FilterReturnsResponse, NoResponse
<1>1. CASE FilterReturnsNil
  <2>1. Closed(stages')
    BY <1>1, FinishCloses DEF FilterReturnsNil, StagesMatchPC
  <2> QED
    BY <1>0, <1>1, <2>1, AdvanceFrame
    DEF FilterReturnsNil, PC, Closed, Executing, StagesMatchPC, NoResponseUpstream
<1>2. CASE FilterReturnsResponse
  <2>1. Closed(stages')
    BY <1>2, FinishCloses DEF FilterReturnsResponse, StagesMatchPC
  <2>2. stack' \in Seq(Frame) /\ Len(stack') > 0
    BY <1>0, <1>2, RestartFrame DEF FilterReturnsResponse
  <2>3. path' \in Seq(Pipe)
    <3>1. \A f \in Frame : f.pipe \in Pipe
      BY DEF Frame
    <3>2. \A i \in 1..Len(stack) : stack[i].pipe \in Pipe
      BY <3>1
    <3> QED
      BY <1>0, <1>2, <3>2 DEF FilterReturnsResponse
  <2>4. res' \in Nat
    BY <1>2 DEF FilterReturnsResponse
  <2> QED
    BY <1>2, <2>1, <2>2, <2>3, <2>4
    DEF FilterReturnsResponse, PC, Closed, Executing, StagesMatchPC, NoResponseUpstream
<1>3. CASE NoResponse
  <2>1. stack' \in Seq(Frame) /\ (pc' = "upstream" => Len(stack') > 0)
    <3>1. CASE Len(stack) = 1
      BY <1>3, <3>1 DEF NoResponse
    <3>2. CASE Len(stack) # 1
      <4> DEFINE g == [Front(stack)[Len(stack)-1] EXCEPT !.pos = @ + 1]
      <4>1. /\ Front(stack) \in Seq(Frame) /\ Len(stack)-1 \in 1..Len(Front(stack))
            /\ Front(stack)[Len(stack)-1] \in Frame
        BY <1>0, <3>2, PopFrame
      <4>2. g \in Frame
        <5>1. \A f \in Frame : [f EXCEPT !.pos = @ + 1] \in Frame
          BY DEF Frame
        <5> QED
          BY <4>1, <5>1
      <4>3. stack' = [Front(stack) EXCEPT ![Len(stack)-1] = g]
        BY <1>3, <3>2 DEF NoResponse
      <4> HIDE DEF g
      <4> QED
        BY <4>1, <4>2, <4>3
    <3> QED
      BY <3>1, <3>2
  <2>2. pc' \in {"upstream", "answer"} /\ pc = "upstream"
    BY <1>3 DEF NoResponse
  <2> QED
    BY <1>0, <1>3, <2>1, <2>2
    DEF NoResponse, PC, Executing, StagesMatchPC, NoResponseUpstream
<1> QED
  BY <1>1, <1>2, <1>3

\* The loop of down.
LEMMA DownstreamStep ==
  ASSUME Inv, CallResponseFilter \/ ResponseFilterReturns \/ ReturnResponse
  PROVE  Inv'
<1> USE DEF Inv, TypeOK
<1>0. Len(stack) > 0 /\ Len(stack) \in Nat
  BY DEF Executing, CallResponseFilter, ResponseFilterReturns, ReturnResponse
<1>1. CASE CallResponseFilter
  <2>1. Open(stages')
    BY <1>0, <1>1, NewStage DEF CallResponseFilter, StagesMatchPC
  <2> QED
    BY <1>0, <1>1, <2>1
    DEF CallResponseFilter, PC, Open, Executing, StagesMatchPC, NoResponseUpstream
<1>2. CASE ResponseFilterReturns
  <2>1. Closed(stages')
    BY <1>2, FinishCloses DEF ResponseFilterReturns, StagesMatchPC
  <2> QED
    BY <1>0, <1>2, <2>1, AdvanceFrame
    DEF ResponseFilterReturns, PC, Closed, Executing, StagesMatchPC, NoResponseUpstream
<1>3. CASE ReturnResponse
  <2>1. stack' \in Seq(Frame) /\ (pc' = "downstream" => Len(stack') > 0)
    <3>1. CASE Len(stack) = 1
      BY <1>3, <3>1 DEF ReturnResponse
    <3>2. CASE Len(stack) # 1
      <4>1. Front(stack) \in Seq(Frame) /\ Len(stack)-1 \in 1..Len(Front(stack))
        BY <1>0, <3>2, PopFrame
      <4>2. stack' = [Front(stack) EXCEPT ![Len(stack)-1].pos = 1]
        BY <1>3, <3>2 DEF ReturnResponse
      <4>3. Len(stack') = Len(Front(stack)) /\ stack' \in Seq(Frame)
        BY <4>1, <4>2, RestartFrame
      <4> QED
        BY <4>1, <4>3
    <3> QED
      BY <3>1, <3>2
  <2>2. pc' \in {"downstream", "answer"} /\ pc = "downstream"
    BY <1>3 DEF ReturnResponse
  <2> QED
    BY <1>3, <2>1, <2>2 DEF ReturnResponse, PC, Executing, StagesMatchPC, NoResponseUpstream
<1> QED
  BY <1>1, <1>2, <1>3

\* A panic, and what the server does with the response.
LEMMA ServerStep ==
  ASSUME Inv, Panic \/ Answer \/ Write
  PROVE  Inv'
<1> USE DEF Inv, TypeOK
<1>1. CASE Panic
  <2>1. Open(stages') \/ Closed(stages')
    BY <1>1, FinishCloses DEF Panic, StagesMatchPC
  <2> QED
    BY <1>1, <2>1 DEF Panic, PC, Open, Closed, Executing, StagesMatchPC, NoResponseUpstream
<1>2. CASE Answer
  <2> DEFINE e == [type |-> "OH", pipe |-> 0, pos |-> 0, finished |-> 0]
  <2>1. e \in Stage /\ e.finished = 0
    BY ConfigAssumption DEF Stage, Pipe
  <2>2. stages' = Append(stages, e) /\ Closed(stages)
    BY <1>2 DEF Answer, StagesMatchPC
  <2> HIDE DEF e
  <2>3. Open(stages')
    BY <2>1, <2>2, StartOpens
  <2> QED
    BY <1>2, <2>3
    DEF Answer, NotFound, PC, Open, Executing, StagesMatchPC, NoResponseUpstream
<1>3. CASE Write
  <2>1. Closed(stages')
    BY <1>3, FinishCloses DEF Write, StagesMatchPC
  <2> QED
    BY <1>3, <2>1 DEF Write, PC, Closed, Executing, StagesMatchPC, NoResponseUpstream
<1> QED
  BY <1>1, <1>2, <1>3

\* Inv is an invariant of the specification.
THEOREM Invariance == Spec => []Inv
<1>1. Inv /\ [Next]_vars => Inv'
  <2> SUFFICES ASSUME Inv, [Next]_vars PROVE Inv'
    OBVIOUS
  <2>1. CASE Next
    BY <2>1, UpstreamStep, FilterStep, DownstreamStep, ServerStep DEF Next
  <2>2. CASE UNCHANGED vars
    BY <2>2 DEF vars, Inv, TypeOK, Executing, StagesMatchPC, NoResponseUpstream
  <2> QED
    BY <2>1, <2>2
<1> QED
  BY <1>1, InitInv, PTL DEF Spec

\* Every variable has its type.
THEOREM TypeCorrect == Spec => []TypeOK
<1>1. Inv => TypeOK
  BY DEF Inv
<1> QED
  BY <1>1, Invariance, PTL

\* Stages do not overlap, however pipelines and routers are nested: each stage
\* is finished once, before the next one starts.
THEOREM StagesPaired == Spec => []StagesDoNotOverlap
<1>1. Inv => StagesDoNotOverlap
  <2> SUFFICES ASSUME Inv PROVE StagesDoNotOverlap
    OBVIOUS
  <2>1. stages \in Seq(Stage) /\ pc \in PC /\ StagesMatchPC
    BY DEF Inv, TypeOK
  <2>2. Open(stages) \/ Closed(stages)
    BY <2>1 DEF StagesMatchPC, PC
  <2>3. \A i \in 1 .. Len(stages)-1 : stages[i].finished = 1
    BY <2>1, <2>2 DEF Open, Closed
  <2>4. ASSUME Open(stages) PROVE Last(stages).finished = 0
    BY <2>4 DEF Open, Last
  <2>5. ASSUME Closed(stages) PROVE Last(stages).finished = 1
    BY <2>5 DEF Closed, Last
  <2> QED
    BY <2>1, <2>3, <2>4, <2>5 DEF StagesDoNotOverlap, StagesMatchPC, PC
<1> QED
  BY <1>1, Invariance, PTL

\* After the first response nothing replaces it, and only response filters and
\* the server itself start a stage.
THEOREM FirstResponse == Spec => FirstResponseIsFinal
<1> DEFINE Final ==
      res # None =>
        /\ res' = res
        /\ Len(stages') > Len(stages) => Last(stages').type \in {"DN", "OH"}
<1>1. Inv /\ [Next]_vars => [Final]_vars
  <2> SUFFICES ASSUME Inv, Next, res # None PROVE Final
    BY DEF vars
  <2>0. stack \in Seq(Frame) /\ stages \in Seq(Stage) /\ pc \notin {"upstream", "router", "filter"}
    BY DEF Inv, TypeOK, NoResponseUpstream
  <2>1. CASE CallResponseFilter
    <3>1. Len(stack) > 0 /\ Closed(stages)
      BY <2>1 DEF Inv, Executing, StagesMatchPC, CallResponseFilter
    <3>2. Open(stages') /\ stages'[Len(stages')].type = "DN"
      BY <2>0, <2>1, <3>1, NewStage DEF CallResponseFilter
    <3> QED
      BY <2>1, <3>2 DEF CallResponseFilter, Last, Open
  <2>2. CASE ResponseFilterReturns
    <3>1. Len(stages') = Len(stages)
      BY <2>2, FinishCloses DEF Inv, StagesMatchPC, ResponseFilterReturns
    <3> QED
      BY <2>0, <2>2, <3>1 DEF ResponseFilterReturns
  <2>3. CASE ReturnResponse
    BY <2>0, <2>3 DEF ReturnResponse
  <2>4. CASE Panic
    BY <2>0, <2>4 DEF Panic
  <2>5. CASE Answer
    <3> DEFINE e == [type |-> "OH", pipe |-> 0, pos |-> 0, finished |-> 0]
    <3>1. e \in Stage /\ e.type = "OH" /\ e.finished = 0
      BY ConfigAssumption DEF Stage, Pipe
    <3>2. stages' = Append(stages, e) /\ Closed(stages) /\ res' = res
      BY <2>5 DEF Answer, Inv, StagesMatchPC
    <3> HIDE DEF e
    <3>3. Open(stages') /\ stages'[Len(stages')] = e
      BY <3>1, <3>2, StartOpens
    <3> QED
      BY <3>1, <3>2, <3>3 DEF Last, Open
  <2>6. CASE Write
    <3>1. Len(stages') = Len(stages)
      BY <2>6, FinishCloses DEF Inv, StagesMatchPC, Write
    <3> QED
      BY <2>0, <2>6, <3>1 DEF Write
  <2> QED
    BY <2>0, <2>1, <2>2, <2>3, <2>4, <2>5, <2>6
    DEF Next, SkipEntry, CallFilter, CallRouter, SelectPipeline, FilterReturnsNil,
        FilterReturnsResponse, NoResponse
<1> QED
  BY <1>1, Invariance, PTL DEF Spec, FirstResponseIsFinal

-----------------------------------------------------------------------------
(* The invariant of the way downstream.                                    *)

\* Pipelines are nested in pipelines with smaller numbers.
Nested ==
  /\ \A i, k \in 1..Len(stack) : i < k => stack[i].pipe < stack[k].pipe
  /\ \A i, k \in 1..Len(path) : i < k => path[i] < path[k]

\* Upstream no response filter has been called.
NotYetDownstream ==
  pc \in {"upstream", "router", "filter"} =>
    path = <<>> /\ \A i \in 1..Len(stages) : stages[i].type # "DN"

\* Downstream the frames are those of the pipelines on the path, from outside.
OnPath ==
  pc \in {"downstream", "response"} =>
    Len(stack) <= Len(path) /\ \A i \in 1..Len(stack) : path[i] = stack[i].pipe

\* The last entry that has been called in the list at hand.
Reached == IF pc = "response" THEN Top.pos ELSE Top.pos - 1

\* The place for the j-th filter of pipeline p is behind the response.
Passed(p, j) == pc = "answer" \/ p > Top.pipe \/ (p = Top.pipe /\ j <= Reached)

Downstream == pc \in {"downstream", "response", "answer"}

\* The turn of the j-th filter of pipeline p comes: p is around the filter that
\* responded, and up to j the list has response filters only.
HasTurn(p, j) ==
  /\ \E n \in 1..Len(path) : path[n] = p
  /\ j \in Nat \ {0} /\ j <= Len(config.downstream[p])
  /\ \A i \in 1..j : config.downstream[p][i] = ResponseFilter

CallsHaveTurn ==
  Downstream =>
    \A i \in 1..Len(stages) :
      stages[i].type = "DN" =>
        HasTurn(stages[i].pipe, stages[i].pos) /\ Passed(stages[i].pipe, stages[i].pos)

TurnsAreCalled ==
  Downstream => \A p \in Pipe : \A j \in Nat \ {0} : HasTurn(p, j) /\ Passed(p, j) => Called(p, j)

\* The list at hand has response filters only, as far as it has been processed.
ReachedHaveTurn ==
  pc \in {"downstream", "response"} => \A j \in 1..Reached : HasTurn(Top.pipe, j)

DownstreamInv ==
  /\ Nested
  /\ NotYetDownstream
  /\ OnPath
  /\ CallsHaveTurn
  /\ TurnsAreCalled
  /\ ReachedHaveTurn
  /\ InOrder

-----------------------------------------------------------------------------
(* The frames' pipelines.                                                  *)

\* Processing another entry does not change which pipelines are executed.
LEMMA AdvancePipes ==
  ASSUME stack \in Seq(Frame), Len(stack) > 0
  PROVE  /\ Len(Advanced) = Len(stack)
         /\ \A i \in 1..Len(stack) : Advanced[i].pipe = stack[i].pipe
         /\ Advanced[Len(stack)].pos = Top.pos + 1
<1>1. Len(stack) \in Nat \ {0} /\ \A i \in 1..Len(stack) : stack[i] \in Frame
  OBVIOUS
<1>2. Advanced = [stack EXCEPT ![Len(stack)] = [stack[Len(stack)] EXCEPT !.pos = @ + 1]]
  BY <1>1 DEF Advanced
<1>3. Top = stack[Len(stack)]
  BY DEF Top, Last
<1> QED
  BY <1>1, <1>2, <1>3 DEF Frame

\* Nor does it to start on the other list.
LEMMA RestartPipes ==
  ASSUME stack \in Seq(Frame), Len(stack) > 0,
         NEW s, s = [stack EXCEPT ![Len(stack)].pos = 1]
  PROVE  /\ Len(s) = Len(stack)
         /\ \A i \in 1..Len(stack) : s[i].pipe = stack[i].pipe
         /\ s[Len(stack)].pos = 1
<1>1. Len(stack) \in Nat \ {0} /\ \A i \in 1..Len(stack) : stack[i] \in Frame
  OBVIOUS
<1>2. s = [stack EXCEPT ![Len(stack)] = [stack[Len(stack)] EXCEPT !.pos = 1]]
  BY <1>1
<1> QED
  BY <1>1, <1>2 DEF Frame

\* Returning leaves the frames around the one that returns.
LEMMA PopPipes ==
  ASSUME stack \in Seq(Frame), Len(stack) > 0, Len(stack) # 1,
         NEW f, f.pipe = Front(stack)[Len(stack)-1].pipe,
         NEW s, s = [Front(stack) EXCEPT ![Len(stack)-1] = f]
  PROVE  /\ Len(s) = Len(stack) - 1 /\ Len(s) > 0
         /\ \A i \in 1..Len(s) : s[i].pipe = stack[i].pipe
         /\ s[Len(s)] = f
<1>1. Len(stack) \in Nat /\ Len(stack) > 1
  <2>1. Len(stack) \in Nat
    OBVIOUS
  <2>2. \A n \in Nat : n > 0 /\ n # 1 => n > 1
    OBVIOUS
  <2> QED
    BY <2>1, <2>2
<1> DEFINE n == Len(stack) - 1
<1>2. /\ Front(stack) \in Seq(Frame) /\ Len(Front(stack)) = n
      /\ \A i \in 1..n : Front(stack)[i] = stack[i]
  BY <1>1 DEF Front
<1>3. n \in Nat /\ n > 0 /\ n \in 1..n
  BY <1>1
<1>4. s = [Front(stack) EXCEPT ![n] = f] /\ f.pipe = stack[n].pipe
  BY <1>2, <1>3
<1> HIDE DEF n
<1>5. Len(s) = n /\ \A i \in 1..n : s[i] = IF i = n THEN f ELSE Front(stack)[i]
  BY <1>2, <1>3, <1>4
<1> QED
  BY <1>2, <1>3, <1>4, <1>5 DEF n

\* Frames that are left, or replaced by others of the same pipelines, are nested.
LEMMA StillNested ==
  ASSUME Nested, Len(stack) \in Nat, Len(stack') \in Nat, Len(stack') <= Len(stack),
         \A i \in 1..Len(stack') : stack'[i].pipe = stack[i].pipe
  PROVE  \A i, k \in 1..Len(stack') : i < k => stack'[i].pipe < stack'[k].pipe
<1>1. \A i \in 1..Len(stack') : i \in 1..Len(stack)
  OBVIOUS
<1> QED
  BY <1>1 DEF Nested

-----------------------------------------------------------------------------
(* The calls of response filters.                                          *)

\* Finishing a stage does not change which one it is.
LEMMA FinishedPlaces ==
  ASSUME NEW s \in Seq(Stage), Len(s) > 0
  PROVE  /\ Len(Finished(s)) = Len(s)
         /\ \A i \in 1..Len(s) : /\ Finished(s)[i].type = s[i].type
                                 /\ Finished(s)[i].pipe = s[i].pipe
                                 /\ Finished(s)[i].pos = s[i].pos
<1>1. Len(s) \in Nat \ {0} /\ \A i \in 1..Len(s) : s[i] \in Stage
  OBVIOUS
<1>2. Finished(s) = [s EXCEPT ![Len(s)] = [s[Len(s)] EXCEPT !.finished = @ + 1]]
  BY <1>1 DEF Finished
<1> QED
  BY <1>1, <1>2 DEF Stage

\* Starting one adds it behind the others.
LEMMA StartedPlaces ==
  ASSUME NEW s \in Seq(Stage), NEW type
  PROVE  /\ Len(Started(s, type)) = Len(s) + 1
         /\ \A i \in 1..Len(s) : Started(s, type)[i] = s[i]
         /\ LET new == Started(s, type)[Len(s) + 1] IN
            new.type = type /\ new.pipe = Top.pipe /\ new.pos = Top.pos
<1> DEFINE e == [type |-> type, pipe |-> Top.pipe, pos |-> Top.pos, finished |-> 0]
<1>1. e.type = type /\ e.pipe = Top.pipe /\ e.pos = Top.pos /\ Started(s, type) = Append(s, e)
  BY DEF Started
<1> HIDE DEF e
<1>2. /\ Len(Append(s, e)) = Len(s) + 1 /\ Append(s, e)[Len(s) + 1] = e
      /\ \A i \in 1..Len(s) : Append(s, e)[i] = s[i]
  OBVIOUS
<1> QED
  BY <1>1, <1>2

\* Starting a stage of another type calls no response filter.
LEMMA StartedIsNoCall ==
  ASSUME NEW s \in Seq(Stage), NEW type, type # "DN",
         \A i \in 1..Len(s) : s[i].type # "DN"
  PROVE  \A i \in 1..Len(Started(s, type)) : Started(s, type)[i].type # "DN"
<1>1. \A i \in 1..Len(Started(s, type)) : i \in 1..Len(s) \/ i = Len(s) + 1
  BY StartedPlaces
<1>2. \A i \in 1..Len(s) : Started(s, type)[i].type # "DN"
  BY StartedPlaces
<1>3. Started(s, type)[Len(s) + 1].type = type
  BY StartedPlaces
<1> QED
  BY <1>1, <1>2, <1>3

\* The calls, and which are due, stay as they are when stages are only finished.
LEMMA CallsKept ==
  ASSUME UNCHANGED <<config, path>>, Len(stages') = Len(stages),
         \A i \in 1..Len(stages) : /\ stages'[i].type = stages[i].type
                                   /\ stages'[i].pipe = stages[i].pipe
                                   /\ stages'[i].pos = stages[i].pos
  PROVE  /\ \A p, j : (HasTurn(p, j)' <=> HasTurn(p, j)) /\ (Called(p, j)' <=> Called(p, j))
         /\ InOrder => InOrder'
<1>1. \A p, j : HasTurn(p, j)' <=> HasTurn(p, j)
  BY DEF HasTurn
<1>2. \A p, j : Called(p, j)' <=> Called(p, j)
  BY DEF Called, IsCall
<1>3. InOrder => InOrder'
  BY DEF InOrder, Before
<1> QED
  BY <1>1, <1>2, <1>3

\* A stage of another type is not a call.
LEMMA OrderKept ==
  ASSUME InOrder, Len(stages) \in Nat, Len(stages') = Len(stages) + 1,
         \A i \in 1..Len(stages) : stages'[i] = stages[i],
         \/ stages'[Len(stages) + 1].type # "DN"
         \/ \A i \in 1..Len(stages) :
              stages[i].type = "DN" => Before(stages[i], stages'[Len(stages) + 1])
  PROVE  InOrder'
<1> SUFFICES ASSUME NEW i \in 1..Len(stages'), NEW k \in 1..Len(stages'), i < k,
                    stages'[i].type = "DN", stages'[k].type = "DN"
             PROVE  Before(stages'[i], stages'[k])
  BY DEF InOrder, Before
<1>1. i \in 1..Len(stages) /\ (k \in 1..Len(stages) \/ k = Len(stages) + 1)
  OBVIOUS
<1>2. CASE k \in 1..Len(stages)
  <2>1. stages'[i] = stages[i] /\ stages'[k] = stages[k]
    BY <1>1, <1>2
  <2> QED
    BY <1>1, <1>2, <2>1 DEF InOrder
<1>3. CASE k = Len(stages) + 1
  <2>1. stages'[i] = stages[i]
    BY <1>1
  <2> QED
    BY <1>1, <1>3, <2>1
<1> QED
  BY <1>1, <1>2, <1>3

-----------------------------------------------------------------------------
(* The steps.                                                              *)

\* Where the path, the stages and the frames are of the right types, a step that
\* stays upstream has to show the frames nested and no response filter called.
LEMMA StaysUpstream ==
  ASSUME DownstreamInv, pc \in {"upstream", "router", "filter"},
         pc' \in {"upstream", "router", "filter"}, path' = path,
         \A i, k \in 1..Len(stack') : i < k => stack'[i].pipe < stack'[k].pipe,
         \A i \in 1..Len(stages') : stages'[i].type # "DN"
  PROVE  DownstreamInv'
<1>1. Nested' /\ NotYetDownstream'
  BY DEF DownstreamInv, Nested, NotYetDownstream
<1>2. OnPath' /\ CallsHaveTurn' /\ TurnsAreCalled' /\ ReachedHaveTurn' /\ InOrder'
  BY DEF OnPath, CallsHaveTurn, TurnsAreCalled, ReachedHaveTurn, InOrder, Downstream
<1> QED
  BY <1>1, <1>2 DEF DownstreamInv

\* execFilter executes a filter, or a pipeline with a greater number.
LEMMA ExecFilterUpstream ==
  ASSUME Inv, DownstreamInv, pc \in {"upstream", "router"}, NEW s \in Seq(Stage),
         \A i \in 1..Len(s) : s[i].type # "DN",
         NEW filter \in Selectable(Top.pipe), ExecFilter(filter, s), path' = path
  PROVE  DownstreamInv'
<1>0. /\ stack \in Seq(Frame) /\ Len(stack) > 0 /\ Len(stack) \in Nat
      /\ Top.pipe \in Pipe /\ Top = stack[Len(stack)]
  BY TopFrame DEF Inv, TypeOK, Executing, Top, Last
<1>1. CASE filter = RequestFilter
  <2>1. stages' = Started(s, "UP") /\ pc' = "filter" /\ stack' = stack
    BY <1>1 DEF ExecFilter
  <2>2. \A i \in 1..Len(stages') : stages'[i].type # "DN"
    BY <2>1, StartedIsNoCall
  <2> QED
    BY <1>0, <2>1, <2>2, StaysUpstream DEF DownstreamInv, Nested
<1>2. CASE filter # RequestFilter
  <2> DEFINE f == [pipe |-> filter, pos |-> 1]
  <2>1. filter \in Nat /\ filter > Top.pipe
    BY <1>0, <1>2, ConfigAssumption DEF Selectable, Pipe
  <2>2. f.pipe = filter /\ stages' = s /\ pc' = "upstream" /\ stack' = Append(stack, f)
    BY <1>2 DEF ExecFilter
  <2> HIDE DEF f
  <2>3. /\ Len(stack') = Len(stack) + 1 /\ stack'[Len(stack) + 1] = f
        /\ \A i \in 1..Len(stack) : stack'[i] = stack[i]
    BY <1>0, <2>2
  <2>4. \A i \in 1..Len(stack) : stack[i].pipe \in Nat /\ stack[i].pipe <= Top.pipe
    <3>0. \A g \in Frame : g.pipe \in Nat
      BY ConfigAssumption DEF Frame, Pipe
    <3>1. \A i \in 1..Len(stack) : stack[i] \in Frame /\ stack[i].pipe \in Nat
      BY <1>0, <3>0
    <3> QED
      BY <1>0, <3>1 DEF DownstreamInv, Nested
  <2>5. \A i, k \in 1..Len(stack') : i < k => stack'[i].pipe < stack'[k].pipe
    <3> TAKE i, k \in 1..Len(stack')
    <3> HAVE i < k
    <3>1. i \in 1..Len(stack) /\ (k \in 1..Len(stack) \/ k = Len(stack) + 1)
      BY <1>0, <2>3
    <3>2. CASE k \in 1..Len(stack)
      BY <2>3, <3>1, <3>2 DEF DownstreamInv, Nested
    <3>3. CASE k = Len(stack) + 1
      <4>1. stack'[i].pipe = stack[i].pipe /\ stack'[k].pipe = filter /\ Top.pipe \in Nat
        BY <1>0, <2>2, <2>3, <3>1, <3>3 DEF Pipe
      <4> QED
        BY <2>1, <2>4, <3>1, <4>1
    <3> QED
      BY <3>1, <3>2, <3>3
  <2> QED
    BY <2>2, <2>5, StaysUpstream
<1> QED
  BY <1>1, <1>2

\* The loop of execute, as long as there is no response.
LEMMA UpstreamCalls ==
  ASSUME Inv, DownstreamInv,
         SkipEntry \/ CallFilter \/ CallRouter \/ SelectPipeline \/ FilterReturnsNil
  PROVE  DownstreamInv'
<1>0. /\ stack \in Seq(Frame) /\ Len(stack) > 0 /\ Len(stack) \in Nat
      /\ stages \in Seq(Stage) /\ Len(stages) > 0 /\ path' = path
      /\ \A i \in 1..Len(stages) : stages[i].type # "DN"
      /\ Nested /\ pc \in {"upstream", "router", "filter"}
  BY DEF Inv, TypeOK, Executing, StagesMatchPC, Open, Closed, DownstreamInv, NotYetDownstream,
         SkipEntry, CallFilter, CallRouter, SelectPipeline, FilterReturnsNil
<1>1. \A i \in 1..Len(Finished(stages)) : Finished(stages)[i].type # "DN"
  BY <1>0, FinishedPlaces
<1>2. Finished(stages) \in Seq(Stage)
  <2>2. ASSUME NEW s \in Seq(Stage), Len(s) > 0 PROVE Finished(s) \in Seq(Stage)
    <3>1. Len(s) \in Nat \ {0} /\ s[Len(s)] \in Stage
      BY <2>2
    <3>2. [s[Len(s)] EXCEPT !.finished = @ + 1] \in Stage
      BY <3>1 DEF Stage
    <3>3. Finished(s) = [s EXCEPT ![Len(s)] = [s[Len(s)] EXCEPT !.finished = @ + 1]]
      BY <3>1 DEF Finished
    <3> QED
      BY <2>2, <3>1, <3>2, <3>3
  <2> QED
    BY <1>0, <2>2
<1>3. ASSUME stack' = Advanced, pc' = "upstream",
             stages' \in {stages, Finished(stages)}
      PROVE  DownstreamInv'
  <2>1. Len(stack') = Len(stack) /\ \A i \in 1..Len(stack') : stack'[i].pipe = stack[i].pipe
    BY <1>0, <1>3, AdvancePipes
  <2>2. \A i, k \in 1..Len(stack') : i < k => stack'[i].pipe < stack'[k].pipe
    BY <1>0, <2>1, StillNested
  <2> QED
    BY <1>0, <1>1, <1>3, <2>2, StaysUpstream
<1>4. CASE SkipEntry
  BY <1>0, <1>3, <1>4 DEF SkipEntry
<1>5. CASE CallFilter
  <2>1. Entry \in UpstreamEntry(Top.pipe)
    <3>1. config.upstream[Top.pipe] \in Seq(UpstreamEntry(Top.pipe))
      BY <1>0, TopFrame, ConfigAssumption DEF Inv
    <3>2. Top.pos \in Nat \ {0} /\ Top.pos <= Len(config.upstream[Top.pipe])
      BY <1>0, <1>5, TopFrame DEF CallFilter, More, List
    <3> QED
      BY <1>5, <3>1, <3>2 DEF CallFilter, Entry, List
  <2>2. Entry \in Selectable(Top.pipe) /\ ExecFilter(Entry, stages) /\ pc = "upstream"
    BY <1>5, <2>1 DEF CallFilter, UpstreamEntry
  <2> QED
    BY <1>0, <2>2, ExecFilterUpstream
<1>6. CASE CallRouter
  <2>1. stages' = Started(stages, "RT") /\ pc' = "router" /\ stack' = stack
    BY <1>6 DEF CallRouter
  <2>2. \A i \in 1..Len(stages') : stages'[i].type # "DN"
    BY <1>0, <2>1, StartedIsNoCall
  <2> QED
    BY <1>0, <2>1, <2>2, StaysUpstream DEF Nested
<1>7. CASE SelectPipeline
  <2>1. CASE stages' = Finished(stages) /\ stack' = Advanced /\ pc' = "upstream"
    BY <1>3, <2>1
  <2>2. CASE \E pipe \in Selectable(Top.pipe) : ExecFilter(pipe, Finished(stages))
    <3>1. PICK pipe \in Selectable(Top.pipe) : ExecFilter(pipe, Finished(stages))
      BY <2>2
    <3>2. pc = "router"
      BY <1>7 DEF SelectPipeline
    <3> QED
      BY <1>0, <1>1, <1>2, <3>1, <3>2, ExecFilterUpstream
  <2> QED
    BY <1>7, <2>1, <2>2 DEF SelectPipeline
<1>8. CASE FilterReturnsNil
  BY <1>3, <1>8 DEF FilterReturnsNil
<1> QED
  BY <1>4, <1>5, <1>6, <1>7, <1>8

\* The filter responds: the way downstream begins in its own pipeline.
LEMMA ResponseStartsDownstream ==
  ASSUME Inv, DownstreamInv, FilterReturnsResponse
  PROVE  DownstreamInv'
<1>0. /\ stack \in Seq(Frame) /\ Len(stack) > 0 /\ Len(stack) \in Nat
      /\ stages \in Seq(Stage) /\ Len(stages) > 0
      /\ \A i \in 1..Len(stages) : stages[i].type # "DN"
      /\ Nested /\ pc' = "downstream" /\ Top' = stack'[Len(stack')]
  BY DEF Inv, TypeOK, Executing, StagesMatchPC, Open, DownstreamInv, NotYetDownstream,
         FilterReturnsResponse, Top, Last
<1>1. /\ Len(stack') = Len(stack) /\ stack'[Len(stack)].pos = 1
      /\ \A i \in 1..Len(stack) : stack'[i].pipe = stack[i].pipe
  BY <1>0, RestartPipes DEF FilterReturnsResponse
<1>2. Len(path') = Len(stack) /\ \A i \in 1..Len(stack) : path'[i] = stack[i].pipe
  BY <1>0 DEF FilterReturnsResponse
<1>3. \A i \in 1..Len(stages') : stages'[i].type # "DN"
  BY <1>0, FinishedPlaces DEF FilterReturnsResponse
<1>4. Nested'
  BY <1>0, <1>1, <1>2 DEF Nested
<1>5. OnPath' /\ NotYetDownstream' /\ CallsHaveTurn' /\ InOrder'
  BY <1>0, <1>1, <1>2, <1>3 DEF OnPath, NotYetDownstream, CallsHaveTurn, InOrder
<1>6. Reached' = 0 /\ Top'.pipe = stack[Len(stack)].pipe
  BY <1>0, <1>1 DEF Reached
<1>7. ReachedHaveTurn'
  BY <1>6 DEF ReachedHaveTurn
<1>8. TurnsAreCalled'
  <2> SUFFICES ASSUME NEW p \in Pipe, NEW j \in Nat \ {0}, HasTurn(p, j)', Passed(p, j)' PROVE FALSE
    BY DEF TurnsAreCalled
  <2>1. PICK n \in 1..Len(stack) : stack[n].pipe = p
    BY <1>2 DEF HasTurn
  <2>2. p > stack[Len(stack)].pipe
    BY <1>0, <1>6 DEF Passed
  <2>3. stack[Len(stack)].pipe \in Nat /\ p \in Nat
    <3>1. \A f \in Frame : f.pipe \in Nat
      BY ConfigAssumption DEF Frame, Pipe
    <3> QED
      BY <1>0, <3>1, ConfigAssumption DEF Pipe
  <2>4. p <= stack[Len(stack)].pipe
    BY <1>0, <2>1, <2>3 DEF Nested
  <2> QED
    BY <2>2, <2>3, <2>4
<1> QED
  BY <1>4, <1>5, <1>7, <1>8 DEF DownstreamInv

\* A pipeline has gone through its list without a response.
LEMMA NoResponseReturns ==
  ASSUME Inv, DownstreamInv, NoResponse
  PROVE  DownstreamInv'
<1>0. /\ stack \in Seq(Frame) /\ Len(stack) > 0 /\ Len(stack) \in Nat
      /\ path = <<>> /\ path' = path /\ stages' = stages /\ pc = "upstream"
      /\ \A i \in 1..Len(stages) : stages[i].type # "DN"
      /\ Nested
  BY DEF Inv, TypeOK, Executing, DownstreamInv, NotYetDownstream, NoResponse
<1>1. CASE Len(stack) = 1
  <2>1. stack' = <<>> /\ pc' = "answer"
    BY <1>1 DEF NoResponse
  <2>2. \A p, j : ~HasTurn(p, j)'
    BY <1>0 DEF HasTurn
  <2>3. Nested' /\ NotYetDownstream' /\ OnPath' /\ CallsHaveTurn' /\ ReachedHaveTurn' /\ InOrder'
    BY <1>0, <2>1 DEF Nested, NotYetDownstream, OnPath, CallsHaveTurn, ReachedHaveTurn, InOrder
  <2>4. TurnsAreCalled'
    BY <2>2 DEF TurnsAreCalled
  <2> QED
    BY <2>3, <2>4 DEF DownstreamInv
<1>2. CASE Len(stack) # 1
  <2> DEFINE f == [Front(stack)[Len(stack)-1] EXCEPT !.pos = @ + 1]
  <2>1. /\ Len(stack)-1 \in 1..Len(Front(stack)) /\ Front(stack)[Len(stack)-1] \in Frame
        /\ Front(stack) \in Seq(Frame)
    BY <1>0, <1>2, PopFrame
  <2>2. f.pipe = Front(stack)[Len(stack)-1].pipe
    BY <2>1 DEF Frame
  <2>3. stack' = [Front(stack) EXCEPT ![Len(stack)-1] = f] /\ pc' = "upstream"
    BY <1>0, <1>2, <2>1 DEF NoResponse
  <2> HIDE DEF f
  <2>4. /\ Len(stack') = Len(stack)-1 /\ Len(stack') > 0
        /\ \A i \in 1..Len(stack') : stack'[i].pipe = stack[i].pipe
    BY <1>0, <1>2, <2>2, <2>3, PopPipes
  <2>5. \A i, k \in 1..Len(stack') : i < k => stack'[i].pipe < stack'[k].pipe
    BY <1>0, <2>4, StillNested
  <2> QED
    BY <1>0, <2>3, <2>5, StaysUpstream
<1> QED
  BY <1>1, <1>2

-----------------------------------------------------------------------------
(* down.                                                                   *)

\* The types, and the pipeline whose list is being processed.
LEMMA DownstreamTop ==
  ASSUME Inv, DownstreamInv, pc \in {"downstream", "response"}
  PROVE  /\ stack \in Seq(Frame) /\ Len(stack) > 0 /\ Len(stack) \in Nat
         /\ stages \in Seq(Stage) /\ Len(stages) > 0 /\ Len(stages) \in Nat
         /\ Top.pipe \in Pipe /\ Top.pipe \in Nat /\ Top.pos \in Nat \ {0}
         /\ Top = stack[Len(stack)]
         /\ Len(path) \in Nat /\ Len(stack) <= Len(path)
         /\ \A i \in 1..Len(stack) : path[i] = stack[i].pipe
         /\ path[Len(stack)] = Top.pipe
         /\ \A i \in 1..Len(path) : path[i] \in Nat
<1>1. stack \in Seq(Frame) /\ Len(stack) > 0 /\ stages \in Seq(Stage) /\ Len(stages) > 0
      /\ path \in Seq(Pipe)
  BY DEF Inv, TypeOK, Executing, StagesMatchPC, Open, Closed
<1>2. Top.pipe \in Pipe /\ Top.pos \in Nat \ {0} /\ Top = stack[Len(stack)]
  BY <1>1, TopFrame DEF Top, Last
<1>3. \A p \in Pipe : p \in Nat
  BY ConfigAssumption DEF Pipe
<1>4. Len(stack) <= Len(path) /\ \A i \in 1..Len(stack) : path[i] = stack[i].pipe
  BY DEF DownstreamInv, OnPath
<1>5. Len(stack) \in Nat /\ Len(path) \in Nat /\ Len(stages) \in Nat
      /\ \A i \in 1..Len(path) : path[i] \in Pipe
  BY <1>1
<1> QED
  BY <1>1, <1>2, <1>3, <1>4, <1>5

\* The next response filter is called.
LEMMA CallKeepsOrder ==
  ASSUME Inv, DownstreamInv, CallResponseFilter
  PROVE  DownstreamInv'
<1>0. /\ stages' = Started(stages, "DN") /\ pc = "downstream" /\ pc' = "response"
      /\ UNCHANGED <<config, stack, path>> /\ Top' = Top
      /\ Top.pos <= Len(config.downstream[Top.pipe])
      /\ config.downstream[Top.pipe][Top.pos] = ResponseFilter
  BY DEF CallResponseFilter, More, Entry, List, Top
<1> DEFINE new == stages'[Len(stages) + 1]
<1>1. /\ Len(stages') = Len(stages) + 1
      /\ \A i \in 1..Len(stages) : stages'[i] = stages[i]
      /\ new.type = "DN" /\ new.pipe = Top.pipe /\ new.pos = Top.pos
  BY <1>0, DownstreamTop, StartedPlaces
<1>2. Reached = Top.pos - 1 /\ Reached' = Top.pos
  BY <1>0 DEF Reached
<1>3. \A p, j : HasTurn(p, j)' <=> HasTurn(p, j)
  BY <1>0 DEF HasTurn
<1>4. HasTurn(Top.pipe, Top.pos)
  <2>1. \E n \in 1..Len(path) : path[n] = Top.pipe
    BY <1>0, DownstreamTop
  <2>2. \A i \in 1..Top.pos-1 : config.downstream[Top.pipe][i] = ResponseFilter
    BY <1>0, <1>2, DownstreamTop DEF DownstreamInv, ReachedHaveTurn, HasTurn
  <2>3. \A i \in 1..Top.pos : i \in 1..Top.pos-1 \/ i = Top.pos
    BY <1>0, DownstreamTop
  <2> QED
    BY <1>0, <2>1, <2>2, <2>3, DownstreamTop DEF HasTurn
<1>5. ReachedHaveTurn'
  <2> SUFFICES ASSUME NEW j \in 1..Top.pos PROVE HasTurn(Top.pipe, j)
    BY <1>0, <1>2, <1>3 DEF ReachedHaveTurn
  <2>1. j \in 1..Top.pos-1 \/ j = Top.pos
    BY <1>0, DownstreamTop
  <2> QED
    BY <1>0, <1>2, <1>4, <2>1 DEF DownstreamInv, ReachedHaveTurn
<1>6. ASSUME NEW i \in 1..Len(stages), stages[i].type = "DN"
      PROVE  /\ HasTurn(stages[i].pipe, stages[i].pos)
             /\ stages[i].pipe \in Nat /\ stages[i].pos \in Nat
             /\ \/ stages[i].pipe > Top.pipe
                \/ stages[i].pipe = Top.pipe /\ stages[i].pos <= Top.pos - 1
  <2>1. HasTurn(stages[i].pipe, stages[i].pos) /\ Passed(stages[i].pipe, stages[i].pos)
    BY <1>0, <1>6 DEF DownstreamInv, CallsHaveTurn, Downstream
  <2>2. stages[i] \in Stage
    BY <1>0, DownstreamTop
  <2>3. stages[i].pipe \in Nat /\ stages[i].pos \in Nat
    BY <2>2, ConfigAssumption DEF Stage, Pipe
  <2> QED
    BY <1>0, <1>2, <2>1, <2>3 DEF Passed
<1>7. InOrder'
  <2>1. \A i \in 1..Len(stages) : stages[i].type = "DN" => Before(stages[i], new)
    BY <1>0, <1>1, <1>6, DownstreamTop DEF Before
  <2> QED
    BY <1>0, <1>1, <2>1, OrderKept, DownstreamTop DEF DownstreamInv
<1>8. CallsHaveTurn'
  <2> SUFFICES ASSUME NEW i \in 1..Len(stages'), stages'[i].type = "DN"
               PROVE  /\ HasTurn(stages'[i].pipe, stages'[i].pos)
                      /\ \/ stages'[i].pipe > Top.pipe
                         \/ stages'[i].pipe = Top.pipe /\ stages'[i].pos <= Top.pos
    BY <1>0, <1>2, <1>3 DEF CallsHaveTurn, Passed
  <2>1. CASE i \in 1..Len(stages)
    <3>1. stages'[i] = stages[i]
      BY <1>1, <2>1
    <3> QED
      BY <1>0, <1>6, <2>1, <3>1, DownstreamTop
  <2>2. CASE i = Len(stages) + 1
    BY <1>0, <1>1, <1>4, <2>2, DownstreamTop
  <2> QED
    BY <1>0, <1>1, <2>1, <2>2, DownstreamTop
<1>9. TurnsAreCalled'
  <2> SUFFICES ASSUME NEW p \in Pipe, NEW j \in Nat \ {0}, HasTurn(p, j),
                      p > Top.pipe \/ (p = Top.pipe /\ j <= Top.pos)
               PROVE  Called(p, j)'
    BY <1>0, <1>2, <1>3 DEF TurnsAreCalled, Passed
  <2>1. CASE p = Top.pipe /\ j = Top.pos
    <3>1. Len(stages) + 1 \in 1..Len(stages') /\ IsCall(new, p, j)
      BY <1>0, <1>1, <2>1, DownstreamTop DEF IsCall
    <3> QED
      BY <3>1 DEF Called, IsCall
  <2>2. CASE ~(p = Top.pipe /\ j = Top.pos)
    <3>1. Passed(p, j)
      BY <1>0, <1>2, <2>2, DownstreamTop DEF Passed
    <3>2. Called(p, j)
      BY <1>0, <3>1 DEF DownstreamInv, TurnsAreCalled, Downstream
    <3>3. PICK i \in 1..Len(stages) : IsCall(stages[i], p, j)
      BY <3>2 DEF Called
    <3>4. i \in 1..Len(stages') /\ stages'[i] = stages[i]
      BY <1>0, <1>1, DownstreamTop
    <3> QED
      BY <3>3, <3>4 DEF Called, IsCall
  <2> QED
    BY <2>1, <2>2
<1>10. Nested' /\ NotYetDownstream' /\ OnPath'
  BY <1>0 DEF DownstreamInv, Nested, NotYetDownstream, OnPath
<1> QED
  BY <1>5, <1>7, <1>8, <1>9, <1>10 DEF DownstreamInv

\* The response filter returns.
LEMMA ReturnKeepsOrder ==
  ASSUME Inv, DownstreamInv, ResponseFilterReturns
  PROVE  DownstreamInv'
<1>0. /\ stages' = Finished(stages) /\ stack' = Advanced /\ pc = "response" /\ pc' = "downstream"
      /\ UNCHANGED <<config, path>> /\ Top' = stack'[Len(stack')]
  BY DEF ResponseFilterReturns, Top, Last
<1>1. /\ Len(stack') = Len(stack) /\ \A i \in 1..Len(stack) : stack'[i].pipe = stack[i].pipe
      /\ stack'[Len(stack)].pos = Top.pos + 1
  BY <1>0, DownstreamTop, AdvancePipes
<1>2. Top'.pipe = Top.pipe /\ Top'.pos = Top.pos + 1
  <2>1. Len(stack) \in 1..Len(stack) /\ Top = stack[Len(stack)]
    BY <1>0, DownstreamTop
  <2> QED
    BY <1>0, <1>1, <2>1
<1>3. Reached' = Reached
  BY <1>0, <1>2, DownstreamTop DEF Reached
<1>4. /\ Len(stages') = Len(stages)
      /\ \A i \in 1..Len(stages) : /\ stages'[i].type = stages[i].type
                                   /\ stages'[i].pipe = stages[i].pipe
                                   /\ stages'[i].pos = stages[i].pos
  BY <1>0, DownstreamTop, FinishedPlaces
<1>5. /\ \A p, j : (HasTurn(p, j)' <=> HasTurn(p, j)) /\ (Called(p, j)' <=> Called(p, j))
      /\ InOrder'
  BY <1>0, <1>4, CallsKept DEF DownstreamInv
<1>6. \A p, j : Passed(p, j)' <=> Passed(p, j)
  BY <1>0, <1>2, <1>3 DEF Passed
<1>7. CallsHaveTurn'
  BY <1>0, <1>4, <1>5, <1>6 DEF DownstreamInv, CallsHaveTurn, Downstream
<1>8. TurnsAreCalled'
  BY <1>0, <1>5, <1>6 DEF DownstreamInv, TurnsAreCalled, Downstream
<1>9. ReachedHaveTurn'
  BY <1>0, <1>2, <1>3, <1>5 DEF DownstreamInv, ReachedHaveTurn
<1>10. Nested' /\ NotYetDownstream' /\ OnPath'
  BY <1>0, <1>1 DEF DownstreamInv, Nested, NotYetDownstream, OnPath
<1> QED
  BY <1>5, <1>7, <1>8, <1>9, <1>10 DEF DownstreamInv

\* At the end of the list of response filters, all that are due in this pipeline
\* and in those inside it have been called.
LEMMA ListDone ==
  ASSUME Inv, DownstreamInv, ReturnResponse
  PROVE  \A p \in Pipe : \A j \in Nat \ {0} : HasTurn(p, j) /\ p >= Top.pipe => Called(p, j)
<1> SUFFICES ASSUME NEW p \in Pipe, NEW j \in Nat \ {0}, HasTurn(p, j), p >= Top.pipe
             PROVE  Called(p, j)
  OBVIOUS
<1>0. pc = "downstream" /\ (More => Entry = Other) /\ Reached = Top.pos - 1
  BY DEF ReturnResponse, Reached
<1>1. p \in Nat
  BY ConfigAssumption DEF Pipe
<1>2. ASSUME p = Top.pipe, ~(j <= Top.pos - 1) PROVE FALSE
  <2>1. Top.pos \in 1..j
    BY <1>0, <1>2, DownstreamTop
  <2>2. config.downstream[p][Top.pos] = ResponseFilter
    BY <2>1 DEF HasTurn
  <2>3. Top.pos <= Len(config.downstream[p])
    <3>1. j <= Len(config.downstream[p])
      BY DEF HasTurn
    <3>2. config.downstream[p] \in Seq(DownstreamEntry)
      BY ConfigAssumption DEF Inv
    <3>3. Len(config.downstream[p]) \in Nat
      BY <3>2
    <3> QED
      BY <2>1, <3>1, <3>3
  <2>4. More /\ Entry = ResponseFilter
    BY <1>0, <1>2, <2>2, <2>3 DEF More, Entry, List
  <2> QED
    BY <1>0, <2>4, ConfigAssumption
<1>3. Passed(p, j)
  BY <1>0, <1>1, <1>2, DownstreamTop DEF Passed
<1> QED
  BY <1>0, <1>3 DEF DownstreamInv, TurnsAreCalled, Downstream

\* The response is returned to the pipeline around this one, or to the server.
LEMMA ReturnResponseKeepsOrder ==
  ASSUME Inv, DownstreamInv, ReturnResponse
  PROVE  DownstreamInv'
<1>0. pc = "downstream" /\ UNCHANGED <<config, stages, path>> /\ Reached = Top.pos - 1
  BY DEF ReturnResponse, Reached
<1>1. \A p, j : (HasTurn(p, j)' <=> HasTurn(p, j)) /\ (Called(p, j)' <=> Called(p, j))
  BY <1>0 DEF HasTurn, Called, IsCall
<1>2. InOrder'
  BY <1>0 DEF DownstreamInv, InOrder, Before
<1>3. ASSUME NEW p, NEW j, HasTurn(p, j) PROVE \E n \in 1..Len(path) : path[n] = p
  BY <1>3 DEF HasTurn
<1>4. CASE Len(stack) = 1
  <2>1. stack' = <<>> /\ pc' = "answer"
    BY <1>4 DEF ReturnResponse
  <2>2. TurnsAreCalled'
    <3> SUFFICES ASSUME NEW p \in Pipe, NEW j \in Nat \ {0}, HasTurn(p, j) PROVE Called(p, j)
      BY <1>1 DEF TurnsAreCalled
    <3>1. PICK n \in 1..Len(path) : path[n] = p
      BY <1>3
    <3>2. path[1] = Top.pipe /\ 1 \in 1..Len(path) /\ p \in Nat
      BY <1>0, <1>4, <3>1, DownstreamTop
    <3>3. p >= Top.pipe
      <4>1. CASE n = 1
        BY <3>1, <3>2, <4>1
      <4>2. CASE n # 1
        BY <1>0, <3>1, <3>2, <4>2, DownstreamTop DEF DownstreamInv, Nested
      <4> QED
        BY <4>1, <4>2
    <3> QED
      BY <3>3, ListDone
  <2>3. CallsHaveTurn'
    BY <1>0, <1>1, <2>1 DEF DownstreamInv, CallsHaveTurn, Downstream, Passed
  <2>4. Nested' /\ NotYetDownstream' /\ OnPath' /\ ReachedHaveTurn'
    BY <1>0, <2>1 DEF DownstreamInv, Nested, NotYetDownstream, OnPath, ReachedHaveTurn
  <2> QED
    BY <1>2, <2>2, <2>3, <2>4 DEF DownstreamInv
<1>5. CASE Len(stack) # 1
  <2> DEFINE f == [Front(stack)[Len(stack)-1] EXCEPT !.pos = 1]
  <2>0. /\ stack \in Seq(Frame) /\ Len(stack) > 0 /\ Len(stack) \in Nat /\ Len(path) \in Nat
        /\ Len(stack) <= Len(path)
    BY <1>0, DownstreamTop
  <2>1. /\ Len(stack)-1 \in 1..Len(Front(stack)) /\ Front(stack)[Len(stack)-1] \in Frame
        /\ Front(stack) \in Seq(Frame)
    BY <1>5, <2>0, PopFrame
  <2>2. f.pipe = Front(stack)[Len(stack)-1].pipe /\ f.pos = 1
    BY <2>1 DEF Frame
  <2>3. stack' = [Front(stack) EXCEPT ![Len(stack)-1] = f] /\ pc' = "downstream"
    BY <1>0, <1>5, <2>1 DEF ReturnResponse
  <2> HIDE DEF f
  <2>4. /\ Len(stack') = Len(stack)-1 /\ Len(stack') > 0
        /\ \A i \in 1..Len(stack') : stack'[i].pipe = stack[i].pipe
        /\ stack'[Len(stack')] = f
    BY <1>5, <2>0, <2>2, <2>3, PopPipes
  <2> DEFINE m == Len(stack)-1
  <2>5. Top' = f /\ m \in 1..Len(stack) /\ m \in 1..Len(path) /\ m + 1 = Len(stack)
        /\ Len(stack) \in 1..Len(path)
    BY <1>0, <2>4, DownstreamTop DEF Top, Last
  <2>6. Top'.pipe = path[m] /\ Top'.pos = 1 /\ Reached' = 0 /\ Top'.pipe \in Nat
    <3>1. Top'.pos = 1 /\ Reached' = 0
      BY <2>2, <2>3, <2>5 DEF Reached
    <3>2. f.pipe = stack[m].pipe
      BY <2>0, <2>4, <2>5
    <3>3. path[m] = stack[m].pipe /\ path[m] \in Nat
      BY <1>0, <2>5, DownstreamTop
    <3> QED
      BY <2>5, <3>1, <3>2, <3>3
  <2>7. Top'.pipe < Top.pipe
    BY <1>0, <2>5, <2>6, DownstreamTop DEF DownstreamInv, Nested
  <2>8. TurnsAreCalled'
    <3> SUFFICES ASSUME NEW p \in Pipe, NEW j \in Nat \ {0}, HasTurn(p, j), p > Top'.pipe
                 PROVE  Called(p, j)
      BY <1>1, <2>3, <2>6 DEF TurnsAreCalled, Passed
    <3>1. PICK n \in 1..Len(path) : path[n] = p
      BY <1>3
    <3>2. ~(n < m) /\ n # m
      <4>1. ASSUME n < m PROVE FALSE
        <5>1. path[n] < path[m]
          BY <2>5, <4>1 DEF DownstreamInv, Nested
        <5>2. path[n] \in Nat /\ path[m] \in Nat
          BY <1>0, <2>5, DownstreamTop
        <5> QED
          BY <2>6, <3>1, <5>1, <5>2
      <4>2. n # m
        BY <2>6, <3>1
      <4> QED
        BY <4>1, <4>2
    <3>3. n = Len(stack) \/ Len(stack) < n
      <4>1. n \in Nat /\ Len(stack) \in Nat /\ ~(n < Len(stack)-1) /\ n # Len(stack)-1
        BY <2>0, <3>2
      <4>2. \A a, b \in Nat : ~(a < b-1) /\ a # b-1 => a = b \/ b < a
        OBVIOUS
      <4> QED
        BY <4>1, <4>2
    <3>4. p >= Top.pipe
      <4>1. CASE n = Len(stack)
        BY <1>0, <3>1, <4>1, DownstreamTop
      <4>2. CASE Len(stack) < n
        <5>1. path[Len(stack)] < path[n]
          BY <2>5, <4>2 DEF DownstreamInv, Nested
        <5> QED
          BY <1>0, <3>1, <5>1, DownstreamTop
      <4> QED
        BY <3>3, <4>1, <4>2
    <3> QED
      BY <3>4, ListDone
  <2>9. CallsHaveTurn'
    <3> SUFFICES ASSUME NEW i \in 1..Len(stages), stages[i].type = "DN"
                 PROVE  HasTurn(stages[i].pipe, stages[i].pos) /\ stages[i].pipe > Top'.pipe
      BY <1>0, <1>1, <2>6 DEF CallsHaveTurn, Passed
    <3>1. HasTurn(stages[i].pipe, stages[i].pos) /\ Passed(stages[i].pipe, stages[i].pos)
      BY <1>0 DEF DownstreamInv, CallsHaveTurn, Downstream
    <3>2. stages[i].pipe \in Nat
      <4>1. stages[i] \in Stage
        BY <1>0, DownstreamTop
      <4> QED
        BY <4>1, ConfigAssumption DEF Stage, Pipe
    <3> QED
      BY <1>0, <2>6, <2>7, <3>1, <3>2, DownstreamTop DEF Passed
  <2>10. Nested'
    <3>1. \A i, k \in 1..Len(stack') : i < k => stack'[i].pipe < stack'[k].pipe
      BY <1>0, <2>4, StillNested, DownstreamTop DEF DownstreamInv
    <3> QED
      BY <1>0, <3>1 DEF DownstreamInv, Nested
  <2>11. NotYetDownstream' /\ OnPath' /\ ReachedHaveTurn'
    <3>1. OnPath'
      BY <1>0, <2>4, DownstreamTop DEF OnPath
    <3>2. NotYetDownstream' /\ ReachedHaveTurn'
      BY <2>3, <2>6 DEF NotYetDownstream, ReachedHaveTurn
    <3> QED
      BY <3>1, <3>2
  <2> QED
    BY <1>2, <2>8, <2>9, <2>10, <2>11 DEF DownstreamInv
<1> QED
  BY <1>4, <1>5

-----------------------------------------------------------------------------
\* What follows the pipelines calls no response filters.
LEMMA ServerKeepsOrder ==
  ASSUME Inv, DownstreamInv, Panic \/ Answer \/ Write
  PROVE  DownstreamInv'
<1>0. /\ stages \in Seq(Stage) /\ Len(stages) \in Nat /\ Len(stages) > 0 /\ UNCHANGED <<config, stack, path>>
      /\ pc' \in {"panicked", "write", "finished"} /\ InOrder /\ Nested
  BY DEF Inv, TypeOK, StagesMatchPC, Open, Closed, DownstreamInv, Panic, Answer, Write
<1>1. Nested' /\ NotYetDownstream' /\ OnPath' /\ CallsHaveTurn' /\ TurnsAreCalled' /\ ReachedHaveTurn'
  BY <1>0 DEF Nested, NotYetDownstream, OnPath, CallsHaveTurn, TurnsAreCalled, ReachedHaveTurn, Downstream
<1>2. CASE stages' = stages
  BY <1>0, <1>1, <1>2 DEF DownstreamInv, InOrder, Before
<1>3. CASE stages' = Finished(stages)
  <2>1. InOrder'
    BY <1>0, <1>3, FinishedPlaces, CallsKept
  <2> QED
    BY <1>1, <2>1 DEF DownstreamInv
<1>4. CASE Answer
  <2> DEFINE e == [type |-> "OH", pipe |-> 0, pos |-> 0, finished |-> 0]
  <2>1. stages' = Append(stages, e) /\ e.type # "DN"
    BY <1>4 DEF Answer
  <2> HIDE DEF e
  <2>2. /\ Len(stages') = Len(stages) + 1 /\ stages'[Len(stages) + 1] = e
        /\ \A i \in 1..Len(stages) : stages'[i] = stages[i]
    BY <1>0, <2>1
  <2>3. InOrder'
    BY <1>0, <2>1, <2>2, OrderKept
  <2> QED
    BY <1>1, <2>3 DEF DownstreamInv
<1> QED
  BY <1>2, <1>3, <1>4 DEF Panic, Write

LEMMA DownstreamInit == Init => DownstreamInv
<1> SUFFICES ASSUME Init PROVE DownstreamInv
  OBVIOUS
<1>1. /\ Len(stack) = 1 /\ Len(path) = 0 /\ Len(stages) = 1 /\ stages[1].type = "OH"
      /\ path = <<>> /\ pc = "upstream"
  BY DEF Init
<1>2. Nested
  BY <1>1 DEF Nested
<1>3. NotYetDownstream /\ InOrder
  BY <1>1 DEF NotYetDownstream, InOrder
<1>4. OnPath /\ CallsHaveTurn /\ TurnsAreCalled /\ ReachedHaveTurn
  BY <1>1 DEF OnPath, CallsHaveTurn, TurnsAreCalled, ReachedHaveTurn, Downstream
<1> QED
  BY <1>2, <1>3, <1>4 DEF DownstreamInv

\* DownstreamInv holds for any number of pipelines and any contents of their lists.
THEOREM DownstreamInvariance == Spec => []DownstreamInv
<1>1. Inv /\ DownstreamInv /\ [Next]_vars => DownstreamInv'
  <2> SUFFICES ASSUME Inv, DownstreamInv, [Next]_vars PROVE DownstreamInv'
    OBVIOUS
  <2>1. CASE Next
    BY <2>1, UpstreamCalls, ResponseStartsDownstream, NoResponseReturns, CallKeepsOrder,
       ReturnKeepsOrder, ReturnResponseKeepsOrder, ServerKeepsOrder DEF Next
  <2>2. CASE UNCHANGED vars
    BY <2>2 DEF vars, DownstreamInv, Nested, NotYetDownstream, OnPath, CallsHaveTurn, TurnsAreCalled,
                ReachedHaveTurn, InOrder, Downstream, HasTurn, Called, Passed, Reached, Top, Last
  <2> QED
    BY <2>1, <2>2
<1> QED
  BY <1>1, DownstreamInit, Invariance, PTL DEF Spec

\* A filter's turn comes exactly if it is to be called and down does not break
\* on an entry in front of it.
LEMMA TurnIsDue ==
  ASSUME Inv, NEW p \in Pipe, NEW j \in Nat \ {0}
  PROVE  HasTurn(p, j) <=> Due(p, j) /\ ~CutOff(p, j)
<1>1. config.downstream[p] \in Seq(DownstreamEntry)
  BY ConfigAssumption DEF Inv
<1>2. Len(config.downstream[p]) \in Nat
  BY <1>1
<1>3. \A i : i \in 1..j <=> i \in 1..j-1 \/ i = j
  OBVIOUS
<1> QED
  BY <1>2, <1>3 DEF HasTurn, Due, CutOff

\* A response has passed the response filters of the pipelines around the filter
\* that made it and no other, each once, from the inside outwards; only those
\* behind an entry that is no ResponseFilter may be left out.
THEOREM InsideOut == Spec => []DownstreamInsideOut
<1>1. Inv /\ DownstreamInv => DownstreamInsideOut
  <2> SUFFICES ASSUME Inv, DownstreamInv, pc = "answer" PROVE DownstreamInsideOut
    BY DEF DownstreamInsideOut
  <2>1. Downstream /\ \A p, j : Passed(p, j)
    BY DEF Downstream, Passed
  <2>2. ASSUME NEW i \in 1..Len(stages), stages[i].type = "DN"
        PROVE  Due(stages[i].pipe, stages[i].pos)
    <3>1. HasTurn(stages[i].pipe, stages[i].pos)
      BY <2>1, <2>2 DEF DownstreamInv, CallsHaveTurn
    <3>2. stages[i] \in Stage
      BY DEF Inv, TypeOK
    <3>3. stages[i].pipe \in Pipe /\ stages[i].pos \in Nat \ {0}
      BY <3>1, <3>2 DEF Stage, HasTurn
    <3> QED
      BY <3>1, <3>3, TurnIsDue
  <2>3. ASSUME NEW p \in Pipe, NEW j \in 1..Len(config.downstream[p]), Due(p, j), ~CutOff(p, j)
        PROVE  Called(p, j)
    <3>1. config.downstream[p] \in Seq(DownstreamEntry)
      BY ConfigAssumption DEF Inv
    <3>2. j \in Nat \ {0}
      BY <3>1
    <3>3. HasTurn(p, j)
      BY <2>3, <3>2, TurnIsDue
    <3> QED
      BY <2>1, <3>2, <3>3 DEF DownstreamInv, TurnsAreCalled
  <2> QED
    BY <2>2, <2>3 DEF DownstreamInsideOut, DownstreamInv
<1> QED
  BY <1>1, Invariance, DownstreamInvariance, PTL

\* No response filter of the pipelines around the one that responded is left out.
AllResponseFilters ==
  pc = "answer" =>
    \A p \in Pipe : \A j \in 1..Len(config.downstream[p]) : Due(p, j) => Called(p, j)

\* Where the Downstream lists hold response filters only, a response passes all of
\* them, as Pipeline's comment says: entries that are none are the only case in
\* which the code leaves one out.
THEOREM AllFilters ==
  ASSUME \A c \in Configs : \A p \in Pipe : \A j \in 1..Len(c.downstream[p]) :
           c.downstream[p][j] = ResponseFilter
  PROVE  Spec => []AllResponseFilters
<1>1. Inv /\ DownstreamInsideOut => AllResponseFilters
  <2> SUFFICES ASSUME Inv, DownstreamInsideOut, pc = "answer",
                      NEW p \in Pipe, NEW j \in 1..Len(config.downstream[p]), Due(p, j)
               PROVE  Called(p, j)
    BY DEF AllResponseFilters
  <2>1. config \in Configs
    BY DEF Inv
  <2>2. Len(config.downstream[p]) \in Nat
    BY <2>1, ConfigAssumption
  <2>3. ~CutOff(p, j)
    BY <2>1, <2>2 DEF CutOff
  <2> QED
    BY <2>3 DEF DownstreamInsideOut
<1> QED
  BY <1>1, Invariance, InsideOut, PTL
=============================================================================
