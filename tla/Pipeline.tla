------------------------------ MODULE Pipeline ------------------------------
(***************************************************************************)
(* One request on its way through a falcore.Pipeline: request filters,     *)
(* routers and nested pipelines upstream, response filters downstream, and *)
(* what the server does around them (handlerExecutePipeline with its 404,  *)
(* handlerWriteResponse), with the record of pipeline stages in Request.   *)
(*                                                                         *)
(* A pipeline is executed recursively, so the state has a stack of frames. *)
(* Filters and routers are the application's: each call may return         *)
(* anything of its type or panic.  Of a response only its author is kept.  *)
(***************************************************************************)
EXTENDS Integers, Sequences, SequencesExt

CONSTANTS
  NPipes,   \* pipelines: Pipe 0 is the server's, nesting goes upwards
  Configs,  \* the contents of their lists: [upstream, downstream : Pipe -> lists]
  RequestFilter, Router, ResponseFilter,  \* the kinds of entries, besides pipelines
  Other     \* an entry that is no filter for its list: they are lists of interface{}

Pipe == 0 .. NPipes-1

\* A pipeline inside itself would recurse for ever, so a list or a router of
\* pipeline p leads to later pipelines only.
Selectable(p)    == {RequestFilter} \cup (p+1 .. NPipes-1)
UpstreamEntry(p) == Selectable(p) \cup {Router, Other}
DownstreamEntry  == {ResponseFilter, Other}

ASSUME ConfigAssumption ==
  /\ NPipes \in Nat \ {0}
  /\ Pipe \cap {RequestFilter, Router, ResponseFilter, Other} = {}
  /\ Router # RequestFilter /\ Other \notin {RequestFilter, Router, ResponseFilter}
  /\ \A c \in Configs : \A p \in Pipe :
       /\ c.upstream[p] \in Seq(UpstreamEntry(p))
       /\ c.downstream[p] \in Seq(DownstreamEntry)

VARIABLES
  config,  \* the lists; they do not change while requests are served
  stack,   \* frames of execute: [pipe, pos], pos an index of the current list
  pc,      \* what the goroutine is doing
  res,     \* the response: None, NotFound or the number of its filter's stage
  stages,  \* PipelineStageStats; CurrentStage is always the last one
  path     \* history: the pipelines that were being executed when res was returned

vars == <<config, stack, pc, res, stages, path>>

None     == -1
NotFound == 0

\* "upstream" and "downstream" are between two entries of the list; "router",
\* "filter" and "response" are in a call of the application's code.
PC == {"upstream", "router", "filter", "downstream", "response",
       "answer", "write", "finished", "panicked"}

\* A call of execute, and an element of PipelineStageStats: its type, whose
\* entry it belongs to, and how often it has been finished.
Frame == [pipe : Pipe, pos : Nat \ {0}]
Stage == [type : {"OH", "RT", "UP", "DN"}, pipe : Pipe, pos : Nat, finished : Nat]

Top == Last(stack)

\* The entry that is to be processed next, if the list goes on.
List == IF pc = "upstream" THEN config.upstream[Top.pipe] ELSE config.downstream[Top.pipe]
More  == Top.pos <= Len(List)
Entry == List[Top.pos]

Advanced == [stack EXCEPT ![Len(stack)].pos = @ + 1]

-----------------------------------------------------------------------------
(* Request's stages.                                                       *)

\* startPipelineStage, with the type that its caller sets.
Started(s, type) ==
  Append(s, [type |-> type, pipe |-> Top.pipe, pos |-> Top.pos, finished |-> 0])

\* finishPipelineStage works on CurrentStage, whichever that is.
Finished(s) == [s EXCEPT ![Len(s)].finished = @ + 1]

-----------------------------------------------------------------------------
\* NewRequest, and the completed stage "server.Init".
Init ==
  /\ config \in Configs
  /\ stack = <<[pipe |-> 0, pos |-> 1]>>
  /\ pc = "upstream"
  /\ res = None
  /\ stages = <<[type |-> "OH", pipe |-> 0, pos |-> 0, finished |-> 1]>>
  /\ path = <<>>

-----------------------------------------------------------------------------
(* Upstream.                                                               *)

\* An entry that is neither a Router nor a RequestFilter is logged and skipped.
SkipEntry ==
  /\ pc = "upstream" /\ More /\ Entry = Other
  /\ stack' = Advanced
  /\ UNCHANGED <<config, pc, res, stages, path>>

\* execFilter, when s are the stages so far: a nested pipeline is executed
\* without a stage of its own, every other filter gets one.
ExecFilterTrackingPipelines(filter, s) ==
  /\ stages' = Started(s, "UP")
  /\ IF filter = RequestFilter
       THEN pc' = "filter" /\ UNCHANGED stack
       ELSE pc' = "upstream" /\ stack' = Append(stack, [pipe |-> filter, pos |-> 1])

ExecFilter(filter, s) ==
  IF filter = RequestFilter
    THEN /\ stages' = Started(s, "UP")
         /\ pc' = "filter"
         /\ UNCHANGED stack
    ELSE /\ stages' = s
         /\ pc' = "upstream"
         /\ stack' = Append(stack, [pipe |-> filter, pos |-> 1])

CallFilter ==
  /\ pc = "upstream" /\ More /\ Entry \notin {Other, Router}
  /\ ExecFilter(Entry, stages)
  /\ UNCHANGED <<config, res, path>>

CallRouter ==
  /\ pc = "upstream" /\ More /\ Entry = Router
  /\ stages' = Started(stages, "RT")
  /\ pc' = "router"
  /\ UNCHANGED <<config, stack, res, path>>

\* SelectPipeline returns nil, or the filter to be executed in its place.
SelectPipeline ==
  /\ pc = "router"
  /\ \/ /\ stages' = Finished(stages)
        /\ stack' = Advanced
        /\ pc' = "upstream"
     \/ \E pipe \in Selectable(Top.pipe) : ExecFilter(pipe, Finished(stages))
  /\ UNCHANGED <<config, res, path>>

\* The list goes on after a nil; a response ends it, and the downstream starts.
FilterReturnsNil ==
  /\ pc = "filter"
  /\ stages' = Finished(stages)
  /\ stack' = Advanced
  /\ pc' = "upstream"
  /\ UNCHANGED <<config, res, path>>

\* The response does not end the loop over the list (a break that leaves the
\* switch only).
RespondGoingOn ==
  /\ pc = "filter"
  /\ stages' = Finished(stages)
  /\ res' = Len(stages)
  /\ path' = [i \in 1..Len(stack) |-> stack[i].pipe]
  /\ stack' = IF Top.pos < Len(config.upstream[Top.pipe])
                THEN Advanced ELSE [stack EXCEPT ![Len(stack)].pos = 1]
  /\ pc' = IF Top.pos < Len(config.upstream[Top.pipe]) THEN "upstream" ELSE "downstream"
  /\ UNCHANGED config

FilterReturnsResponse ==
  /\ pc = "filter"
  /\ stages' = Finished(stages)
  /\ res' = Len(stages)
  /\ path' = [i \in 1..Len(stack) |-> stack[i].pipe]
  /\ stack' = [stack EXCEPT ![Len(stack)].pos = 1]
  /\ pc' = "downstream"
  /\ UNCHANGED config

\* The list is exhausted: nil is returned to the pipeline around this one.
NoResponse ==
  /\ pc = "upstream" /\ ~More
  /\ IF Len(stack) = 1
       THEN stack' = <<>> /\ pc' = "answer"
       ELSE /\ stack' = [Front(stack) EXCEPT ![Len(stack)-1].pos = @ + 1]
            /\ UNCHANGED pc
  /\ UNCHANGED <<config, res, stages, path>>

-----------------------------------------------------------------------------
(* Downstream.                                                             *)

CallResponseFilter ==
  /\ pc = "downstream" /\ More /\ Entry = ResponseFilter
  /\ stages' = Started(stages, "DN")
  /\ pc' = "response"
  /\ UNCHANGED <<config, stack, res, path>>

ResponseFilterReturns ==
  /\ pc = "response"
  /\ stages' = Finished(stages)
  /\ stack' = Advanced
  /\ pc' = "downstream"
  /\ UNCHANGED <<config, res, path>>

\* The end of the list, or an entry that is no ResponseFilter, on which down
\* breaks: the response is returned to the pipeline around this one.
ReturnToServer ==
  /\ pc = "downstream" /\ (More => Entry = Other)
  /\ stack' = <<>>
  /\ pc' = "answer"
  /\ UNCHANGED <<config, res, stages, path>>

ReturnResponse ==
  /\ pc = "downstream" /\ (More => Entry = Other)
  /\ IF Len(stack) = 1
       THEN stack' = <<>> /\ pc' = "answer"
       ELSE /\ stack' = [Front(stack) EXCEPT ![Len(stack)-1].pos = 1]
            /\ UNCHANGED pc
  /\ UNCHANGED <<config, res, stages, path>>

\* Application code panics.  Only execFilter's finishPipelineStage is deferred.
Panic ==
  /\ pc \in {"router", "filter", "response"}
  /\ stages' = IF pc = "filter" THEN Finished(stages) ELSE stages
  /\ pc' = "panicked"
  /\ UNCHANGED <<config, stack, res, path>>

-----------------------------------------------------------------------------
(* The server.                                                             *)

\* handlerExecutePipeline: without a response the answer is a 404.
\* handlerWriteResponse starts its stage.
Answer ==
  /\ pc = "answer"
  /\ res' = IF res = None THEN NotFound ELSE res
  /\ stages' = Append(stages, [type |-> "OH", pipe |-> 0, pos |-> 0, finished |-> 0])
  /\ pc' = "write"
  /\ UNCHANGED <<config, stack, path>>

\* The response is written, the stage finished, CompletionCallback called.
Write ==
  /\ pc = "write"
  /\ stages' = Finished(stages)
  /\ pc' = "finished"
  /\ UNCHANGED <<config, stack, res, path>>

Next ==
  \/ SkipEntry \/ CallFilter \/ CallRouter \/ SelectPipeline
  \/ FilterReturnsNil \/ FilterReturnsResponse \/ NoResponse
  \/ CallResponseFilter \/ ResponseFilterReturns \/ ReturnResponse
  \/ Panic \/ Answer \/ Write

Spec == Init /\ [][Next]_vars

-----------------------------------------------------------------------------
(* Properties.                                                             *)

\* The type of every variable but config, which never changes.
TypeOK ==
  /\ stack \in Seq(Frame)
  /\ pc \in PC
  /\ res \in {None} \cup Nat
  /\ stages \in Seq(Stage)
  /\ path \in Seq(Pipe)

\* Stages do not overlap, although pipelines nest and finishPipelineStage takes
\* whatever is current: each is finished once, before the next one starts.  The
\* statistics and the signature are built on this.
StagesDoNotOverlap ==
  /\ \A i \in 1 .. Len(stages)-1 : stages[i].finished = 1
  /\ \/ pc \in {"router", "filter", "response", "write"} /\ Last(stages).finished = 0
     \/ pc \in {"upstream", "downstream", "answer", "finished"} /\ Last(stages).finished = 1
     \/ pc = "panicked"

\* The first response is the answer: no router and no request filter of any
\* enclosing pipeline runs after it, nor does anything replace it.
FirstResponseIsFinal ==
  [][res # None =>
       /\ res' = res
       /\ Len(stages') > Len(stages) => Last(stages').type \in {"DN", "OH"}]_vars

\* A call of the response filter that is the j-th entry of pipeline p's list.
IsCall(stage, p, j) == stage.type = "DN" /\ stage.pipe = p /\ stage.pos = j

Called(p, j) == \E i \in 1..Len(stages) : IsCall(stages[i], p, j)

\* It should be called: p is around the filter that responded, and its j-th entry
\* is a response filter.
Due(p, j) ==
  /\ \E n \in 1..Len(path) : path[n] = p
  /\ j \in 1..Len(config.downstream[p])
  /\ config.downstream[p][j] = ResponseFilter

\* An entry in front of the j-th is no ResponseFilter: down breaks there (TODO).
CutOff(p, j) == \E i \in 1..j-1 : config.downstream[p][i] # ResponseFilter

\* The inner pipeline, which has the greater number, comes first, and in one
\* pipeline the order of its list counts.
Before(s, t) == s.pipe > t.pipe \/ (s.pipe = t.pipe /\ s.pos < t.pos)

InOrder ==
  \A i, k \in 1..Len(stages) :
    i < k /\ stages[i].type = "DN" /\ stages[k].type = "DN" => Before(stages[i], stages[k])

\* "FilterResponse is called for ALL ResponseFilters in the Downstream list, in
\* order" (Pipeline's comment), but for those behind an entry that is none, where
\* the code stops short of it: a response has passed the response filters of the
\* pipelines around the filter that made it, each once and from the inside
\* outwards, and those of no pipeline that has returned without a response.
DownstreamInsideOut ==
  pc = "answer" =>
    /\ \A i \in 1..Len(stages) :
         stages[i].type = "DN" => Due(stages[i].pipe, stages[i].pos)
    /\ \A p \in Pipe : \A j \in 1..Len(config.downstream[p]) :
         Due(p, j) /\ ~CutOff(p, j) => Called(p, j)
    /\ InOrder
=============================================================================
