------------------------------- MODULE Traces -------------------------------
(***************************************************************************)
(* The spans of concurrent pipelines (src/observability/): the middleware  *)
(* that the orchestrator and the agents share, and the tracer behind it:   *)
(* AitopTracer, alone or in a CompositeTracer beside other backends, and   *)
(* either of them in a SamplingTracer (create_tracer_from_config).  A step *)
(* ends where a pipeline awaits a model call.                              *)
(***************************************************************************)
EXTENDS Naturals, Sequences, SequencesExt

CONSTANTS
  Traced,        \* the pipelines
  MaxAgentSpans, \* bound on the model calls of a pipeline
  BatchSize,     \* aitop_batch_size
  Wrappings      \* whether the tracer samples, is composite, and has an invalid URL

ASSUME TracesAssumption ==
  /\ MaxAgentSpans \in Nat /\ BatchSize \in Nat \ {0} /\ "none" \notin Traced
  /\ Wrappings \subseteq [samples : BOOLEAN, composite : BOOLEAN, broken : BOOLEAN]

VARIABLES
  wrapped,     \* what the tracer is
  pipeline,    \* what each pipeline does
  agentSpans,  \* the agent spans each pipeline has started
  begun,       \* the pipelines in the order they began: the last is
               \* _current_pipeline_span
  traceOf,     \* SpanContext.trace_id of each span started
  sampled,     \* _sampled_traces
  openSpans,   \* AitopTracer._spans: its spans, under ids of its own if composite
  spanBuffer,  \* _span_buffer
  metricsWait, \* whether _metric_buffer holds any
  delivered, dropped, \* history: the spans sent, and those a failed send has lost
  ended,       \* history: the spans end_span() was called for
  unended,     \* history: the spans that were left without it
  wholly       \* history: the traces that were sampled when they began

traceVars == <<wrapped, pipeline, agentSpans, begun, traceOf, sampled, openSpans,
               spanBuffer, metricsWait, delivered, dropped, ended, unended, wholly>>
bufferVars == <<spanBuffer, metricsWait, delivered, dropped>>

\* Span 0 of a pipeline is its root, the others are its agents'.
Spans == Traced \X (0 .. MaxAgentSpans)
Root(p) == <<p, 0>>
AgentSpan(p) == <<p, agentSpans[p]>>

TracesTypeOK ==
  /\ wrapped \in Wrappings
  /\ pipeline \in [Traced -> {"idle", "runs", "calls", "caught", "returned", "raised"}]
  /\ agentSpans \in [Traced -> 0 .. MaxAgentSpans]
  /\ begun \in Seq(Traced) /\ IsInjective(begun)
  /\ traceOf \in [Spans -> Traced \cup {"none"}]
  /\ sampled \subseteq Traced /\ wholly \subseteq Traced
  /\ openSpans \subseteq Spans \X {"own", "other"}
  /\ spanBuffer \in Seq(Spans) /\ metricsWait \in BOOLEAN
  /\ \A spans \in {delivered, dropped, ended, unended} : spans \subseteq Spans

\* create_tracer_from_config().
TracerFromConfig == wrapped \in Wrappings

TracesInit ==
  /\ TracerFromConfig
  /\ pipeline = [p \in Traced |-> "idle"] /\ agentSpans = [p \in Traced |-> 0]
  /\ begun = <<>> /\ traceOf = [s \in Spans |-> "none"]
  /\ sampled = {} /\ openSpans = {}
  /\ spanBuffer = <<>> /\ metricsWait = FALSE /\ delivered = {} /\ dropped = {}
  /\ ended = {} /\ unended = {} /\ wholly = {}
-----------------------------------------------------------------------------
(***************************************************************************)
(* The tracer.                                                             *)
(***************************************************************************)
\* _should_sample(): rolled again in every call until it once says yes.
Sample(t, yes) ==
  IF ~wrapped.samples \/ t \in sampled
  THEN yes /\ sampled' = sampled
  ELSE sampled' = IF yes THEN sampled \cup {t} ELSE sampled

\* Each backend of a composite makes a span of its own and is told to end another's.
OpensAs == IF wrapped.composite THEN "other" ELSE "own"

\* Mutant of Flush: what could not be sent stays for the next batch.
Flush_keeps(spans, metrics, ok) ==
  /\ spanBuffer' = IF ok THEN <<>> ELSE spans
  /\ metricsWait' = (metrics /\ ~ok)
  /\ delivered' = IF ok THEN delivered \cup Range(spans) ELSE delivered
  /\ UNCHANGED dropped

\* flush() of AitopTracer.  The buffer is emptied after a refusal and a broken
\* connection as well as after a success; an invalid URL is no HTTPError and leaves it.
Flush(spans, metrics, ok) ==
  IF wrapped.broken /\ (spans # <<>> \/ metrics)
  THEN /\ spanBuffer' = spans /\ metricsWait' = metrics
       /\ UNCHANGED <<delivered, dropped>>
  ELSE /\ spanBuffer' = <<>> /\ metricsWait' = FALSE
       /\ delivered' = IF ok THEN delivered \cup Range(spans) ELSE delivered
       /\ dropped' = IF ok THEN dropped ELSE dropped \cup Range(spans)

\* end_span() with the metrics recorded before it; sampled or not.
EndSpan(s, metrics, yes, ok) ==
  /\ ended' = ended \cup {s}
  /\ Sample(traceOf[s], yes)
  /\ IF ~yes THEN UNCHANGED <<openSpans, bufferVars>>
     ELSE /\ openSpans' = openSpans \ {<<s, "own">>}
          /\ LET spans == Append(spanBuffer, s) IN
             IF Len(spans) >= BatchSize THEN Flush(spans, (metricsWait \/ metrics), ok)
             ELSE /\ spanBuffer' = spans /\ metricsWait' = (metricsWait \/ metrics)
                  /\ UNCHANGED <<delivered, dropped>>

\* The exception of a flush reaches the caller, except through a composite.
EndRaises(yes) ==
  yes /\ wrapped.broken /\ ~wrapped.composite /\ Len(spanBuffer) + 1 >= BatchSize
-----------------------------------------------------------------------------
(***************************************************************************)
(* Pipelines, as process_handoff and BaseAgent.execute trace them.         *)
(***************************************************************************)
PipelineGoes(p, to) == pipeline' = [pipeline EXCEPT ![p] = to]

\* process_handoff() catches an Exception and ends its span before it awaits anything.
NobodyCatches == \A p \in Traced : pipeline[p] # "caught"

\* A span's context is new for a root and a child of the root's otherwise.
TraceStarted(s, t) == traceOf' = [traceOf EXCEPT ![s] = t]

\* start_trace() is forwarded whether the trace is sampled or not.
StartPipelineTrace(p, yes) ==
  /\ pipeline[p] = "idle" /\ PipelineGoes(p, "runs")
  /\ begun' = Append(begun, p)
  /\ TraceStarted(Root(p), p)
  /\ Sample(p, yes)
  /\ wholly' = IF yes THEN wholly \cup {p} ELSE wholly
  /\ openSpans' = openSpans \cup {<<Root(p), OpensAs>>}
  /\ UNCHANGED <<wrapped, agentSpans, bufferVars, ended, unended>>

\* An agent's span is a child of whatever pipeline span is current.
StartAgentSpan(p, yes) ==
  LET s == <<p, agentSpans[p] + 1>> IN
  /\ pipeline[p] = "runs" /\ agentSpans[p] < MaxAgentSpans
  /\ PipelineGoes(p, "calls")
  /\ agentSpans' = [agentSpans EXCEPT ![p] = @ + 1]
  /\ TraceStarted(s, Last(begun))
  /\ Sample(Last(begun), yes)
  /\ openSpans' = IF yes THEN openSpans \cup {<<s, OpensAs>>} ELSE openSpans
  /\ UNCHANGED <<wrapped, begun, bufferVars, ended, unended, wholly>>

\* record_llm_call() and end_span(): sampled once for both unless only the second roll
\* says yes.  What they raise is caught by process_handoff().
AgentReturns(p, recorded, yes, ok) ==
  /\ pipeline[p] = "calls"
  /\ recorded => yes
  /\ traceOf[AgentSpan(p)] \in sampled \/ ~wrapped.samples => recorded
  /\ EndSpan(AgentSpan(p), recorded, yes, ok)
  /\ PipelineGoes(p, IF EndRaises(yes) THEN "caught" ELSE "runs")
  /\ UNCHANGED <<wrapped, agentSpans, begun, traceOf, unended, wholly>>

\* The model call raises: the agent's span ends, and the pipeline's once it is caught.
AgentRaises(p, yes, ok) ==
  /\ pipeline[p] = "calls" /\ PipelineGoes(p, "caught")
  /\ EndSpan(AgentSpan(p), FALSE, yes, ok)
  /\ UNCHANGED <<wrapped, agentSpans, begun, traceOf, unended, wholly>>

LeavesOpen(spans) ==
  /\ unended' = unended \cup spans
  /\ UNCHANGED <<wrapped, agentSpans, begun, traceOf, sampled, openSpans, bufferVars,
                 ended, wholly>>

\* The output is rejected: the agent's span does not end, the pipeline's does.
AgentRejected(p) ==
  /\ pipeline[p] = "calls" /\ PipelineGoes(p, "caught")
  /\ LeavesOpen({AgentSpan(p)})

\* The task is cancelled in the model call, which is no Exception: neither span ends.
AgentAbandoned(p) ==
  /\ pipeline[p] = "calls" /\ PipelineGoes(p, "raised")
  /\ LeavesOpen({Root(p), AgentSpan(p)})

\* It is cancelled elsewhere, or the commit of AUTO_PASS raises, outside the try.
PipelineAbandoned(p) ==
  /\ pipeline[p] = "runs" /\ PipelineGoes(p, "raised")
  /\ LeavesOpen({Root(p)})

\* _end_pipeline_span(), of a result or of what was caught.
EndPipelineTrace(p, yes, ok) ==
  /\ pipeline[p] \in {"runs", "caught"}
  /\ EndSpan(Root(p), FALSE, yes, ok)
  /\ PipelineGoes(p, IF EndRaises(yes) THEN "raised" ELSE "returned")
  /\ UNCHANGED <<wrapped, agentSpans, begun, traceOf, unended, wholly>>

\* flush() by whoever embeds the framework: nothing under src/ calls it.
FlushAll(ok) ==
  /\ spanBuffer # <<>> \/ metricsWait
  /\ Flush(spanBuffer, metricsWait, ok)
  /\ UNCHANGED <<wrapped, pipeline, agentSpans, begun, traceOf, sampled, openSpans, ended,
                 unended, wholly>>

\* shutdown(): the sampled traces are forgotten before the rest is sent.  If that
\* raises, the open spans stay.
Shutdown(ok) ==
  /\ openSpans # {}
  /\ Flush(spanBuffer, metricsWait, ok)
  /\ sampled' = {} /\ wholly' = {}
  /\ openSpans' = IF wrapped.broken /\ (spanBuffer # <<>> \/ metricsWait)
                  THEN openSpans ELSE {}
  /\ UNCHANGED <<wrapped, pipeline, agentSpans, begun, traceOf, ended, unended>>

TracesNext ==
  \/ \E p \in Traced, yes, ok \in BOOLEAN :
       /\ NobodyCatches \/ pipeline[p] = "caught"
       /\ \/ StartPipelineTrace(p, yes) \/ StartAgentSpan(p, yes)
          \/ \E recorded \in BOOLEAN : AgentReturns(p, recorded, yes, ok)
          \/ AgentRaises(p, yes, ok) \/ AgentRejected(p) \/ AgentAbandoned(p)
          \/ PipelineAbandoned(p) \/ EndPipelineTrace(p, yes, ok)
  \/ NobodyCatches /\ \E ok \in BOOLEAN : FlushAll(ok) \/ Shutdown(ok)

TracesSpec == TracesInit /\ [][TracesNext]_traceVars
-----------------------------------------------------------------------------
\* A span is buffered once, delivered once or dropped by a failed send, and only after
\* it ended; the buffer stays below a batch, unless the URL is invalid: then nothing
\* ever leaves it (aitop_backend.py:205).
EachSpanOnce ==
  /\ IsInjective(spanBuffer)
  /\ Range(spanBuffer) \cap (delivered \cup dropped) = {} /\ delivered \cap dropped = {}
  /\ Range(spanBuffer) \cup delivered \cup dropped \subseteq ended
  /\ IF wrapped.broken THEN delivered \cup dropped = {} ELSE Len(spanBuffer) < BatchSize

\* Every span that ended in a trace sampled from its beginning is kept, and without
\* sampling every span that ended (tracer.py:139).
SampledTracesAreWhole ==
  \A s \in ended :
    traceOf[s] \in wholly => s \in Range(spanBuffer) \cup delivered \cup dropped

\* An agent's span belongs to the trace of its own pipeline, or of one that began after
\* it: the current span is shared (orchestrator.py:123).
SpansFollowTheCurrent ==
  \A p \in Traced, i \in 1 .. MaxAgentSpans :
    LET t == traceOf[<<p, i>>] IN
    t # "none" => \E j, k \in DOMAIN begun : begun[j] = p /\ begun[k] = t /\ j <= k

\* The tracer holds on to the spans of pipelines and calls that are under way, to those
\* left without an end, and to roots that were not sampled when they ended, or what a
\* shutdown() that raised left; as part of a composite to all of them (tracer.py:88).
\* Who gets a result of process_handoff() has the pipeline's span ended, whatever the
\* agents raised (orchestrator.py:164).
OpenSpansAreAccountedFor ==
  /\ \A o \in openSpans :
       IF wrapped.composite THEN o[2] = "other"
       ELSE o[1] \in ended =>
              /\ o[1][2] = 0 \/ wrapped.broken
              /\ o[1] \notin Range(spanBuffer) \cup delivered \cup dropped
  /\ \A p \in Traced :
       /\ pipeline[p] = "returned" => Root(p) \in ended
       /\ pipeline[p] = "raised" => Root(p) \in ended \cup unended
=============================================================================
