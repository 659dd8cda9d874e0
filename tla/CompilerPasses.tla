---------------------------- MODULE CompilerPasses ----------------------------
(***************************************************************************)
(* bitstream-opt working on a recovered pipeline: the passes after         *)
(* recovery, each followed by the verifiers, in the order of the runner    *)
(* (scripts/run-direct-index.sh) with any of them run again, or in any     *)
(* order at all, as the command line allows.                               *)
(***************************************************************************)
EXTENDS SpeculativeFusion

CONSTANTS
  Sources,      \* the pipelines that come in
  Orders        \* a subset of BOOLEAN, the values of in_order

ASSUME SourcesAssumption == \A p \in Sources : IsPipeline(p)
ASSUME OrdersAssumption == Orders \subseteq BOOLEAN

VARIABLES
  source,       \* history: the pipeline before any pass
  in_order,     \* a pass waits for the passes that precede it in the runner
  pipeline, analysis,
  proved,       \* history: the inference has run on this analysis
  last,         \* history: the pass that ran last
  outcome       \* "ok", or why bitstream-opt gave up: "failed" or "invalid"

vars == <<source, in_order, pipeline, analysis, proved, last, outcome>>

Init ==
  /\ source \in Sources /\ in_order \in Orders
  /\ ModuleVerifies(source, NoAnalysis)
  /\ pipeline = source /\ analysis = NoAnalysis
  /\ proved = FALSE /\ last = "none" /\ outcome = "ok"

\* A pass ends with this module, and the verifiers run.
Ends(pass, new_pipeline, new_analysis) ==
  /\ outcome = "ok"
  /\ pipeline' = new_pipeline /\ analysis' = new_analysis /\ last' = pass
  /\ outcome' = IF ModuleVerifies(new_pipeline, new_analysis) THEN "ok" ELSE "invalid"
  /\ UNCHANGED <<source, in_order>>

BitstreamDependenceAnalysis ==
  LET repaired == assignAccessIds(pipeline)
  IN  IF RelationFailure(repaired)
      THEN /\ outcome = "ok" /\ outcome' = "failed"
           /\ pipeline' = repaired /\ analysis' = NoAnalysis
           /\ proved' = FALSE /\ last' = "dependence-analysis"
           /\ UNCHANGED <<source, in_order>>
      ELSE /\ Ends("dependence-analysis", repaired, RawDependencies(repaired))
           /\ proved' = FALSE

BitstreamDependencyClassification ==
  /\ analysis.exists
  /\ Ends("dependency-classification", pipeline, groupClassifiedDependencies(analysis))
  /\ UNCHANGED proved

BitstreamFiniteStateInference ==
  LET inferred == Infer(pipeline, analysis)
  IN  /\ analysis.exists
      /\ in_order => analysis.grouped
      /\ Ends("finite-state-inference",
              [pipeline EXCEPT !.states = inferred.states, !.notes = inferred.notes],
              [analysis EXCEPT !.dependencies = inferred.dependencies])
      /\ proved' = TRUE

BitstreamSpeculativeFusion ==
  /\ analysis.exists
  /\ in_order => proved
  /\ Ends("speculative-fusion", pipeline,
          [analysis EXCEPT !.fusion = <<Candidate(pipeline, analysis)>>])
  /\ UNCHANGED proved

Next ==
  \/ BitstreamDependenceAnalysis
  \/ BitstreamDependencyClassification
  \/ BitstreamFiniteStateInference
  \/ BitstreamSpeculativeFusion

Spec == Init /\ [][Next]_vars

-----------------------------------------------------------------------------
\* In the order of the runner, a pass never leaves IR behind that its own verifiers refuse.
VerifierAccepts == in_order => outcome # "invalid"

\* An initial state stated of a scan or a recurrence whose domain was never found.
StatesInitialOnly(op) == op.initial_state # {} /\ op.state_domain = NoDomain

\* Reads that are known by different domains of one scan share the one state that
\* getOrCreateScanState made for the first of them.
ScanStateIsShared(edges) ==
  \E j, k \in DOMAIN edges :
    /\ IsScan(pipeline, edges[j].producer) /\ edges[j].producer = edges[k].producer
    /\ edges[j].buffer = edges[k].buffer
    /\ NoDomain \notin {edges[j].domain, edges[k].domain} /\ edges[j].domain # edges[k].domain

\* The runner's order ends in IR that its own verifiers refuse in two cases and no other: recovery stated an
\* initial state and no domain, or a scan state was reused for another domain. Otherwise
\* an edge is only proven by evidence the verifiers count, with states of the edge's
\* domain that exist, and a fusion descriptor only names states and stages that exist.
RefusalsAreKnown ==
  in_order /\ outcome # "failed" =>
    (outcome = "invalid" <=>
       \/ \E s \in Stages(pipeline) :
            \/ StatesInitialOnly(pipeline.stages[s])
            \/ \E r \in DOMAIN pipeline.stages[s].recurrences : StatesInitialOnly(pipeline.stages[s].recurrences[r])
       \/ ScanStateIsShared(analysis.dependencies))

\* Every read has one edge. A RAW edge leads to the last stage before it that
\* writes the buffer, and there to a steady write if it has one.
EdgesAreReads ==
  analysis.exists =>
    LET edges == analysis.dependencies
    IN  /\ Len(edges) = Cardinality(Reads(pipeline))
        /\ \A x \in Reads(pipeline) : \E k \in DOMAIN edges : ConsumerAccess(pipeline, edges[k]) = {x}
        /\ \A k \in DOMAIN edges :
             LET between == {y \in Writes(pipeline) :
                               /\ Access(pipeline, y).buffer = edges[k].buffer
                               /\ edges[k].producer < y[1] /\ y[1] < edges[k].consumer}
             IN  /\ between = {}
                 /\ edges[k].memory = "raw" =>
                      \E x \in ProducerAccess(pipeline, edges[k]) :
                        /\ x[1] < edges[k].consumer
                        /\ Access(pipeline, x).tail_boundary_write =>
                             \A y \in Writes(pipeline) :
                               y[1] = x[1] /\ Access(pipeline, y).buffer = edges[k].buffer
                                 => Access(pipeline, y).tail_boundary_write

-----------------------------------------------------------------------------
(* What fusion promises, said of the source alone *)

\* The finite domains to which a dependence of read x on stage t may be reduced:
\* that of a scan whose write stores it, that of the recurrence the address runs
\* through, or that of a projection of this read that nothing recovered contradicts.
WitnessDomains(x, t) ==
  {d \in kMinimumRuntimeStateDomain .. kMaxProjectedStateDomain :
     LET stored == {Access(source, y).value_domain : y \in
                      {z \in Writes(source) : /\ z[1] = t
                                              /\ Access(source, z).buffer = Access(source, x).buffer
                                              /\ z = RepresentativeWrite(source, t, Access(source, x).buffer)}}
         projected == \E k \in ProjectionsOf(source, x) :
                        source.stages[x[1]].projections[k].domain = d
     IN  IF IsScan(source, t)
         THEN /\ d = kBinaryScanStateDomain
              /\ \/ source.stages[t].state_domain = d /\ stored = {d}
                 \/ /\ projected
                    /\ source.stages[t].state_domain \in {NoDomain, d}
                    /\ stored \subseteq {NoDomain, d}
         ELSE \/ RecurrenceDomain(source, x) = d
              \/ projected /\ RecurrenceDomain(source, x) = NoDomain /\ Access(source, x).in_while}

\* Fusing keeps what read x gets from stage t.
Fusible(x, t) ==
  \/ ~StructurallyUnbounded(source, x, t)
  \/ ~IsScan(source, x[1]) /\ WitnessDomains(x, t) # {}

\* The stages whose writes may reach a read: those that no stage in between
\* overwrites beyond the boundary.
ReachingWriters(x) ==
  {t \in WritersOf(source, Access(source, x).buffer) :
     /\ t < x[1]
     /\ \A y \in Writes(source) :
          /\ Access(source, y).buffer = Access(source, x).buffer
          /\ t < y[1] /\ y[1] < x[1]
          => Access(source, y).tail_boundary_write}

\* Whatever the order of the passes, and however often each has run, a pipeline is
\* only called legal to fuse when every value that may reach a read comes through a
\* finite window or a finite state.
LegalIsSound ==
  analysis.fusion # <<>> =>
    (analysis.fusion[1].legal =>
       \A x \in Reads(source) : \A t \in ReachingWriters(x) : Fusible(x, t))

\* In the order of the runner the four passes together decide just that.
DecisionIsExact ==
  in_order /\ analysis.fusion # <<>> =>
    (analysis.fusion[1].legal <=>
       \A x \in Reads(source) :
         LET t == LatestWriter(source, x[1], Access(source, x).buffer)
         IN  t # 0 => Fusible(x, t))

\* A pass that is run twice in a row does nothing the second time.
Idempotent == [][last' = last => UNCHANGED <<pipeline, analysis, outcome>>]_vars

=============================================================================
