-------------------------- MODULE SpeculativeFusion --------------------------
(***************************************************************************)
(* bitstream-speculative-fusion (mlir/bitstream/lib/Dialect/Bitstream/     *)
(* Transforms/SpeculativeFusion.cpp): whether a pipeline may be fused, and *)
(* how.  The pass looks for the evidence of each edge again and compares   *)
(* it with what the inference left on the edge, the read and the states.   *)
(***************************************************************************)
EXTENDS FiniteStateInference

kMinimumRuntimeStateDomain == 2
kBinaryScanStateDomain == 2
kMaxProjectedStateDomain == 33

\* findExactProjectedRead, which passes over projections of domain 1.
FusionProjection(p, x) ==
  LET found == {k \in ProjectionsOf(p, x) : p.stages[x[1]].projections[k].domain >= 2}
  IN  IF found = {} THEN {} ELSE {p.stages[x[1]].projections[Min(found)].domain}

\* A projected read is evidence between kernels only inside scf.while.
PredecessorDomain(p, x) == IF Access(p, x).in_while THEN FusionProjection(p, x) ELSE {}

\* Mutant: the domain of an edge is not compared with what the runtime can hold.
RuntimeDomain_Any(p, dep) == dep.domain >= kMinimumRuntimeStateDomain

\* The template's limits.
RuntimeDomain(p, dep) ==
  /\ dep.domain >= kMinimumRuntimeStateDomain
  /\ IF IsScan(p, dep.producer) THEN dep.domain = kBinaryScanStateDomain
                                ELSE dep.domain <= kMaxProjectedStateDomain

\* The evidence the pass takes for an edge, as [kind of read, kind of state, domain].
FusionEvidence(p, dep, x) ==
  LET scan == IsScan(p, dep.producer)
      recurrence == RecurrenceDomain(p, x)
  IN  IF scan
      THEN IF ScanOutputDomain(p, dep) # NoDomain
           THEN {<<"prefix_state", "carried_state", ScanOutputDomain(p, dep)>>}
           ELSE {<<"prefix_state", "finite_state_projection", d>> : d \in FusionProjection(p, x)}
      ELSE IF recurrence # NoDomain
           THEN {<<"prefix_state", "carried_state", recurrence>>}
           ELSE {<<"data_dependent_predecessor", "neighbor_finite_state", d>> :
                   d \in PredecessorDomain(p, x)}

\* The edge gives a reason against fusion.
Obstructs(p, dep) ==
  /\ dep.memory = "raw" /\ ~dep.window
  /\ ~ \E x \in ConsumerAccess(p, dep) :
         /\ Cardinality(ConsumerAccess(p, dep)) = 1
         /\ p.notes[x] # NoNote
         /\ <<p.notes[x].dependency, p.notes[x].state_kind, dep.domain>> \in FusionEvidence(p, dep, x)
         /\ dep.finite_state = "proven" /\ dep.states # {}
         /\ RuntimeDomain(p, dep)
         /\ \A ref \in dep.states : \E state \in StateNamed(p, ref) : state.domain = dep.domain

RegexRefs(p) ==
  {<<state.stage, state.name>> : state \in
     {st \in p.states : st.transition = "regex_advance" /\ st.domain >= 2}}

\* FusionStrategyKind of a legal candidate.
Strategy(p, dependencies) ==
  IF \E dep \in dependencies : dep.memory = "raw" /\ ~dep.window THEN "decoupled_lookback"
  ELSE IF RegexRefs(p) # {} THEN "regex_advance_speculation" ELSE "elementwise"

Candidate(p, analysis) ==
  LET dependencies == ToSet(analysis.dependencies)
      unbounded    == {dep \in dependencies : dep.memory = "raw" /\ ~dep.window}
  IN  [legal    |-> \A dep \in dependencies : ~Obstructs(p, dep),
       stages   |-> ({dep.producer : dep \in dependencies} \ {0})
                      \cup {dep.consumer : dep \in dependencies}
                      \cup {ref[1] : ref \in RegexRefs(p)},
       states   |-> RegexRefs(p) \cup UNION {dep.states : dep \in unbounded},
       strategy |-> Strategy(p, dependencies)]

=============================================================================
