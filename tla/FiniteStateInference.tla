------------------------- MODULE FiniteStateInference -------------------------
(***************************************************************************)
(* bitstream-finite-state-inference                                        *)
(* (mlir/bitstream/lib/Dialect/Bitstream/Transforms/                       *)
(* FiniteStateInference.cpp): the edges are visited in the order in which  *)
(* they stand in the analysis, and an edge with evidence gets states, a    *)
(* domain and an annotation on its read.  Which operation combines the     *)
(* values of a scan or a recurrence is left out.                           *)
(***************************************************************************)
EXTENDS DependenceAnalysis

NoProof == [form |-> "none", domain |-> NoDomain]

\* The projection that findProjectedReadForEdge comes to first: the domains it may
\* give, none or one.
ProjectedDomain(p, x) ==
  LET found == ProjectionsOf(p, x)
  IN  IF found = {} THEN {} ELSE {p.stages[x[1]].projections[Min(found)].domain}

\* A scan without recovered domains may be known by a projection, if the domains
\* it has agree.
AgreesWithScan(p, dep, domain) ==
  /\ p.stages[dep.producer].state_domain \in {NoDomain, domain}
  /\ \A y \in ProducerAccess(p, dep) : Access(p, y).value_domain \in {NoDomain, domain}

\* Mutant: any recovered domain of the scan will do.
ScanEvidence_ScanOnly(p, dep) == p.stages[dep.producer].state_domain

ScanEvidence(p, dep) == ScanOutputDomain(p, dep)

\* positiveDomain
IsPositive(domain) == domain # NoDomain

\* What the pass finds for an edge to the read x.
ProofsFor(p, dep, x) ==
  LET from_scan == IsScan(p, dep.producer)
      to_scan   == IsScan(p, dep.consumer)
      projected == ProjectedDomain(p, x)
  IN  \* the scan or its projection
      {[form |-> "scan", domain |-> d] :
         d \in {e \in {ScanEvidence(p, dep)} : from_scan /\ ~to_scan /\ IsPositive(e)}}
      \cup
      {[form |-> "scan_projection", domain |-> d] :
         d \in {e \in projected : /\ from_scan /\ ~to_scan
                                  /\ ScanEvidence(p, dep) = NoDomain
                                  /\ AgreesWithScan(p, dep, e)}}
      \cup
      {[form |-> "projected_state", domain |-> d] : d \in {e \in projected : dep.window}}
      \cup
      \* between kernels, without a window
      {[form |-> "recurrence", domain |-> d] :
         d \in {e \in {RecurrenceDomain(p, x)} :
                  ~dep.window /\ ~from_scan /\ ~to_scan /\ IsPositive(e)}}
      \cup
      {[form |-> "neighbor", domain |-> d] :
         d \in {e \in projected : /\ ~dep.window /\ ~from_scan /\ ~to_scan
                                  /\ RecurrenceDomain(p, x) = NoDomain
                                  /\ Access(p, x).in_while}}

Proof(p, dep) ==
  LET found == IF dep.memory # "raw" THEN {}
               ELSE UNION {ProofsFor(p, dep, x) : x \in ConsumerAccess(p, dep)}
  IN  IF found = {} THEN NoProof ELSE CHOOSE proof \in found : TRUE

\* The annotation of the read an edge with such a proof leads to.
Note(proof, state) ==
  [dependency |-> CASE proof.form = "projected_state" -> "projected_state"
                    [] proof.form = "neighbor"        -> "data_dependent_predecessor"
                    [] OTHER                          -> "prefix_state",
   state |-> state,
   state_kind |-> CASE proof.form = "scan_projection" -> "finite_state_projection"
                    [] proof.form = "projected_state" -> "projected_state"
                    [] proof.form = "neighbor"        -> "neighbor_finite_state"
                    [] OTHER                          -> "carried_state"]

-----------------------------------------------------------------------------
NewState(s, name, domain, transition) ==
  [stage |-> s, name |-> name, domain |-> domain, transition |-> transition]

\* A kernel with advances gets a state for the farthest of them.
RegexKernels(p) ==
  LET kernels == {s \in Stages(p) : ~IsScan(p, s) /\ p.stages[s].advance > 0}
  IN  InOrder(kernels, {w \in kernels \X kernels : w[1] < w[2]})

RegexStates(p, first) ==
  LET kernels == RegexKernels(p)
  IN  {NewState(kernels[k], first + k - 1, Max({2, p.stages[kernels[k]].advance + 1}), "regex_advance") :
         k \in DOMAIN kernels}

\* Mutant: numbering goes on from the states of the run before.
FirstStateId_Continued(p) == Cardinality(p.states)

\* nextStateId starts anew: the inferred states of a former run are erased.
FirstStateId(p) == 0

\* Where the loop over the edges stands: the next free name, the states, the
\* annotations, the edges done, and the states that a scan or a recurrence shares
\* between its edges.
Begin(p) ==
  [next |-> FirstStateId(p) + Len(RegexKernels(p)), states |-> RegexStates(p, FirstStateId(p)),
   notes |-> [x \in Reads(p) |-> NoNote], dependencies |-> <<>>,
   scan_states |-> <<>>, recurrence_states |-> <<>>]

\* clearEdgeFiniteStateProof
Cleared(dep) == [dep EXCEPT !.finite_state = "none", !.domain = NoDomain, !.states = {}]

Proven(dep, proof, refs) ==
  [dep EXCEPT !.finite_state = "proven", !.domain = proof.domain, !.states = refs]

\* The read's own state, and the state of the scan: getOrCreateScanState looks for a
\* state of the same scan and buffer.
ProveByScan(acc, x, dep, proof) ==
  LET key   == <<dep.producer, dep.buffer>>
      known == key \in DOMAIN acc.scan_states
      name  == IF known THEN acc.scan_states[key] ELSE acc.next + 1
  IN  [acc EXCEPT
        !.next = @ + (IF known THEN 1 ELSE 2),
        !.states = @ \cup {NewState(dep.consumer, acc.next, proof.domain, "prefix_state_projection")}
                     \cup (IF known THEN {} ELSE {NewState(dep.producer, name, proof.domain, "scan")}),
        !.scan_states = [k \in DOMAIN @ \cup {key} |-> IF k = key THEN name ELSE @[k]],
        !.notes[x] = Note(proof, acc.next),
        !.dependencies = Append(@, Proven(dep, proof,
                           {<<dep.producer, name>>, <<dep.consumer, acc.next>>}))]

\* The one state of a recurrence: getOrCreateRecurrenceState.
ProveByRecurrence(acc, x, a, dep, proof) ==
  LET key   == <<dep.consumer, a.recurrence>>
      known == key \in DOMAIN acc.recurrence_states
      name  == IF known THEN acc.recurrence_states[key] ELSE acc.next
  IN  [acc EXCEPT
        !.next = @ + (IF known THEN 0 ELSE 1),
        !.states = @ \cup (IF known THEN {} ELSE {NewState(dep.consumer, name, proof.domain, "recurrence")}),
        !.recurrence_states = [k \in DOMAIN @ \cup {key} |-> IF k = key THEN name ELSE @[k]],
        !.notes[x] = Note(proof, name),
        !.dependencies = Append(@, Proven(dep, proof, {<<dep.consumer, name>>}))]

\* A state of its own for the projection of a read.
ProveByProjection(acc, x, dep, proof) ==
  [acc EXCEPT
     !.next = @ + 1,
     !.states = @ \cup {NewState(dep.consumer, acc.next, proof.domain, proof.form)},
     !.notes[x] = Note(proof, acc.next),
     !.dependencies = Append(@, Proven(dep, proof, {<<dep.consumer, acc.next>>}))]

ProveEdge(p, acc, dep) ==
  LET proof == Proof(p, dep)
      x     == CHOOSE y \in ConsumerAccess(p, dep) : TRUE
  IN  CASE proof.form = "none" -> [acc EXCEPT !.dependencies = Append(@, dep)]
        [] proof.form \in {"scan", "scan_projection"} -> ProveByScan(acc, x, dep, proof)
        [] proof.form = "recurrence" -> ProveByRecurrence(acc, x, Access(p, x), dep, proof)
        [] OTHER -> ProveByProjection(acc, x, dep, proof)

\* The loop over the edges, after the first n of them.
Infer(p, analysis) ==
  LET edges == analysis.dependencies
      after[n \in 0 .. Len(edges)] ==
        IF n = 0 THEN Begin(p) ELSE ProveEdge(p, after[n - 1], Cleared(edges[n]))
  IN  after[Len(edges)]

=============================================================================
