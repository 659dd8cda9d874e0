----------------------------- MODULE BitstreamIR -----------------------------
(***************************************************************************)
(* The bitstream dialect as the passes see it                              *)
(* (mlir/bitstream/lib/Dialect/Bitstream/IR/BitstreamOps.cpp): a pipeline  *)
(* of kernels and scans, the accesses and state projections in them, the   *)
(* dependencies of an analysis, and what the verifiers accept.             *)
(*                                                                         *)
(* Access ids and state names are the numbers in a0, a1, ... and state0,   *)
(* state1, ...  Two index values have the same name exactly when           *)
(* sameIndexValue takes them for the same expression, and `affine' says    *)
(* that an access has a positive byte count and an address                 *)
(* canonicalByteAddress can follow.  A byte window is a function of the    *)
(* read it hangs on, so an edge only records that it has one.              *)
(***************************************************************************)
EXTENDS Integers, Sequences, FiniteSets, SequencesExt, FiniteSetsExt

Missing == -1      \* no access_id
NoDomain == 0      \* no domain attribute
NoNote == [dependency |-> "none"]

\* A pipeline is [stages, states, notes]: its stages in launch order, the
\* bitstream.state operations, and the annotation of every read.
Stages(p) == DOMAIN p.stages
Positions(p) == UNION {{s} \X DOMAIN p.stages[s].accesses : s \in Stages(p)}
Access(p, x) == p.stages[x[1]].accesses[x[2]]

\* The order in which walk visits the accesses of a pipeline.
Before(x, y) == x[1] < y[1] \/ (x[1] = y[1] /\ x[2] < y[2])

\* The members of a set in a strict order of them, which is a set of pairs.
InOrder(S, order) ==
  [k \in 1 .. Cardinality(S) |->
     CHOOSE x \in S : Cardinality({y \in S : <<y, x>> \in order}) = k - 1]

Reads(p)  == {x \in Positions(p) : Access(p, x).op = "read"}
Writes(p) == {x \in Positions(p) : Access(p, x).op = "write"}
IsScan(p, s) == s \in Stages(p) /\ p.stages[s].kind = "scan"

-----------------------------------------------------------------------------
\* The parts of a pipeline, as far as the passes look at them.
IsList(s) == s \in Seq(ToSet(s))

IsStage(stage) ==
  /\ {"kind", "state_domain", "initial_state", "recurrences", "advance", "accesses",
       "projections"} \subseteq DOMAIN stage
  /\ stage.state_domain \in Nat
  /\ IsList(stage.accesses) /\ IsList(stage.projections) /\ IsList(stage.recurrences)
  /\ \A i \in DOMAIN stage.accesses :
       LET a == stage.accesses[i]
       IN  /\ {"op", "buffer", "id", "index", "affine", "in_while", "recurrence",
                "tail_boundary_write", "value_domain"} \subseteq DOMAIN a
           /\ a.recurrence \in {0} \cup DOMAIN stage.recurrences
  /\ \A k \in DOMAIN stage.projections :
       LET projection == stage.projections[k]
       IN  /\ {"buffer", "index", "read_access", "domain"} \subseteq DOMAIN projection
           /\ projection.domain \in Nat
  /\ \A r \in DOMAIN stage.recurrences : stage.recurrences[r].state_domain \in Nat

IsPipeline(p) ==
  /\ {"stages", "states", "notes"} \subseteq DOMAIN p
  /\ IsList(p.stages)
  /\ \A s \in Stages(p) : IsStage(p.stages[s])

-----------------------------------------------------------------------------
\* The accesses of a stage that an id and a buffer name.
Matches(p, s, op, buffer, id) ==
  {x \in Positions(p) : /\ x[1] = s
                        /\ Access(p, x).op = op
                        /\ Access(p, x).buffer = buffer
                        /\ Access(p, x).id = id}

\* findVaryingRecurrence: the recurrence whose coordinate drives the index, and
\* its state_domain.
Varies(a) == a.recurrence # 0
RecurrenceDomain(p, x) ==
  IF Varies(Access(p, x)) THEN p.stages[x[1]].recurrences[Access(p, x).recurrence].state_domain ELSE NoDomain

\* A read of which no consumer coordinate fixes the bytes it needs.
StructurallyUnbounded(p, x, producer) ==
  Access(p, x).in_while \/ Varies(Access(p, x)) \/ IsScan(p, producer)

\* The projections of the stage that stand for this read.
ProjectionsOf(p, x) ==
  {k \in DOMAIN p.stages[x[1]].projections :
     LET projection == p.stages[x[1]].projections[k]
     IN  /\ projection.read_access = Access(p, x).id
         /\ projection.buffer = Access(p, x).buffer
         /\ projection.index = Access(p, x).index}

\* The access of the given kind at an end of an edge: a set with one position
\* unless the id is ambiguous.
ConsumerAccess(p, dep) == Matches(p, dep.consumer, "read", dep.buffer, dep.consumer_access)
ProducerAccess(p, dep) == Matches(p, dep.producer, "write", dep.buffer, dep.producer_access)

\* The state operation a reference names.
StateNamed(p, ref) == {state \in p.states : state.stage = ref[1] /\ state.name = ref[2]}

\* The domain of a scan, when the write an edge names stores values of the same.
ScanOutputDomain(p, dep) ==
  IF /\ IsScan(p, dep.producer)
     /\ \E x \in ProducerAccess(p, dep) :
          Access(p, x).value_domain = p.stages[dep.producer].state_domain
  THEN p.stages[dep.producer].state_domain
  ELSE NoDomain

-----------------------------------------------------------------------------
(* The verifiers, which run after every pass *)

\* verifyFiniteStateMetadata, of a scan or a recurrence: an initial state, as a set with one
\* number if there is one, needs a domain that holds it.
MetadataVerifies(op) == op.initial_state \subseteq 0 .. op.state_domain - 1

\* ProjectStateOp::verify
ProjectionVerifies(p, s, k) ==
  LET projection == p.stages[s].projections[k]
  IN  /\ projection.domain > 0
      /\ Cardinality({x \in Reads(p) : x[1] = s /\ k \in ProjectionsOf(p, x)}) = 1

\* DependencyOp::verify, the evidence for a proven edge.
EvidenceVerifies(p, dep, x) ==
  \/ Cardinality({k \in ProjectionsOf(p, x) :
       p.stages[x[1]].projections[k].domain = dep.domain}) = 1
  \/ ScanOutputDomain(p, dep) = dep.domain
  \/ RecurrenceDomain(p, x) = dep.domain

\* DependencyOp::verify
DependencyVerifies(p, dep) ==
  /\ (dep.memory = "raw") <=> (dep.producer # 0)
  /\ Cardinality(ConsumerAccess(p, dep)) = 1
  /\ dep.memory = "raw" => Cardinality(ProducerAccess(p, dep)) = 1
  /\ \A x \in ConsumerAccess(p, dep) :
       /\ dep.window <=> ~StructurallyUnbounded(p, x, dep.producer)
       /\ dep.finite_state = "proven" =>
            /\ dep.memory = "raw" /\ dep.domain > 0 /\ dep.states # {}
            /\ EvidenceVerifies(p, dep, x)
            /\ \A ref \in dep.states :
                 \E state \in StateNamed(p, ref) : state.domain = dep.domain
       /\ dep.finite_state = "none" => dep.domain = NoDomain /\ dep.states = {}

\* FusionCandidateOp::verify, FusedKernelOp::verify
FusionVerifies(p, candidate) ==
  /\ candidate.legal => candidate.stages # {}
  /\ \A ref \in candidate.states : StateNamed(p, ref) # {}

\* All that MLIR verifies when a pass has ended.
ModuleVerifies(p, analysis) ==
  /\ \A s \in Stages(p) : /\ MetadataVerifies(p.stages[s])
                         /\ \A r \in DOMAIN p.stages[s].recurrences : MetadataVerifies(p.stages[s].recurrences[r])
  /\ \A s \in Stages(p) : \A k \in DOMAIN p.stages[s].projections : ProjectionVerifies(p, s, k)
  /\ \A k \in DOMAIN analysis.dependencies : DependencyVerifies(p, analysis.dependencies[k])
  /\ analysis.fusion # <<>> => FusionVerifies(p, analysis.fusion[1])

=============================================================================
