-------------------------- MODULE DependenceAnalysis --------------------------
(***************************************************************************)
(* bitstream-dependence-analysis and bitstream-dependency-classification   *)
(* (mlir/bitstream/lib/Dialect/Bitstream/Transforms/DependenceAnalysis.cpp *)
(* and DependencyClassification.cpp): access ids are repaired, every read  *)
(* gets an edge from the latest writer of its buffer, and the edges are    *)
(* put into a bounded and an unbounded group.                              *)
(***************************************************************************)
EXTENDS BitstreamIR

NoAnalysis == [exists |-> FALSE, dependencies |-> <<>>, grouped |-> FALSE, fusion |-> <<>>]

-----------------------------------------------------------------------------
(* assignAccessIds *)

\* An id stays when no other access has it.
KeepsId(p, x) ==
  /\ Access(p, x).id # Missing
  /\ \A y \in Positions(p) \ {x} : Access(p, y).id # Access(p, x).id

usedIds(p) == {Access(p, x).id : x \in {y \in Positions(p) : KeepsId(p, y)}}

\* The id that the call number n of nextId returns.
NthUnused(used, n) ==
  CHOOSE k \in 0 .. n + Cardinality(used) :
    k \notin used /\ Cardinality((0 .. k - 1) \ used) = n

RepairedId(p, x) ==
  IF KeepsId(p, x)
  THEN Access(p, x).id
  ELSE NthUnused(usedIds(p), Cardinality({y \in Positions(p) : Before(y, x) /\ ~KeepsId(p, y)}))

\* Mutant: a projection keeps the text of its reference.
RepairedReference_Kept(p, s, projection) == projection.read_access

\* A projection follows the one read it names to that read's new id.
RepairedReference(p, s, projection) ==
  LET named == {x \in Matches(p, s, "read", projection.buffer, projection.read_access) :
                  Access(p, x).index = projection.index}
  IN  IF Cardinality(named) = 1
      THEN RepairedId(p, CHOOSE x \in named : TRUE)
      ELSE projection.read_access

assignAccessIds(p) ==
  [p EXCEPT !.stages = [s \in Stages(p) |->
     [p.stages[s] EXCEPT
        !.accesses = [i \in DOMAIN @ |-> [@[i] EXCEPT !.id = RepairedId(p, <<s, i>>)]],
        !.projections = [k \in DOMAIN @ |->
          [@[k] EXCEPT !.read_access = RepairedReference(p, s, p.stages[s].projections[k])]]]]]

-----------------------------------------------------------------------------
(* Edges *)

WritersOf(p, buffer) == {x[1] : x \in {y \in Writes(p) : Access(p, y).buffer = buffer}}

\* Mutant: the first writer stays the producer.
LatestWriter_First(p, s, buffer) ==
  LET earlier == {t \in WritersOf(p, buffer) : t < s}
  IN  IF earlier = {} THEN 0 ELSE Min(earlier)

\* The stage that `producers' holds for the buffer when stage s reads it, or 0
\* for an external input.
LatestWriter(p, s, buffer) ==
  LET earlier == {t \in WritersOf(p, buffer) : t < s}
  IN  IF earlier = {} THEN 0 ELSE Max(earlier)

\* The last steady write of the stage, or its last boundary write if it has no other.
RepresentativeWrite(p, s, buffer) ==
  LET writes == {i \in DOMAIN p.stages[s].accesses :
                   LET a == p.stages[s].accesses[i] IN a.op = "write" /\ a.buffer = buffer}
      steady == {i \in writes : ~p.stages[s].accesses[i].tail_boundary_write}
  IN  <<s, Max(IF steady # {} THEN steady ELSE writes)>>

\* deriveDependencyWindow, where it does not fail the pass.
Derivable(p, x, producer) ==
  \/ StructurallyUnbounded(p, x, producer)
  \/ /\ Access(p, x).affine
     /\ producer # 0 => Access(p, RepresentativeWrite(p, producer, Access(p, x).buffer)).affine

Edge(p, x) ==
  LET buffer   == Access(p, x).buffer
      producer == LatestWriter(p, x[1], buffer)
  IN  [producer |-> producer, consumer |-> x[1], buffer |-> buffer,
       producer_access |-> IF producer = 0 THEN Missing
                           ELSE Access(p, RepresentativeWrite(p, producer, buffer)).id,
       consumer_access |-> Access(p, x).id,
       memory |-> IF producer = 0 THEN "input" ELSE "raw",
       window |-> ~StructurallyUnbounded(p, x, producer),
       finite_state |-> "none", domain |-> NoDomain, states |-> {}]

\* BitstreamDependenceAnalysisPass on a pipeline whose ids are repaired.
RelationFailure(p) == \E x \in Reads(p) : ~Derivable(p, x, LatestWriter(p, x[1], Access(p, x).buffer))

RawDependencies(p) ==
  LET order == InOrder(Reads(p), {w \in Reads(p) \X Reads(p) : Before(w[1], w[2])})
  IN  [exists |-> TRUE, grouped |-> FALSE, fusion |-> <<>>,
       dependencies |-> [k \in DOMAIN order |-> Edge(p, order[k])]]

-----------------------------------------------------------------------------
(* Classification *)

isUnbounded(dep) == ~dep.window
isBounded(dep)   == ~isUnbounded(dep)

\* The bounded group, then the unbounded one, each in the order of the walk.
Grouped(edges) ==
  LET order == {w \in (DOMAIN edges) \X (DOMAIN edges) :
                  IF isBounded(edges[w[1]]) <=> isBounded(edges[w[2]]) THEN w[1] < w[2]
                                                                   ELSE isBounded(edges[w[1]])}
  IN  [k \in DOMAIN edges |-> edges[InOrder(DOMAIN edges, order)[k]]]

groupClassifiedDependencies(analysis) ==
  [analysis EXCEPT !.grouped = TRUE, !.dependencies = Grouped(@)]

=============================================================================
