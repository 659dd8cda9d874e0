--------------------------- MODULE CompilerProofs ---------------------------
(***************************************************************************)
(* Proofs about the passes behind recovery (CompilerPasses), for every set *)
(* of pipelines that come in and every order of the passes.                *)
(***************************************************************************)
EXTENDS CompilerPasses, FiniteSetTheorems, WellFoundedInduction, TLAPS

-----------------------------------------------------------------------------
(***************************************************************************)
(* Sets of numbers, and sets in an order.                                  *)
(***************************************************************************)
LEMMA LeastElement ==
  ASSUME NEW A \in SUBSET Nat, A # {}
  PROVE  \E n \in A : \A m \in A : n <= m
<1> DEFINE R == OpToRel(<, Nat)
<1>1. PICK n \in A : \A m \in A : ~ (<<m, n>> \in R)
  BY NatLessThanWellFounded, WFMin
<1>2. \A m \in A : ~ (m < n)
  BY <1>1 DEF OpToRel
<1> QED BY <1>2

LEMMA MinIs ==
  ASSUME NEW A \in SUBSET Nat, A # {}
  PROVE  Min(A) \in A /\ \A m \in A : Min(A) <= m
BY LeastElement DEF Min

LEMMA MaxIs ==
  ASSUME NEW n \in Nat, NEW A \in SUBSET (0 .. n), A # {}
  PROVE  Max(A) \in A /\ \A m \in A : m <= Max(A)
<1> DEFINE B == {n - m : m \in A}
<1>1. \A m \in A : m \in 0 .. n /\ n - m \in Nat
  OBVIOUS
<1>2. B \in SUBSET Nat /\ B # {}
  BY <1>1
<1>3. PICK k \in B : \A m \in B : k <= m
  BY <1>2, LeastElement
<1>4. PICK x \in A : k = n - x
  OBVIOUS
<1>5. \A m \in A : n - x <= n - m
  BY <1>3, <1>4
<1>6. \A m \in A : m <= x
  BY <1>1, <1>5
<1> QED BY <1>4, <1>6 DEF Max

\* A set in an order runs through all its members.
IsOrder(S, order) ==
  /\ \A x \in S : <<x, x>> \notin order
  /\ \A x, y \in S : x = y \/ <<x, y>> \in order \/ <<y, x>> \in order
  /\ \A x, y, z \in S : <<x, y>> \in order /\ <<y, z>> \in order => <<x, z>> \in order

LEMMA InOrderFacts ==
  ASSUME NEW S, IsFiniteSet(S), NEW order, IsOrder(S, order)
  PROVE  /\ DOMAIN InOrder(S, order) = 1 .. Cardinality(S)
         /\ \A k \in 1 .. Cardinality(S) : InOrder(S, order)[k] \in S
         /\ \A x \in S : \E k \in 1 .. Cardinality(S) : InOrder(S, order)[k] = x
         /\ \A j, k \in 1 .. Cardinality(S) : j # k => InOrder(S, order)[j] # InOrder(S, order)[k]
         /\ \A j, k \in 1 .. Cardinality(S) :
              j < k => <<InOrder(S, order)[j], InOrder(S, order)[k]>> \in order
<1> DEFINE Below(x) == {y \in S : <<y, x>> \in order}
           n == Cardinality(S)
           rank == [x \in S |-> Cardinality(Below(x))]
<1>1. n \in Nat
  BY FS_CardinalityType
<1>2. ASSUME NEW x \in S
      PROVE  /\ IsFiniteSet(Below(x)) /\ rank[x] \in 0 .. n - 1
  <2>1. Below(x) \in SUBSET S /\ Below(x) # S
    BY DEF IsOrder
  <2>2. IsFiniteSet(Below(x)) /\ Cardinality(Below(x)) <= n /\ Cardinality(Below(x)) # n
    BY <2>1, FS_Subset
  <2>3. Cardinality(Below(x)) \in Nat
    BY <2>2, FS_CardinalityType
  <2> QED BY <1>1, <2>2, <2>3
<1>3. ASSUME NEW x \in S, NEW y \in S, <<x, y>> \in order
      PROVE  rank[x] < rank[y]
  <2>1. Below(x) \in SUBSET Below(y) /\ x \in Below(y) /\ x \notin Below(x)
    BY <1>3 DEF IsOrder
  <2>2. Cardinality(Below(x)) <= Cardinality(Below(y)) /\ Cardinality(Below(x)) # Cardinality(Below(y))
    BY <1>2, <2>1, FS_Subset
  <2>3. rank[x] = Cardinality(Below(x)) /\ rank[y] = Cardinality(Below(y))
    OBVIOUS
  <2>4. rank[x] \in 0 .. n - 1 /\ rank[y] \in 0 .. n - 1
    BY <1>2
  <2> HIDE DEF rank, Below
  <2> QED BY <1>1, <2>2, <2>3, <2>4
<1>4. rank \in Injection(S, 0 .. n - 1)
  <2>1. rank \in [S -> 0 .. n - 1]
    BY <1>2
  <2>2. \A x, y \in S : rank[x] = rank[y] => x = y
    <3> SUFFICES ASSUME NEW x \in S, NEW y \in S, x # y
                PROVE  rank[x] # rank[y]
      OBVIOUS
    <3>1. rank[x] \in 0 .. n - 1 /\ rank[y] \in 0 .. n - 1
      BY <1>2
    <3>2. <<x, y>> \in order \/ <<y, x>> \in order
      BY DEF IsOrder
    <3> HIDE DEF rank
    <3> QED BY <1>1, <1>3, <3>1, <3>2
  <2> QED BY <2>1, <2>2 DEF Injection, IsInjective
<1>5. IsFiniteSet(0 .. n - 1) /\ Cardinality(0 .. n - 1) = n
  BY <1>1, FS_Interval
<1>6. rank \in Surjection(S, 0 .. n - 1)
  BY <1>4, <1>5, FS_Injection
<1>r. \A x \in S : rank[x] \in 0 .. n - 1
  BY <1>2
<1>7. \A i \in 0 .. n - 1 : \E x \in S : rank[x] = i
  BY <1>6 DEF Surjection
<1>8. \A x, y \in S : rank[x] = rank[y] => x = y
  BY <1>4 DEF Injection, IsInjective
<1>9. \A k \in 1 .. n : InOrder(S, order)[k] \in S /\ rank[InOrder(S, order)[k]] = k - 1
  <2> TAKE k \in 1 .. n
  <2>0. k - 1 \in 0 .. n - 1
    BY <1>1
  <2>1. \E x \in S : Cardinality(Below(x)) = k - 1
    BY <1>7, <2>0
  <2>2. InOrder(S, order)[k] = CHOOSE x \in S : Cardinality(Below(x)) = k - 1
    BY DEF InOrder
  <2> QED BY <2>1, <2>2
<1>10. \A x \in S : InOrder(S, order)[rank[x] + 1] = x /\ rank[x] + 1 \in 1 .. n
  <2> TAKE x \in S
  <2> HIDE DEF rank
  <2>1. rank[x] + 1 \in 1 .. n /\ (rank[x] + 1) - 1 = rank[x]
    BY <1>1, <1>r
  <2> QED BY <1>8, <1>9, <2>1
<1>11. DOMAIN InOrder(S, order) = 1 .. n
  BY DEF InOrder
<1>12. \A j, k \in 1 .. n : j # k => InOrder(S, order)[j] # InOrder(S, order)[k]
  <2> HIDE DEF rank
  <2> QED BY <1>1, <1>9
<1>13. \A j, k \in 1 .. n : j < k => <<InOrder(S, order)[j], InOrder(S, order)[k]>> \in order
  <2> SUFFICES ASSUME NEW j \in 1 .. n, NEW k \in 1 .. n, j < k
               PROVE  <<InOrder(S, order)[j], InOrder(S, order)[k]>> \in order
    OBVIOUS
  <2> DEFINE x == InOrder(S, order)[j]
             y == InOrder(S, order)[k]
  <2>1. x \in S /\ y \in S /\ rank[x] = j - 1 /\ rank[y] = k - 1 /\ x # y
    BY <1>9, <1>12
  <2> HIDE DEF rank, x, y
  <2>2. <<x, y>> \in order \/ <<y, x>> \in order
    BY <2>1 DEF IsOrder
  <2>3. <<y, x>> \notin order
    BY <1>1, <1>3, <2>1
  <2> QED BY <2>2, <2>3 DEF x, y
<1> QED
  <2> HIDE DEF rank
  <2> QED BY <1>9, <1>10, <1>11, <1>12, <1>13

-----------------------------------------------------------------------------
(***************************************************************************)
(* Pipelines.                                                              *)
(***************************************************************************)
LEMMA ListFacts ==
  ASSUME NEW s, IsList(s)
  PROVE  Len(s) \in Nat /\ DOMAIN s = 1 .. Len(s)
BY DEF IsList

LEMMA PositionsAre ==
  ASSUME NEW p, NEW x
  PROVE  x \in Positions(p) <=>
           /\ x = <<x[1], x[2]>> /\ x[1] \in Stages(p)
           /\ x[2] \in DOMAIN p.stages[x[1]].accesses
<1>1. ASSUME x \in Positions(p)
      PROVE  /\ x = <<x[1], x[2]>> /\ x[1] \in Stages(p)
             /\ x[2] \in DOMAIN p.stages[x[1]].accesses
  <2>1. PICK s \in Stages(p) : x \in {s} \X DOMAIN p.stages[s].accesses
    BY <1>1 DEF Positions
  <2> QED BY <2>1
<1>2. ASSUME x = <<x[1], x[2]>>, x[1] \in Stages(p), x[2] \in DOMAIN p.stages[x[1]].accesses
      PROVE  x \in Positions(p)
  <2>1. x \in {x[1]} \X DOMAIN p.stages[x[1]].accesses
    BY <1>2
  <2> QED BY <1>2, <2>1 DEF Positions
<1> QED BY <1>1, <1>2

LEMMA PositionsFinite ==
  ASSUME NEW p, IsPipeline(p)
  PROVE  IsFiniteSet(Positions(p))
<1> DEFINE Row(s) == {s} \X DOMAIN p.stages[s].accesses
           rows == {Row(s) : s \in Stages(p)}
<1>1. IsFiniteSet(Stages(p))
  BY ListFacts, FS_Interval DEF IsPipeline, Stages
<1>2. ASSUME NEW s \in Stages(p)
      PROVE  IsFiniteSet(Row(s))
  <2>1. IsList(p.stages[s].accesses)
    BY DEF IsPipeline, IsStage
  <2>2. DOMAIN p.stages[s].accesses = 1 .. Len(p.stages[s].accesses) /\ Len(p.stages[s].accesses) \in Nat
    BY <2>1, ListFacts
  <2>3. IsFiniteSet(DOMAIN p.stages[s].accesses)
    BY <2>2, FS_Interval
  <2> QED BY <2>3, FS_Singleton, FS_Product
<1>3. IsFiniteSet(rows)
  <2> DEFINE f == [s \in Stages(p) |-> Row(s)]
  <2>1. f \in Surjection(Stages(p), rows)
    BY DEF Surjection
  <2> QED BY <1>1, <2>1, FS_Surjection
<1>4. IsFiniteSet(UNION rows)
  BY <1>2, <1>3, FS_UNION
<1> QED BY <1>4 DEF Positions

LEMMA ReadsFinite ==
  ASSUME NEW p, IsPipeline(p)
  PROVE  /\ Reads(p) \subseteq Positions(p) /\ IsFiniteSet(Reads(p))
         /\ \A s, op, buffer, id : /\ Matches(p, s, op, buffer, id) \subseteq Positions(p)
                                  /\ IsFiniteSet(Matches(p, s, op, buffer, id))
<1>1. Reads(p) \in SUBSET Positions(p)
  BY DEF Reads
<1>2. \A s, op, buffer, id : Matches(p, s, op, buffer, id) \in SUBSET Positions(p)
  BY DEF Matches
<1> QED BY <1>1, <1>2, PositionsFinite, FS_Subset

\* The walk visits the accesses in a strict order.
LEMMA WalkIsOrder ==
  ASSUME NEW p, IsPipeline(p)
  PROVE  IsOrder(Reads(p), {w \in Reads(p) \X Reads(p) : Before(w[1], w[2])})
<1> DEFINE order == {w \in Reads(p) \X Reads(p) : Before(w[1], w[2])}
<1>1. \A x, y \in Reads(p) : <<x, y>> \in order <=> Before(x, y)
  OBVIOUS
<1>2. \A x \in Reads(p) : x = <<x[1], x[2]>> /\ x[1] \in Nat /\ x[2] \in Nat
  <2> TAKE x \in Reads(p)
  <2>1. x = <<x[1], x[2]>> /\ x[1] \in Stages(p) /\ x[2] \in DOMAIN p.stages[x[1]].accesses
    BY ReadsFinite, PositionsAre
  <2>2. Stages(p) \subseteq Nat
    BY ListFacts DEF IsPipeline, Stages
  <2>3. DOMAIN p.stages[x[1]].accesses \subseteq Nat
    BY <2>1, ListFacts DEF IsPipeline, IsStage
  <2> QED BY <2>1, <2>2, <2>3
<1>3. \A x \in Reads(p) : ~Before(x, x)
  BY <1>2 DEF Before
<1>4. \A x, y \in Reads(p) : x = y \/ Before(x, y) \/ Before(y, x)
  <2> TAKE x, y \in Reads(p)
  <2>1. x[1] = y[1] /\ x[2] = y[2] => x = y
    BY <1>2
  <2> QED BY <1>2, <2>1 DEF Before
<1>5. \A x, y, z \in Reads(p) : Before(x, y) /\ Before(y, z) => Before(x, z)
  BY <1>2 DEF Before
<1> HIDE DEF order
<1>6. IsOrder(Reads(p), order)
  BY <1>1, <1>3, <1>4, <1>5 DEF IsOrder
<1> QED BY <1>6 DEF order

-----------------------------------------------------------------------------
(***************************************************************************)
(* What the passes leave of a pipeline: all but the ids of the accesses,   *)
(* the references of the projections, the states and the annotations.      *)
(***************************************************************************)
SameAccess(a, b) ==
  /\ b.op = a.op /\ b.buffer = a.buffer /\ b.index = a.index /\ b.affine = a.affine
  /\ b.in_while = a.in_while /\ b.recurrence = a.recurrence
  /\ b.tail_boundary_write = a.tail_boundary_write /\ b.value_domain = a.value_domain

SameStage(a, b) ==
  /\ b.kind = a.kind /\ b.state_domain = a.state_domain /\ b.initial_state = a.initial_state
  /\ b.recurrences = a.recurrences /\ b.advance = a.advance
  /\ DOMAIN b.accesses = DOMAIN a.accesses
  /\ \A i \in DOMAIN a.accesses : SameAccess(a.accesses[i], b.accesses[i])
  /\ DOMAIN b.projections = DOMAIN a.projections
  /\ \A k \in DOMAIN a.projections :
       /\ b.projections[k].buffer = a.projections[k].buffer
       /\ b.projections[k].index = a.projections[k].index
       /\ b.projections[k].domain = a.projections[k].domain

Same(p, q) ==
  /\ Stages(q) = Stages(p)
  /\ \A s \in Stages(p) : SameStage(p.stages[s], q.stages[s])

LEMMA SameFacts ==
  ASSUME NEW p, NEW q, Same(p, q)
  PROVE  /\ Positions(q) = Positions(p) /\ Reads(q) = Reads(p) /\ Writes(q) = Writes(p)
         /\ \A x \in Positions(p) : SameAccess(Access(p, x), Access(q, x))
         /\ \A x \in Positions(p) : RecurrenceDomain(q, x) = RecurrenceDomain(p, x)
         /\ \A s : IsScan(q, s) <=> IsScan(p, s)
         /\ \A t : \A x \in Positions(p) :
              StructurallyUnbounded(q, x, t) <=> StructurallyUnbounded(p, x, t)
<1>1. \A x : x \in Positions(q) <=> x \in Positions(p)
  BY PositionsAre DEF Same, SameStage
<1>2. \A x \in Positions(p) : SameAccess(Access(p, x), Access(q, x))
  BY PositionsAre DEF Same, SameStage, Access
<1>3. Positions(q) = Positions(p) /\ Reads(q) = Reads(p) /\ Writes(q) = Writes(p)
  BY <1>1, <1>2 DEF Reads, Writes, SameAccess
<1>4. \A x \in Positions(p) : RecurrenceDomain(q, x) = RecurrenceDomain(p, x)
  <2> TAKE x \in Positions(p)
  <2>1. q.stages[x[1]].recurrences = p.stages[x[1]].recurrences
    BY PositionsAre DEF Same, SameStage
  <2>2. Access(q, x).recurrence = Access(p, x).recurrence
    BY <1>2 DEF SameAccess
  <2> QED BY <2>1, <2>2 DEF RecurrenceDomain, Varies
<1>5. \A s : IsScan(q, s) <=> IsScan(p, s)
  BY DEF Same, SameStage, IsScan
<1>6. \A t : \A x \in Positions(p) :
        StructurallyUnbounded(q, x, t) <=> StructurallyUnbounded(p, x, t)
  BY <1>2, <1>5 DEF StructurallyUnbounded, Varies, SameAccess
<1> QED BY <1>2, <1>3, <1>4, <1>5, <1>6

LEMMA SameWriters ==
  ASSUME NEW p, NEW q, Same(p, q)
  PROVE  /\ \A buffer : WritersOf(q, buffer) = WritersOf(p, buffer)
         /\ \A s, buffer : LatestWriter(q, s, buffer) = LatestWriter(p, s, buffer)
         /\ \A buffer : \A s \in Stages(p) :
              RepresentativeWrite(q, s, buffer) = RepresentativeWrite(p, s, buffer)
<1>1. \A x \in Positions(p) : Access(q, x).buffer = Access(p, x).buffer
  BY SameFacts DEF SameAccess
<1>2. \A buffer : WritersOf(q, buffer) = WritersOf(p, buffer)
  BY <1>1, SameFacts DEF WritersOf, Writes
<1>3. \A s, buffer : LatestWriter(q, s, buffer) = LatestWriter(p, s, buffer)
  BY <1>2 DEF LatestWriter
<1>4. \A buffer : \A s \in Stages(p) :
        RepresentativeWrite(q, s, buffer) = RepresentativeWrite(p, s, buffer)
  <2> TAKE buffer
  <2> TAKE s \in Stages(p)
  <2>1. SameStage(p.stages[s], q.stages[s])
    BY DEF Same
  <2> DEFINE Stored(r) == {i \in DOMAIN r.stages[s].accesses :
                            LET a == r.stages[s].accesses[i] IN a.op = "write" /\ a.buffer = buffer}
             Steady(r) == {i \in Stored(r) : ~r.stages[s].accesses[i].tail_boundary_write}
  <2>2. Stored(q) = Stored(p)
    BY <2>1 DEF SameStage, SameAccess
  <2>3. Steady(q) = Steady(p)
    BY <2>1, <2>2 DEF SameStage, SameAccess
  <2>4. /\ RepresentativeWrite(q, s, buffer) = <<s, Max(IF Steady(q) # {} THEN Steady(q) ELSE Stored(q))>>
        /\ RepresentativeWrite(p, s, buffer) = <<s, Max(IF Steady(p) # {} THEN Steady(p) ELSE Stored(p))>>
    BY DEF RepresentativeWrite
  <2> HIDE DEF Stored, Steady
  <2> QED BY <2>2, <2>3, <2>4
<1> QED BY <1>2, <1>3, <1>4

LEMMA SameTransitive ==
  ASSUME NEW p, NEW q, NEW r, Same(p, q), Same(q, r)
  PROVE  Same(p, r)
<1>1. \A s \in Stages(p) : SameStage(p.stages[s], r.stages[s])
  BY DEF Same, SameStage, SameAccess
<1> QED BY <1>1 DEF Same

\* A pipeline whose stages are those of another: only states and annotations differ.
LEMMA SameStages ==
  ASSUME NEW p, NEW q, q.stages = p.stages
  PROVE  /\ Same(p, q)
         /\ \A x : Access(q, x) = Access(p, x)
         /\ \A x : ProjectionsOf(q, x) = ProjectionsOf(p, x)
         /\ \A s, op, buffer, id : Matches(q, s, op, buffer, id) = Matches(p, s, op, buffer, id)
<1>1. Same(p, q)
  BY DEF Same, SameStage, SameAccess, Stages
<1>2. \A x : Access(q, x) = Access(p, x)
  BY DEF Access
<1>3. Positions(q) = Positions(p)
  BY <1>1, SameFacts
<1>4. \A x : ProjectionsOf(q, x) = ProjectionsOf(p, x)
  BY <1>2 DEF ProjectionsOf
<1>5. \A s, op, buffer, id : Matches(q, s, op, buffer, id) = Matches(p, s, op, buffer, id)
  BY <1>2, <1>3 DEF Matches
<1> QED BY <1>1, <1>2, <1>4, <1>5

-----------------------------------------------------------------------------
(***************************************************************************)
(* Repairing the ids of the accesses.                                      *)
(***************************************************************************)
LEMMA IsListOf ==
  ASSUME NEW n \in Nat, NEW f, f = [i \in 1 .. n |-> f[i]]
  PROVE  IsList(f)
<1>1. \A i \in 1 .. n : f[i] \in ToSet(f)
  BY DEF ToSet
<1>2. f \in [1 .. n -> ToSet(f)]
  BY <1>1
<1> QED BY <1>2 DEF IsList

\* A stage with these ids and references.
Relabelled(a, id, ref) ==
  [a EXCEPT !.accesses = [i \in DOMAIN @ |-> [@[i] EXCEPT !.id = id[i]]],
            !.projections = [k \in DOMAIN @ |-> [@[k] EXCEPT !.read_access = ref[k]]]]

\* The stages after the repair.
Id(p, s) == [i \in DOMAIN p.stages[s].accesses |-> RepairedId(p, <<s, i>>)]

Ref(p, s) ==
  [k \in DOMAIN p.stages[s].projections |-> RepairedReference(p, s, p.stages[s].projections[k])]

Repaired(p) == [s \in Stages(p) |-> Relabelled(p.stages[s], Id(p, s), Ref(p, s))]

LEMMA RepairIs ==
  ASSUME NEW p
  PROVE  assignAccessIds(p) = [p EXCEPT !.stages = Repaired(p)]
BY DEF assignAccessIds, Repaired, Relabelled, Id, Ref

LEMMA RepairStage ==
  ASSUME NEW a, IsStage(a), NEW id, NEW ref,
         NEW b, b = Relabelled(a, id, ref)
  PROVE  /\ IsStage(b) /\ SameStage(a, b)
         /\ \A i \in DOMAIN a.accesses : b.accesses[i].id = id[i]
         /\ \A k \in DOMAIN a.projections : b.projections[k].read_access = ref[k]
<1> DEFINE accesses == [i \in DOMAIN a.accesses |-> [a.accesses[i] EXCEPT !.id = id[i]]]
           projections == [k \in DOMAIN a.projections |-> [a.projections[k] EXCEPT !.read_access = ref[k]]]
<1>1. b = [a EXCEPT !.accesses = accesses, !.projections = projections]
  BY DEF Relabelled
<1>2. /\ DOMAIN b = DOMAIN a /\ b.accesses = accesses /\ b.projections = projections
      /\ b.kind = a.kind /\ b.state_domain = a.state_domain /\ b.initial_state = a.initial_state
      /\ b.recurrences = a.recurrences /\ b.advance = a.advance
  <2> HIDE DEF accesses, projections
  <2>1. {"kind", "state_domain", "initial_state", "recurrences", "advance", "accesses",
         "projections"} \subseteq DOMAIN a
    BY DEF IsStage
  <2> QED BY <1>1, <2>1
<1>3. \A i \in DOMAIN a.accesses :
        /\ DOMAIN accesses[i] = DOMAIN a.accesses[i] /\ accesses[i].id = id[i]
        /\ SameAccess(a.accesses[i], accesses[i])
  <2> TAKE i \in DOMAIN a.accesses
  <2>1. {"op", "buffer", "id", "index", "affine", "in_while", "recurrence",
         "tail_boundary_write", "value_domain"} \subseteq DOMAIN a.accesses[i]
    BY DEF IsStage
  <2>2. accesses[i] = [a.accesses[i] EXCEPT !.id = id[i]]
    OBVIOUS
  <2> QED BY <2>1, <2>2 DEF SameAccess
<1>4. \A k \in DOMAIN a.projections :
        /\ DOMAIN projections[k] = DOMAIN a.projections[k] /\ projections[k].read_access = ref[k]
        /\ projections[k].buffer = a.projections[k].buffer
        /\ projections[k].index = a.projections[k].index
        /\ projections[k].domain = a.projections[k].domain
  <2> TAKE k \in DOMAIN a.projections
  <2>1. {"buffer", "index", "read_access", "domain"} \subseteq DOMAIN a.projections[k]
    BY DEF IsStage
  <2>2. projections[k] = [a.projections[k] EXCEPT !.read_access = ref[k]]
    OBVIOUS
  <2> QED BY <2>1, <2>2
<1>5. DOMAIN accesses = DOMAIN a.accesses /\ DOMAIN projections = DOMAIN a.projections
  OBVIOUS
<1>6. IsList(accesses) /\ IsList(projections)
  <2>1. IsList(a.accesses) /\ IsList(a.projections)
    BY DEF IsStage
  <2>2. accesses = [i \in 1 .. Len(a.accesses) |-> accesses[i]] /\ Len(a.accesses) \in Nat
    BY <2>1, ListFacts
  <2>3. projections = [i \in 1 .. Len(a.projections) |-> projections[i]] /\ Len(a.projections) \in Nat
    BY <2>1, ListFacts
  <2> HIDE DEF accesses, projections
  <2> QED BY <2>2, <2>3, IsListOf
<1> HIDE DEF accesses, projections
<1>7. SameStage(a, b)
  BY <1>2, <1>3, <1>4, <1>5 DEF SameStage
<1>8. IsStage(b)
  <2>1. \A i \in DOMAIN b.accesses :
          /\ {"op", "buffer", "id", "index", "affine", "in_while", "recurrence",
              "tail_boundary_write", "value_domain"} \subseteq DOMAIN b.accesses[i]
          /\ b.accesses[i].recurrence \in {0} \cup DOMAIN b.recurrences
    BY <1>2, <1>3, <1>5 DEF IsStage, SameAccess
  <2>2. \A k \in DOMAIN b.projections :
          /\ {"buffer", "index", "read_access", "domain"} \subseteq DOMAIN b.projections[k]
          /\ b.projections[k].domain \in Nat
    BY <1>2, <1>4, <1>5 DEF IsStage
  <2>3. /\ IsList(b.accesses) /\ IsList(b.projections) /\ IsList(b.recurrences)
        /\ {"kind", "state_domain", "initial_state", "recurrences", "advance", "accesses",
            "projections"} \subseteq DOMAIN b
        /\ b.state_domain \in Nat
        /\ \A r \in DOMAIN b.recurrences : b.recurrences[r].state_domain \in Nat
    BY <1>2, <1>6 DEF IsStage
  <2> QED BY <2>1, <2>2, <2>3 DEF IsStage
<1> QED BY <1>2, <1>3, <1>4, <1>7, <1>8

LEMMA RepairFacts ==
  ASSUME NEW p, IsPipeline(p), NEW q, q = assignAccessIds(p)
  PROVE  /\ IsPipeline(q) /\ Same(p, q) /\ q.states = p.states /\ q.notes = p.notes
         /\ \A x \in Positions(p) : Access(q, x).id = RepairedId(p, x)
         /\ \A s \in Stages(p) : \A k \in DOMAIN p.stages[s].projections :
              q.stages[s].projections[k].read_access
                = RepairedReference(p, s, p.stages[s].projections[k])
<1>1. {"stages", "states", "notes"} \subseteq DOMAIN p /\ IsList(p.stages)
  BY DEF IsPipeline
<1>2. q = [p EXCEPT !.stages = Repaired(p)]
  BY RepairIs
<1>3. q.stages = Repaired(p) /\ q.states = p.states /\ q.notes = p.notes /\ DOMAIN q = DOMAIN p
  BY <1>1, <1>2
<1>4. \A s \in Stages(p) :
        /\ IsStage(Repaired(p)[s]) /\ SameStage(p.stages[s], Repaired(p)[s])
        /\ \A i \in DOMAIN p.stages[s].accesses : Repaired(p)[s].accesses[i].id = RepairedId(p, <<s, i>>)
        /\ \A k \in DOMAIN p.stages[s].projections :
             Repaired(p)[s].projections[k].read_access = RepairedReference(p, s, p.stages[s].projections[k])
  <2> TAKE s \in Stages(p)
  <2>1. IsStage(p.stages[s]) /\ Repaired(p)[s] = Relabelled(p.stages[s], Id(p, s), Ref(p, s))
    BY DEF IsPipeline, Repaired
  <2>2. /\ IsStage(Repaired(p)[s]) /\ SameStage(p.stages[s], Repaired(p)[s])
        /\ \A i \in DOMAIN p.stages[s].accesses : Repaired(p)[s].accesses[i].id = Id(p, s)[i]
        /\ \A k \in DOMAIN p.stages[s].projections : Repaired(p)[s].projections[k].read_access = Ref(p, s)[k]
    BY <2>1, RepairStage
  <2> QED BY <2>2 DEF Id, Ref
<1>5. /\ DOMAIN Repaired(p) = Stages(p) /\ Len(p.stages) \in Nat
      /\ Repaired(p) = [s \in 1 .. Len(p.stages) |-> Repaired(p)[s]]
  BY <1>1, ListFacts DEF Stages, Repaired
<1>6. IsPipeline(q)
  BY <1>1, <1>3, <1>4, <1>5, IsListOf DEF IsPipeline, Stages
<1>7. Same(p, q)
  BY <1>3, <1>4, <1>5 DEF Same, Stages
<1>8. \A x \in Positions(p) : Access(q, x).id = RepairedId(p, x)
  <2> TAKE x \in Positions(p)
  <2>1. x[1] \in Stages(p) /\ x[2] \in DOMAIN p.stages[x[1]].accesses /\ x = <<x[1], x[2]>>
    BY PositionsAre
  <2>2. q.stages[x[1]].accesses[x[2]].id = RepairedId(p, <<x[1], x[2]>>)
    BY <1>3, <1>4, <2>1
  <2> QED BY <2>1, <2>2 DEF Access
<1>9. \A s \in Stages(p) : \A k \in DOMAIN p.stages[s].projections :
        q.stages[s].projections[k].read_access = RepairedReference(p, s, p.stages[s].projections[k])
  BY <1>3, <1>4
<1> QED BY <1>3, <1>6, <1>7, <1>8, <1>9

\* However many ids are in use, the call number n of nextId returns the unused number
\* below which n numbers are unused.
LEMMA UnusedFacts ==
  ASSUME NEW used, IsFiniteSet(used), NEW n \in Nat
  PROVE  /\ NthUnused(used, n) \in Nat /\ NthUnused(used, n) \notin used
         /\ Cardinality((0 .. NthUnused(used, n) - 1) \ used) = n
<1> DEFINE Unused(k) == (0 .. k - 1) \ used
           c == [k \in Nat |-> Cardinality(Unused(k))]
           m == Cardinality(used)
           Enough == {k \in Nat : c[k] >= n + 1}
<1>1. m \in Nat
  BY FS_CardinalityType
<1>2. ASSUME NEW k \in Nat
      PROVE  /\ IsFiniteSet(Unused(k)) /\ c[k] \in Nat /\ c[k] >= k - m
  <2> DEFINE all == 0 .. k - 1
  <2>1. IsFiniteSet(all) /\ Cardinality(all) = k
    BY FS_Interval
  <2>2. Unused(k) \in SUBSET all /\ all \cap used \in SUBSET used /\ all \cap used \in SUBSET all
    OBVIOUS
  <2> HIDE DEF all
  <2>3. IsFiniteSet(Unused(k)) /\ Cardinality(Unused(k)) \in Nat
    BY <2>1, <2>2, FS_Subset, FS_CardinalityType
  <2>4. /\ IsFiniteSet(all \cap used) /\ Cardinality(all \cap used) <= m
        /\ Cardinality(all \cap used) \in Nat
    BY <2>2, FS_Subset, FS_CardinalityType
  <2>5. Cardinality(all) = Cardinality(Unused(k)) + Cardinality(all \cap used)
    <3>1. Cardinality(all \ used) = Cardinality(all) - Cardinality(all \cap used)
      BY <2>1, FS_Difference
    <3>2. Unused(k) = all \ used
      BY DEF all
    <3> HIDE DEF Unused
    <3> QED BY <2>1, <2>3, <2>4, <3>1, <3>2
  <2>6. c[k] = Cardinality(Unused(k))
    OBVIOUS
  <2> HIDE DEF Unused, c, m
  <2> QED BY <1>1, <2>1, <2>3, <2>4, <2>5, <2>6
<1>3. c[0] = 0
  <2>1. Unused(0) = {}
    OBVIOUS
  <2> QED BY <2>1, FS_EmptySet
<1>4. ASSUME NEW k \in Nat
      PROVE  c[k + 1] = IF k \in used THEN c[k] ELSE c[k] + 1
  <2>1. IsFiniteSet(Unused(k)) /\ k \notin Unused(k)
    <3>1. IsFiniteSet(Unused(k))
      BY <1>2
    <3>2. k \notin Unused(k)
      OBVIOUS
    <3> QED BY <3>1, <3>2
  <2>2. k \in used => Unused(k + 1) = Unused(k)
    OBVIOUS
  <2>3. k \notin used => Unused(k + 1) = Unused(k) \cup {k}
    OBVIOUS
  <2>4. c[k] = Cardinality(Unused(k)) /\ c[k + 1] = Cardinality(Unused(k + 1))
    OBVIOUS
  <2> HIDE DEF Unused, c
  <2> QED BY <2>1, <2>2, <2>3, <2>4, FS_AddElement
<1>c. \A k \in Nat : c[k] \in Nat /\ c[k] >= k - m
  BY <1>2
<1>s. \A k \in Nat : c[k + 1] = IF k \in used THEN c[k] ELSE c[k] + 1
  BY <1>4
<1>d. \A k \in Nat : Cardinality((0 .. k - 1) \ used) = c[k]
  OBVIOUS
<1> HIDE DEF c, m
<1>5. n + m + 1 \in Enough
  BY <1>1, <1>c
<1>6. PICK k \in Enough : \A j \in Enough : k <= j
  <2>1. Enough \in SUBSET Nat
    OBVIOUS
  <2> HIDE DEF Enough
  <2> QED BY <1>5, <2>1, LeastElement
<1>7. k \in Nat /\ c[k] >= n + 1 /\ k # 0
  BY <1>3
<1>8. PICK i \in Nat : k = i + 1
  BY <1>7
<1>9. i \notin Enough
  BY <1>6, <1>8
<1>10. c[i] = n /\ i \notin used
  BY <1>7, <1>8, <1>9, <1>c, <1>s
<1>11. i \in 0 .. n + m
  BY <1>1, <1>5, <1>6, <1>8
<1>12. \E j \in 0 .. n + m : j \notin used /\ Cardinality((0 .. j - 1) \ used) = n
  BY <1>10, <1>11, <1>d
<1>13. NthUnused(used, n) = CHOOSE j \in 0 .. n + m : j \notin used /\ Cardinality((0 .. j - 1) \ used) = n
  BY DEF NthUnused, m
<1>14. /\ NthUnused(used, n) \in 0 .. n + m /\ NthUnused(used, n) \notin used
       /\ Cardinality((0 .. NthUnused(used, n) - 1) \ used) = n
  BY <1>12, <1>13
<1> QED BY <1>1, <1>14

\* The walk orders all accesses.
LEMMA BeforeIsOrder ==
  ASSUME NEW p, IsPipeline(p)
  PROVE  /\ \A x \in Positions(p) : ~Before(x, x)
         /\ \A x, y \in Positions(p) : x = y \/ Before(x, y) \/ Before(y, x)
         /\ \A x, y, z \in Positions(p) : Before(x, y) /\ Before(y, z) => Before(x, z)
<1>1. \A x \in Positions(p) : x = <<x[1], x[2]>> /\ x[1] \in Nat /\ x[2] \in Nat
  <2> TAKE x \in Positions(p)
  <2>1. x = <<x[1], x[2]>> /\ x[1] \in Stages(p) /\ x[2] \in DOMAIN p.stages[x[1]].accesses
    BY PositionsAre
  <2>2. Stages(p) \subseteq Nat
    BY ListFacts DEF IsPipeline, Stages
  <2>3. DOMAIN p.stages[x[1]].accesses \subseteq Nat
    BY <2>1, ListFacts DEF IsPipeline, IsStage
  <2> QED BY <2>1, <2>2, <2>3
<1>2. \A x \in Positions(p) : ~Before(x, x)
  BY <1>1 DEF Before
<1>3. \A x, y \in Positions(p) : x = y \/ Before(x, y) \/ Before(y, x)
  <2> TAKE x, y \in Positions(p)
  <2>1. x[1] = y[1] /\ x[2] = y[2] => x = y
    BY <1>1
  <2> QED BY <1>1, <2>1 DEF Before
<1>4. \A x, y, z \in Positions(p) : Before(x, y) /\ Before(y, z) => Before(x, z)
  BY <1>1 DEF Before
<1> QED BY <1>2, <1>3, <1>4

\* No two accesses have the same id after the repair.
LEMMA RepairedIds ==
  ASSUME NEW p, IsPipeline(p)
  PROVE  /\ \A x \in Positions(p) : RepairedId(p, x) # Missing
         /\ \A x, y \in Positions(p) : x # y => RepairedId(p, x) # RepairedId(p, y)
<1> DEFINE used == usedIds(p)
           Earlier(x) == {y \in Positions(p) : Before(y, x) /\ ~KeepsId(p, y)}
           rank == [x \in Positions(p) |-> Cardinality(Earlier(x))]
<1>1. IsFiniteSet(Positions(p))
  BY PositionsFinite
<1>2. IsFiniteSet(used)
  <2> DEFINE kept == {y \in Positions(p) : KeepsId(p, y)}
             f == [x \in kept |-> Access(p, x).id]
  <2>1. IsFiniteSet(kept)
    BY <1>1, FS_Subset
  <2>2. used = {Access(p, x).id : x \in kept}
    BY DEF usedIds
  <2>3. f \in Surjection(kept, used)
    <3> HIDE DEF kept, used
    <3> QED BY <2>2 DEF Surjection
  <2> QED BY <2>1, <2>3, FS_Surjection
<1>3. ASSUME NEW x \in Positions(p)
      PROVE  IsFiniteSet(Earlier(x)) /\ rank[x] \in Nat
  <2>1. Earlier(x) \in SUBSET Positions(p)
    OBVIOUS
  <2>2. IsFiniteSet(Earlier(x))
    BY <1>1, <2>1, FS_Subset
  <2> QED BY <2>2, FS_CardinalityType
<1>4. ASSUME NEW x \in Positions(p), NEW y \in Positions(p), ~KeepsId(p, x), Before(x, y)
      PROVE  rank[x] # rank[y]
  <2>1. Earlier(x) \in SUBSET Earlier(y) /\ x \in Earlier(y) /\ x \notin Earlier(x)
    BY <1>4, BeforeIsOrder
  <2>2. Cardinality(Earlier(x)) # Cardinality(Earlier(y))
    BY <1>3, <2>1, FS_Subset
  <2>3. rank[x] = Cardinality(Earlier(x)) /\ rank[y] = Cardinality(Earlier(y))
    OBVIOUS
  <2> HIDE DEF Earlier, rank
  <2> QED BY <2>2, <2>3
<1>5. ASSUME NEW x \in Positions(p), ~KeepsId(p, x)
      PROVE  /\ RepairedId(p, x) \in Nat /\ RepairedId(p, x) \notin used
             /\ Cardinality((0 .. RepairedId(p, x) - 1) \ used) = rank[x]
  <2>1. RepairedId(p, x) = NthUnused(used, rank[x])
    BY <1>5 DEF RepairedId
  <2>2. rank[x] \in Nat
    BY <1>3
  <2> HIDE DEF rank, used
  <2> QED BY <1>2, <2>1, <2>2, UnusedFacts
<1>6. ASSUME NEW x \in Positions(p), KeepsId(p, x)
      PROVE  RepairedId(p, x) = Access(p, x).id /\ RepairedId(p, x) # Missing /\ RepairedId(p, x) \in used
  BY <1>6 DEF RepairedId, KeepsId, usedIds
<1> HIDE DEF used, rank, Earlier
<1>7. \A x \in Positions(p) : RepairedId(p, x) # Missing
  <2> TAKE x \in Positions(p)
  <2>1. ~KeepsId(p, x) => RepairedId(p, x) \in Nat
    BY <1>5
  <2>2. Missing \notin Nat
    BY DEF Missing
  <2> QED BY <1>6, <2>1, <2>2
<1>8. ASSUME NEW x \in Positions(p), NEW y \in Positions(p), x # y
      PROVE  RepairedId(p, x) # RepairedId(p, y)
  <2>1. CASE KeepsId(p, x) /\ KeepsId(p, y)
    BY <1>6, <1>8, <2>1 DEF KeepsId
  <2>2. CASE KeepsId(p, x) /\ ~KeepsId(p, y)
    BY <1>5, <1>6, <2>2
  <2>3. CASE ~KeepsId(p, x) /\ KeepsId(p, y)
    BY <1>5, <1>6, <2>3
  <2>4. CASE ~KeepsId(p, x) /\ ~KeepsId(p, y)
    <3>1. rank[x] # rank[y]
      BY <1>4, <1>8, <2>4, BeforeIsOrder
    <3> QED BY <1>5, <2>4, <3>1
  <2> QED BY <2>1, <2>2, <2>3, <2>4
<1> QED BY <1>7, <1>8

\* A projection that stands for one read stands for the same read when the ids are repaired.
StandsForOne(p) ==
  \A s \in Stages(p) : \A k \in DOMAIN p.stages[s].projections : ProjectionVerifies(p, s, k)

LEMMA RepairedProjections ==
  ASSUME NEW p, IsPipeline(p), NEW q, q = assignAccessIds(p), StandsForOne(p)
  PROVE  /\ StandsForOne(q)
         /\ \A x \in Reads(p) : ProjectionsOf(q, x) = ProjectionsOf(p, x)
<1> DEFINE For(r, s, k) == {x \in Reads(r) : x[1] = s /\ k \in ProjectionsOf(r, x)}
<1>q. /\ IsPipeline(q) /\ Same(p, q) /\ Stages(q) = Stages(p) /\ Reads(q) = Reads(p)
      /\ Positions(q) = Positions(p)
      /\ \A x \in Positions(p) : Access(q, x).id = RepairedId(p, x)
      /\ \A x \in Positions(p) : SameAccess(Access(p, x), Access(q, x))
      /\ \A s \in Stages(p) : \A k \in DOMAIN p.stages[s].projections :
           q.stages[s].projections[k].read_access
             = RepairedReference(p, s, p.stages[s].projections[k])
  <2>1. Same(p, q)
    BY RepairFacts
  <2> QED BY <2>1, RepairFacts, SameFacts DEF Same
<1>p. \A s \in Stages(p) : /\ DOMAIN q.stages[s].projections = DOMAIN p.stages[s].projections
                          /\ \A k \in DOMAIN p.stages[s].projections :
                               q.stages[s].projections[k].domain = p.stages[s].projections[k].domain
  BY <1>q DEF Same, SameStage
<1>1. ASSUME NEW s \in Stages(p), NEW k \in DOMAIN p.stages[s].projections
      PROVE  For(q, s, k) = For(p, s, k) /\ ProjectionVerifies(q, s, k)
  <2> DEFINE projection == p.stages[s].projections[k]
             named == {x \in Matches(p, s, "read", projection.buffer, projection.read_access) :
                         Access(p, x).index = projection.index}
  <2>v. ProjectionVerifies(p, s, k)
    BY DEF StandsForOne
  <2>1. \E x : For(p, s, k) = {x}
    <3>1. Cardinality(For(p, s, k)) = 1
      BY <2>v DEF ProjectionVerifies
    <3>2. For(p, s, k) \in SUBSET Reads(p)
      OBVIOUS
    <3>3. IsFiniteSet(For(p, s, k))
      BY <3>2, ReadsFinite, FS_Subset
    <3> HIDE DEF For
    <3> QED BY <3>1, <3>3, FS_Singleton
  <2>x. PICK x : For(p, s, k) = {x}
    BY <2>1
  <2>2. x \in Reads(p) /\ x[1] = s /\ k \in ProjectionsOf(p, x) /\ x \in Positions(p)
    BY <2>x, ReadsFinite
  <2>3. named = For(p, s, k)
    BY DEF Matches, Reads, ProjectionsOf
  <2>4. RepairedReference(p, s, projection) = RepairedId(p, x)
    <3>1. named = {x} /\ Cardinality(named) = 1 /\ (CHOOSE y \in named : TRUE) = x
      BY <2>x, <2>3, FS_Singleton
    <3>2. RepairedReference(p, s, projection) =
            IF Cardinality(named) = 1 THEN RepairedId(p, CHOOSE y \in named : TRUE)
            ELSE projection.read_access
      BY DEF RepairedReference
    <3> HIDE DEF named
    <3> QED BY <3>1, <3>2
  <2>5. /\ q.stages[s].projections[k].read_access = Access(q, x).id
        /\ q.stages[s].projections[k].buffer = Access(q, x).buffer
        /\ q.stages[s].projections[k].index = Access(q, x).index
        /\ k \in DOMAIN q.stages[s].projections
    <3>1. projection.buffer = Access(p, x).buffer /\ projection.index = Access(p, x).index
      BY <2>2 DEF ProjectionsOf
    <3> QED BY <1>q, <2>2, <2>4, <3>1 DEF Same, SameStage, SameAccess
  <2>6. x \in For(q, s, k)
    BY <1>q, <2>2, <2>5 DEF ProjectionsOf
  <2>7. \A y \in For(q, s, k) : y = x
    <3> TAKE y \in For(q, s, k)
    <3>1. y \in Positions(p) /\ k \in ProjectionsOf(q, y) /\ y[1] = s
      BY <1>q, ReadsFinite
    <3>2. q.stages[s].projections[k].read_access = Access(q, y).id
      BY <3>1 DEF ProjectionsOf
    <3>3. RepairedId(p, y) = RepairedId(p, x)
      BY <1>q, <2>2, <2>5, <3>1, <3>2
    <3> QED BY <2>2, <3>1, <3>3, RepairedIds
  <2> HIDE DEF For
  <2>8. For(q, s, k) = {x}
    BY <2>6, <2>7
  <2>9. Cardinality(For(q, s, k)) = 1
    BY <2>8, FS_Singleton
  <2>10. ProjectionVerifies(q, s, k)
    BY <1>p, <2>v, <2>9 DEF ProjectionVerifies, For
  <2> QED BY <2>x, <2>8, <2>10
<1>2. StandsForOne(q)
  BY <1>1, <1>p, <1>q DEF StandsForOne
<1>3. \A x \in Reads(p) : /\ x[1] \in Stages(p)
                         /\ \A r \in {p, q} : ProjectionsOf(r, x) \subseteq DOMAIN p.stages[x[1]].projections
  <2> TAKE x \in Reads(p)
  <2>1. x[1] \in Stages(p)
    BY ReadsFinite, PositionsAre
  <2> QED BY <1>p, <2>1 DEF ProjectionsOf
<1>4. ASSUME NEW x \in Reads(p), NEW k \in DOMAIN p.stages[x[1]].projections
      PROVE  k \in ProjectionsOf(q, x) <=> k \in ProjectionsOf(p, x)
  <2>1. x \in For(q, x[1], k) <=> x \in For(p, x[1], k)
    BY <1>1, <1>3
  <2> QED BY <1>q, <2>1
<1> QED BY <1>2, <1>3, <1>4

-----------------------------------------------------------------------------
(***************************************************************************)
(* The loop of the inference over the edges.                               *)
(***************************************************************************)
IsEdge(dep) ==
  {"producer", "consumer", "buffer", "producer_access", "consumer_access", "memory", "window",
   "finite_state", "domain", "states"} \subseteq DOMAIN dep

\* Two edges that lead from the same write to the same read.
SameEnds(dep, new) ==
  /\ new.producer = dep.producer /\ new.consumer = dep.consumer /\ new.buffer = dep.buffer
  /\ new.producer_access = dep.producer_access /\ new.consumer_access = dep.consumer_access
  /\ new.memory = dep.memory /\ new.window = dep.window

\* What the loop makes of an edge.
Inferred(p, dep, new) ==
  LET proof == Proof(p, Cleared(dep))
  IN  \/ proof.form = "none" /\ new = Cleared(dep)
      \/ proof.form # "none" /\ \E refs : refs # {} /\ new = Proven(Cleared(dep), proof, refs)

Target(p, dep) == CHOOSE y \in ConsumerAccess(p, dep) : TRUE

\* The annotation that a proven edge leaves on its read.
Annotated(p, notes, dep) ==
  LET proof == Proof(p, Cleared(dep))
  IN  proof.form # "none" => \E state : notes[Target(p, dep)] = Note(proof, state)

LEMMA SameEndsFacts ==
  ASSUME NEW dep, NEW new, SameEnds(dep, new)
  PROVE  /\ \A p : ConsumerAccess(p, new) = ConsumerAccess(p, dep)
         /\ \A p : ProducerAccess(p, new) = ProducerAccess(p, dep)
         /\ \A p : Target(p, new) = Target(p, dep)
         /\ \A p, x : ProofsFor(p, new, x) = ProofsFor(p, dep, x)
         /\ \A p : Proof(p, new) = Proof(p, dep)
         /\ \A p : ScanOutputDomain(p, new) = ScanOutputDomain(p, dep)
<1>1. \A p : ConsumerAccess(p, new) = ConsumerAccess(p, dep)
  BY DEF ConsumerAccess, SameEnds
<1>2. \A p : ProducerAccess(p, new) = ProducerAccess(p, dep)
  BY DEF ProducerAccess, SameEnds
<1>3. \A p : Target(p, new) = Target(p, dep)
  BY <1>1 DEF Target
<1>4. \A p : ScanOutputDomain(p, new) = ScanOutputDomain(p, dep)
  BY <1>2 DEF ScanOutputDomain, SameEnds
<1>5. \A p, x : ProofsFor(p, new, x) = ProofsFor(p, dep, x)
  <2> TAKE p, x
  <2>1. \A e : AgreesWithScan(p, new, e) <=> AgreesWithScan(p, dep, e)
    BY <1>2 DEF AgreesWithScan, SameEnds
  <2>2. ScanEvidence(p, new) = ScanEvidence(p, dep)
    BY <1>4 DEF ScanEvidence
  <2> QED BY <2>1, <2>2 DEF ProofsFor, SameEnds
<1>6. \A p : Proof(p, new) = Proof(p, dep)
  <2> TAKE p
  <2> DEFINE Found(d) == IF d.memory # "raw" THEN {}
                         ELSE UNION {ProofsFor(p, d, x) : x \in ConsumerAccess(p, d)}
  <2>1. new.memory = dep.memory
    BY DEF SameEnds
  <2>2. ConsumerAccess(p, new) = ConsumerAccess(p, dep)
    BY <1>1
  <2>3. {ProofsFor(p, new, x) : x \in ConsumerAccess(p, new)}
          = {ProofsFor(p, dep, x) : x \in ConsumerAccess(p, dep)}
    BY <1>5, <2>2
  <2>4. Found(new) = Found(dep)
    BY <2>1, <2>3
  <2>5. \A d : Proof(p, d) = IF Found(d) = {} THEN NoProof ELSE CHOOSE proof \in Found(d) : TRUE
    BY DEF Proof
  <2> HIDE DEF Found
  <2> QED BY <2>4, <2>5
<1> QED BY <1>1, <1>2, <1>3, <1>4, <1>5, <1>6

LEMMA ClearedFacts ==
  ASSUME NEW dep, IsEdge(dep)
  PROVE  /\ IsEdge(Cleared(dep)) /\ SameEnds(dep, Cleared(dep))
         /\ Cleared(dep).finite_state = "none" /\ Cleared(dep).domain = NoDomain
         /\ Cleared(dep).states = {}
BY DEF IsEdge, Cleared, SameEnds

LEMMA InferredFacts ==
  ASSUME NEW p, NEW dep, IsEdge(dep), NEW new, Inferred(p, dep, new)
  PROVE  /\ IsEdge(new) /\ SameEnds(dep, new)
         /\ Proof(p, Cleared(dep)).form = "none" =>
              new.finite_state = "none" /\ new.domain = NoDomain /\ new.states = {}
         /\ Proof(p, Cleared(dep)).form # "none" =>
              /\ new.finite_state = "proven" /\ new.domain = Proof(p, Cleared(dep)).domain
              /\ new.states # {}
<1> DEFINE bare == Cleared(dep)
           proof == Proof(p, Cleared(dep))
<1>1. /\ IsEdge(bare) /\ SameEnds(dep, bare)
      /\ bare.finite_state = "none" /\ bare.domain = NoDomain /\ bare.states = {}
  BY ClearedFacts
<1>2. CASE proof.form = "none"
  BY <1>1, <1>2 DEF Inferred
<1>3. CASE proof.form # "none"
  <2>1. PICK refs : refs # {} /\ new = Proven(bare, proof, refs)
    BY <1>3 DEF Inferred
  <2> HIDE DEF bare, proof
  <2>2. /\ IsEdge(new) /\ SameEnds(bare, new)
        /\ new.finite_state = "proven" /\ new.domain = proof.domain /\ new.states = refs
    BY <1>1, <2>1 DEF Proven, IsEdge, SameEnds
  <2> QED BY <1>1, <1>3, <2>1, <2>2 DEF SameEnds, proof
<1> QED BY <1>2, <1>3

LEMMA AppendTo ==
  ASSUME NEW s, IsList(s), NEW e
  PROVE  /\ IsList(Append(s, e)) /\ Len(Append(s, e)) = Len(s) + 1
         /\ \A k \in 1 .. Len(s) : Append(s, e)[k] = s[k]
         /\ Append(s, e)[Len(s) + 1] = e
<1> DEFINE S == ToSet(s) \cup {e}
<1>1. s \in Seq(ToSet(s)) /\ Len(s) \in Nat
  BY ListFacts DEF IsList
<1>2. s \in Seq(S) /\ e \in S
  <2>1. s \in [1 .. Len(s) -> ToSet(s)]
    BY <1>1
  <2>2. s \in [1 .. Len(s) -> S]
    BY <2>1
  <2> QED BY <1>1, <2>2
<1> HIDE DEF S
<1>3. /\ Append(s, e) \in Seq(S) /\ Len(Append(s, e)) = Len(s) + 1
      /\ \A k \in 1 .. Len(s) : Append(s, e)[k] = s[k]
      /\ Append(s, e)[Len(s) + 1] = e
  BY <1>2
<1>4. Append(s, e) = [i \in 1 .. Len(s) + 1 |-> Append(s, e)[i]]
  <2> DEFINE r == Append(s, e)
  <2>1. Len(r) = Len(s) + 1 /\ r \in Seq(S)
    BY <1>3
  <2> HIDE DEF r
  <2>2. r \in [1 .. Len(r) -> S]
    BY <2>1
  <2>3. r = [i \in 1 .. Len(r) |-> r[i]]
    BY <2>2
  <2> QED BY <2>1, <2>3 DEF r
<1>5. IsList(Append(s, e))
  BY <1>1, <1>4, IsListOf
<1> QED BY <1>3, <1>5

\* One round of the loop.
IsAccumulator(p, acc) ==
  /\ {"next", "states", "notes", "dependencies", "scan_states", "recurrence_states"} \subseteq DOMAIN acc
  /\ DOMAIN acc.notes = Reads(p)
  /\ IsList(acc.dependencies)

LEMMA ProveEdgeFacts ==
  ASSUME NEW p, NEW acc, IsAccumulator(p, acc), NEW dep, IsEdge(dep),
         NEW next, next = ProveEdge(p, acc, Cleared(dep))
  PROVE  /\ IsAccumulator(p, next)
         /\ \E new : Inferred(p, dep, new) /\ next.dependencies = Append(acc.dependencies, new)
         /\ \A x \in Reads(p) : x # Target(p, dep) => next.notes[x] = acc.notes[x]
         /\ Target(p, dep) \in Reads(p) => Annotated(p, next.notes, dep)
<1> DEFINE bare == Cleared(dep)
           proof == Proof(p, bare)
           x == Target(p, dep)
<1>1. SameEnds(dep, bare) /\ Target(p, bare) = x
  BY ClearedFacts, SameEndsFacts
<1>2. x = CHOOSE y \in ConsumerAccess(p, bare) : TRUE
  BY <1>1 DEF Target
<1>a. {"next", "states", "notes", "dependencies", "scan_states", "recurrence_states"} \subseteq DOMAIN acc
  BY DEF IsAccumulator
<1>3. CASE proof.form = "none"
  <2>1. next = [acc EXCEPT !.dependencies = Append(@, bare)]
    BY <1>3 DEF ProveEdge
  <2>2. DOMAIN next = DOMAIN acc /\ next.notes = acc.notes /\ next.dependencies = Append(acc.dependencies, bare)
    BY <1>a, <2>1
  <2>3. Inferred(p, dep, bare)
    BY <1>3 DEF Inferred
  <2>4. IsAccumulator(p, next)
    BY <2>2, AppendTo DEF IsAccumulator
  <2> QED BY <1>3, <2>2, <2>3, <2>4 DEF Annotated
<1>4. ASSUME NEW refs, refs # {}, NEW state, proof.form # "none",
             next.dependencies = Append(acc.dependencies, Proven(bare, proof, refs)),
             DOMAIN next = DOMAIN acc, next.notes = [acc.notes EXCEPT ![x] = Note(proof, state)]
      PROVE  /\ IsAccumulator(p, next)
             /\ \E new : Inferred(p, dep, new) /\ next.dependencies = Append(acc.dependencies, new)
             /\ \A y \in Reads(p) : y # x => next.notes[y] = acc.notes[y]
             /\ x \in Reads(p) => Annotated(p, next.notes, dep)
  <2>1. Inferred(p, dep, Proven(bare, proof, refs))
    BY <1>4 DEF Inferred
  <2>2. DOMAIN next.notes = Reads(p) /\ \A y \in Reads(p) : y # x => next.notes[y] = acc.notes[y]
    BY <1>4 DEF IsAccumulator
  <2>3. x \in Reads(p) => next.notes[x] = Note(proof, state)
    BY <1>4 DEF IsAccumulator
  <2>4. IsAccumulator(p, next)
    BY <1>4, <2>2, AppendTo DEF IsAccumulator
  <2> QED BY <1>4, <2>1, <2>2, <2>3, <2>4 DEF Annotated
<1>5. CASE proof.form \in {"scan", "scan_projection"}
  <2>1. next = ProveByScan(acc, x, bare, proof)
    BY <1>2, <1>5 DEF ProveEdge
  <2>2. \E refs : /\ refs # {} /\ DOMAIN next = DOMAIN acc
                  /\ next.dependencies = Append(acc.dependencies, Proven(bare, proof, refs))
                  /\ next.notes = [acc.notes EXCEPT ![x] = Note(proof, acc.next)]
    <3> DEFINE key == <<bare.producer, bare.buffer>>
               known == key \in DOMAIN acc.scan_states
               name == IF known THEN acc.scan_states[key] ELSE acc.next + 1
               refs == {<<bare.producer, name>>, <<bare.consumer, acc.next>>}
    <3>1. refs # {}
      OBVIOUS
    <3>2. /\ DOMAIN next = DOMAIN acc
          /\ next.dependencies = Append(acc.dependencies, Proven(bare, proof, refs))
          /\ next.notes = [acc.notes EXCEPT ![x] = Note(proof, acc.next)]
      <4> HIDE DEF bare, proof, x
      <4> QED BY <1>a, <2>1 DEF ProveByScan
    <3> QED BY <3>1, <3>2
  <2> HIDE DEF x, bare, proof
  <2>3. proof.form # "none"
    BY <1>5
  <2> QED BY <1>4, <2>2, <2>3 DEF x
<1>6. CASE proof.form = "recurrence"
  <2>1. next = ProveByRecurrence(acc, x, Access(p, x), bare, proof)
    BY <1>2, <1>6 DEF ProveEdge
  <2>2. \E refs, state : /\ refs # {} /\ DOMAIN next = DOMAIN acc
                  /\ next.dependencies = Append(acc.dependencies, Proven(bare, proof, refs))
                  /\ next.notes = [acc.notes EXCEPT ![x] = Note(proof, state)]
    <3> DEFINE key == <<bare.consumer, Access(p, x).recurrence>>
               known == key \in DOMAIN acc.recurrence_states
               name == IF known THEN acc.recurrence_states[key] ELSE acc.next
               refs == {<<bare.consumer, name>>}
    <3>1. refs # {}
      OBVIOUS
    <3>2. /\ DOMAIN next = DOMAIN acc
          /\ next.dependencies = Append(acc.dependencies, Proven(bare, proof, refs))
          /\ next.notes = [acc.notes EXCEPT ![x] = Note(proof, name)]
      <4> HIDE DEF bare, proof, x
      <4> QED BY <1>a, <2>1 DEF ProveByRecurrence
    <3> QED BY <3>1, <3>2
  <2> HIDE DEF x, bare, proof
  <2>3. proof.form # "none"
    BY <1>6
  <2> QED BY <1>4, <2>2, <2>3 DEF x
<1>7. CASE proof.form \notin {"none", "scan", "scan_projection", "recurrence"}
  <2>1. next = ProveByProjection(acc, x, bare, proof)
    BY <1>2, <1>7 DEF ProveEdge
  <2>2. \E refs : /\ refs # {} /\ DOMAIN next = DOMAIN acc
                  /\ next.dependencies = Append(acc.dependencies, Proven(bare, proof, refs))
                  /\ next.notes = [acc.notes EXCEPT ![x] = Note(proof, acc.next)]
    <3> DEFINE refs == {<<bare.consumer, acc.next>>}
    <3>1. refs # {}
      OBVIOUS
    <3>2. /\ DOMAIN next = DOMAIN acc
          /\ next.dependencies = Append(acc.dependencies, Proven(bare, proof, refs))
          /\ next.notes = [acc.notes EXCEPT ![x] = Note(proof, acc.next)]
      <4> HIDE DEF bare, proof, x
      <4> QED BY <1>a, <2>1 DEF ProveByProjection
    <3> QED BY <3>1, <3>2
  <2> HIDE DEF x, bare, proof
  <2>3. proof.form # "none"
    BY <1>7
  <2> QED BY <1>4, <2>2, <2>3 DEF x
<1> QED BY <1>3, <1>5, <1>6, <1>7

\* A proof is one of those there are for a read at the end of the edge.
LEMMA ProofFrom ==
  ASSUME NEW p, NEW dep, NEW x, ConsumerAccess(p, dep) = {x}
  PROVE  /\ Proof(p, dep).form # "none" =>
              dep.memory = "raw" /\ Proof(p, dep) \in ProofsFor(p, dep, x)
         /\ dep.memory = "raw" /\ ProofsFor(p, dep, x) # {} =>
              Proof(p, dep) \in ProofsFor(p, dep, x)
         /\ \A proof \in ProofsFor(p, dep, x) : proof.form # "none"
<1> DEFINE found == IF dep.memory # "raw" THEN {}
                    ELSE UNION {ProofsFor(p, dep, y) : y \in ConsumerAccess(p, dep)}
<1>1. dep.memory = "raw" => found = ProofsFor(p, dep, x)
  OBVIOUS
<1>2. dep.memory # "raw" => found = {}
  OBVIOUS
<1>3. Proof(p, dep) = IF found = {} THEN NoProof ELSE CHOOSE proof \in found : TRUE
  BY DEF Proof
<1>4. \A proof \in ProofsFor(p, dep, x) : proof.form # "none"
  BY DEF ProofsFor
<1>5. NoProof.form = "none"
  BY DEF NoProof
<1> HIDE DEF found
<1> QED BY <1>1, <1>2, <1>3, <1>4, <1>5

\* What a proof rests on.
LEMMA FormFacts ==
  ASSUME NEW p, NEW dep, NEW x, NEW proof \in ProofsFor(p, dep, x)
  PROVE  /\ proof.form \in {"scan", "scan_projection", "projected_state", "recurrence", "neighbor"}
         /\ proof.form \in {"scan", "scan_projection"} => IsScan(p, dep.producer)
         /\ proof.form \in {"recurrence", "neighbor"} => ~IsScan(p, dep.producer)
         /\ proof.form = "projected_state" => dep.window
         /\ proof.form = "scan" =>
              proof.domain = ScanOutputDomain(p, dep) /\ proof.domain # NoDomain
         /\ proof.form \in {"scan_projection", "projected_state", "neighbor"} =>
              proof.domain \in ProjectedDomain(p, x)
         /\ proof.form = "recurrence" =>
              proof.domain = RecurrenceDomain(p, x) /\ proof.domain # NoDomain
BY DEF ProofsFor, ScanEvidence, IsPositive

-----------------------------------------------------------------------------
(***************************************************************************)
(* The states that the loop makes, and what refers to them.                *)
(***************************************************************************)
Names(states, ref, domain) ==
  \E st \in states : st.stage = ref[1] /\ st.name = ref[2] /\ st.domain = domain

ScanKey(dep) == <<dep.producer, dep.buffer>>

\* Each state has a name of its own, below the next free one.
Named(acc) ==
  /\ acc.next \in Nat
  /\ \A st \in acc.states : st.name \in 0 .. acc.next - 1
  /\ \A st, other \in acc.states : st.name = other.name => st = other

\* A proven edge refers to states of its own domain, and one that leads from a scan to the state
\* that all edges from that scan share.
Refers(p, acc, dep) ==
  dep.finite_state = "proven" =>
    LET shared == <<dep.producer, acc.scan_states[ScanKey(dep)]>>
    IN  /\ IsScan(p, dep.producer) => ScanKey(dep) \in DOMAIN acc.scan_states /\ shared \in dep.states
        /\ \A ref \in dep.states : \/ Names(acc.states, ref, dep.domain)
                                   \/ IsScan(p, dep.producer) /\ ref = shared

\* The state of a scan has the domain of one of its edges.
HasDomainOf(p, states, name, key, dep) ==
  /\ IsScan(p, dep.producer) /\ ScanKey(dep) = key /\ dep.domain # NoDomain
  /\ Names(states, <<key[1], name>>, dep.domain)

\* The state of a recurrence has the domain of the recurrence.
HasDomainOfLoop(p, states, name, key) ==
  Names(states, <<key[1], name>>, p.stages[key[1]].recurrences[key[2]].state_domain)

Tracks(p, acc) ==
  /\ Named(acc)
  /\ \A key \in DOMAIN acc.scan_states :
       \E k \in DOMAIN acc.dependencies :
         HasDomainOf(p, acc.states, acc.scan_states[key], key, acc.dependencies[k])
  /\ \A key \in DOMAIN acc.recurrence_states :
       HasDomainOfLoop(p, acc.states, acc.recurrence_states[key], key)
  /\ \A k \in DOMAIN acc.dependencies : Refers(p, acc, acc.dependencies[k])

Extends(f, g) == DOMAIN f \subseteq DOMAIN g /\ \A k \in DOMAIN f : g[k] = f[k]

\* States are only added, with names that were free.
Fresh(acc, next) ==
  /\ next.next \in Nat /\ acc.next <= next.next /\ acc.states \subseteq next.states
  /\ \A st \in next.states \ acc.states : st.name \in acc.next .. next.next - 1
  /\ \A st, other \in next.states \ acc.states : st.name = other.name => st = other

LEMMA Grow ==
  ASSUME NEW p, NEW acc, Tracks(p, acc), IsList(acc.dependencies), NEW next, Fresh(acc, next),
         NEW new, next.dependencies = Append(acc.dependencies, new),
         Extends(acc.scan_states, next.scan_states),
         Extends(acc.recurrence_states, next.recurrence_states),
         \A key \in DOMAIN next.scan_states \ DOMAIN acc.scan_states :
           HasDomainOf(p, next.states, next.scan_states[key], key, new),
         \A key \in DOMAIN next.recurrence_states \ DOMAIN acc.recurrence_states :
           HasDomainOfLoop(p, next.states, next.recurrence_states[key], key),
         Refers(p, next, new)
  PROVE  Tracks(p, next)
<1> DEFINE n == Len(acc.dependencies)
<1>1. /\ n \in Nat /\ DOMAIN acc.dependencies = 1 .. n /\ DOMAIN next.dependencies = 1 .. n + 1
      /\ \A k \in 1 .. n : next.dependencies[k] = acc.dependencies[k]
      /\ next.dependencies[n + 1] = new
  <2>1. IsList(Append(acc.dependencies, new)) /\ Len(Append(acc.dependencies, new)) = n + 1
    BY AppendTo
  <2> QED BY <2>1, ListFacts, AppendTo
<1> HIDE DEF n
<1>2. Named(next)
  <2>1. /\ acc.next \in Nat /\ next.next \in Nat /\ acc.next <= next.next
        /\ \A st \in acc.states : st.name \in 0 .. acc.next - 1
        /\ \A st \in next.states \ acc.states : st.name \in acc.next .. next.next - 1
    BY DEF Tracks, Named, Fresh
  <2>2. \A st \in next.states : st.name \in 0 .. next.next - 1
    <3> TAKE st \in next.states
    <3>1. CASE st \in acc.states
      BY <2>1, <3>1
    <3>2. CASE st \notin acc.states
      BY <2>1, <3>2
    <3> QED BY <3>1, <3>2
  <2>3. \A st, other \in next.states : st.name = other.name => st = other
    <3> TAKE st, other \in next.states
    <3>1. CASE st \in acc.states /\ other \in acc.states
      BY <3>1 DEF Tracks, Named
    <3>2. CASE st \notin acc.states /\ other \notin acc.states
      BY <3>2 DEF Fresh
    <3>3. CASE st \in acc.states /\ other \notin acc.states
      <4>1. st.name \in 0 .. acc.next - 1 /\ other.name \in acc.next .. next.next - 1
        BY <2>1, <3>3
      <4> QED BY <2>1, <4>1
    <3>4. CASE st \notin acc.states /\ other \in acc.states
      <4>1. other.name \in 0 .. acc.next - 1 /\ st.name \in acc.next .. next.next - 1
        BY <2>1, <3>4
      <4> QED BY <2>1, <4>1
    <3> QED BY <3>1, <3>2, <3>3, <3>4
  <2> QED BY <2>1, <2>2, <2>3 DEF Named
<1>3. \A ref, d : Names(acc.states, ref, d) => Names(next.states, ref, d)
  BY DEF Names, Fresh
<1>4. ASSUME NEW key \in DOMAIN next.scan_states
      PROVE  \E k \in DOMAIN next.dependencies :
               HasDomainOf(p, next.states, next.scan_states[key], key, next.dependencies[k])
  <2>1. CASE key \in DOMAIN acc.scan_states
    <3>1. PICK k \in DOMAIN acc.dependencies :
            HasDomainOf(p, acc.states, acc.scan_states[key], key, acc.dependencies[k])
      BY <2>1 DEF Tracks
    <3>2. next.scan_states[key] = acc.scan_states[key]
      BY <2>1 DEF Extends
    <3>3. k \in DOMAIN next.dependencies /\ next.dependencies[k] = acc.dependencies[k]
      BY <1>1
    <3> QED BY <1>3, <3>1, <3>2, <3>3 DEF HasDomainOf
  <2>2. CASE key \notin DOMAIN acc.scan_states
    <3>1. n + 1 \in DOMAIN next.dependencies
      BY <1>1
    <3> QED BY <1>1, <2>2, <3>1
  <2> QED BY <2>1, <2>2
<1>5. ASSUME NEW key \in DOMAIN next.recurrence_states
      PROVE  HasDomainOfLoop(p, next.states, next.recurrence_states[key], key)
  <2>1. CASE key \in DOMAIN acc.recurrence_states
    <3>1. HasDomainOfLoop(p, acc.states, acc.recurrence_states[key], key)
      BY <2>1 DEF Tracks
    <3>2. next.recurrence_states[key] = acc.recurrence_states[key]
      BY <2>1 DEF Extends
    <3> QED BY <1>3, <3>1, <3>2 DEF HasDomainOfLoop
  <2>2. CASE key \notin DOMAIN acc.recurrence_states
    BY <2>2
  <2> QED BY <2>1, <2>2
<1>6. ASSUME NEW k \in 1 .. n
      PROVE  Refers(p, next, acc.dependencies[k])
  <2>1. Refers(p, acc, acc.dependencies[k])
    BY <1>1 DEF Tracks
  <2>2. ScanKey(acc.dependencies[k]) \in DOMAIN acc.scan_states =>
          /\ ScanKey(acc.dependencies[k]) \in DOMAIN next.scan_states
          /\ next.scan_states[ScanKey(acc.dependencies[k])] = acc.scan_states[ScanKey(acc.dependencies[k])]
    BY DEF Extends
  <2> QED BY <1>3, <2>1, <2>2 DEF Refers
<1>7. \A k \in DOMAIN next.dependencies : Refers(p, next, next.dependencies[k])
  <2> TAKE k \in DOMAIN next.dependencies
  <2>1. CASE k = n + 1
    BY <1>1, <2>1
  <2>2. CASE k # n + 1
    <3>1. k \in 1 .. n
      BY <1>1, <2>2
    <3> QED BY <1>1, <1>6, <3>1
  <2> QED BY <2>1, <2>2
<1> QED BY <1>2, <1>4, <1>5, <1>7 DEF Tracks

LEMMA ProvenFacts ==
  ASSUME NEW dep, IsEdge(dep), NEW proof, NEW refs
  PROVE  /\ Proven(dep, proof, refs).finite_state = "proven"
         /\ Proven(dep, proof, refs).domain = proof.domain
         /\ Proven(dep, proof, refs).states = refs
         /\ Proven(dep, proof, refs).producer = dep.producer
         /\ Proven(dep, proof, refs).consumer = dep.consumer
         /\ ScanKey(Proven(dep, proof, refs)) = ScanKey(dep)
BY DEF Proven, IsEdge, ScanKey

LEMMA NamesNew ==
  ASSUME NEW states, NEW s, NEW name, NEW domain, NEW transition,
         NewState(s, name, domain, transition) \in states
  PROVE  Names(states, <<s, name>>, domain)
<1> DEFINE st == NewState(s, name, domain, transition)
<1>1. st.stage = s /\ st.name = name /\ st.domain = domain
  BY DEF NewState
<1>2. <<s, name>>[1] = s /\ <<s, name>>[2] = name
  OBVIOUS
<1> HIDE DEF st
<1> QED BY <1>1, <1>2 DEF Names, st

LEMMA TrackScan ==
  ASSUME NEW p, NEW acc, IsAccumulator(p, acc), Tracks(p, acc), NEW dep, IsEdge(dep),
         NEW x, NEW proof, IsScan(p, dep.producer), proof.domain # NoDomain
  PROVE  Tracks(p, ProveByScan(acc, x, dep, proof))
<1> DEFINE next == ProveByScan(acc, x, dep, proof)
           key == ScanKey(dep)
           known == key \in DOMAIN acc.scan_states
           name == IF known THEN acc.scan_states[key] ELSE acc.next + 1
           mine == NewState(dep.consumer, acc.next, proof.domain, "prefix_state_projection")
           scans == NewState(dep.producer, name, proof.domain, "scan")
           refs == {<<dep.producer, name>>, <<dep.consumer, acc.next>>}
           new == Proven(dep, proof, refs)
<1>1. /\ next.next = acc.next + (IF known THEN 1 ELSE 2)
      /\ next.states = acc.states \cup {mine} \cup (IF known THEN {} ELSE {scans})
      /\ next.scan_states = [k \in DOMAIN acc.scan_states \cup {key} |->
                               IF k = key THEN name ELSE acc.scan_states[k]]
      /\ next.recurrence_states = acc.recurrence_states
      /\ next.dependencies = Append(acc.dependencies, new)
  <2>1. {"next", "states", "notes", "dependencies", "scan_states", "recurrence_states"} \subseteq DOMAIN acc
    BY DEF IsAccumulator
  <2> QED BY <2>1 DEF ProveByScan, ScanKey
<1>2. /\ new.finite_state = "proven" /\ new.domain = proof.domain /\ new.states = refs
      /\ new.producer = dep.producer /\ ScanKey(new) = key
  BY ProvenFacts
<1>3. mine.name = acc.next /\ scans.name = name
  BY DEF NewState
<1>4. key[1] = dep.producer
  BY DEF ScanKey
<1>5. acc.next \in Nat /\ IsList(acc.dependencies)
  BY DEF Tracks, Named, IsAccumulator
<1>m. Names(next.states, <<dep.consumer, acc.next>>, proof.domain)
  BY <1>1, NamesNew
<1>s. ~known => Names(next.states, <<dep.producer, name>>, proof.domain)
  BY <1>1, NamesNew
<1>6. ~known => name = acc.next + 1
  OBVIOUS
<1>7. known => name = acc.scan_states[key]
  OBVIOUS
<1>8. refs = {<<dep.producer, name>>, <<dep.consumer, acc.next>>}
  OBVIOUS
<1>9. known <=> key \in DOMAIN acc.scan_states
  OBVIOUS
<1> HIDE DEF next, key, known, name, mine, scans, refs, new
<1>10. Fresh(acc, next)
  <2>1. next.next \in Nat /\ acc.next <= next.next /\ acc.states \subseteq next.states
    BY <1>1, <1>5
  <2>2. \A st \in next.states \ acc.states : st = mine \/ (~known /\ st = scans)
    BY <1>1
  <2>3. \A st \in next.states \ acc.states : st.name \in acc.next .. next.next - 1
    BY <1>1, <1>3, <1>5, <1>6, <2>2
  <2>4. \A st, other \in next.states \ acc.states : st.name = other.name => st = other
    BY <1>3, <1>5, <1>6, <2>2
  <2> QED BY <2>1, <2>3, <2>4 DEF Fresh
<1>11. /\ Extends(acc.scan_states, next.scan_states)
       /\ Extends(acc.recurrence_states, next.recurrence_states)
       /\ DOMAIN next.scan_states = DOMAIN acc.scan_states \cup {key} /\ next.scan_states[key] = name
  BY <1>1, <1>7, <1>9 DEF Extends
<1>12. \A k \in DOMAIN next.scan_states \ DOMAIN acc.scan_states :
         HasDomainOf(p, next.states, next.scan_states[k], k, new)
  <2> TAKE k \in DOMAIN next.scan_states \ DOMAIN acc.scan_states
  <2>1. k = key /\ ~known
    BY <1>9, <1>11
  <2> QED BY <1>2, <1>4, <1>11, <1>s, <2>1 DEF HasDomainOf
<1>13. Refers(p, next, new)
  <2>1. key \in DOMAIN next.scan_states /\ next.scan_states[ScanKey(new)] = name
    BY <1>2, <1>11
  <2>2. \A ref \in refs : ref = <<dep.producer, name>> \/ Names(next.states, ref, proof.domain)
    BY <1>8, <1>m
  <2>3. <<dep.producer, name>> \in refs
    BY <1>8
  <2> QED BY <1>2, <2>1, <2>2, <2>3 DEF Refers
<1>14. Tracks(p, next)
  BY <1>1, <1>5, <1>10, <1>11, <1>12, <1>13, Grow
<1> QED BY <1>14 DEF next

LEMMA TrackRecurrence ==
  ASSUME NEW p, NEW acc, IsAccumulator(p, acc), Tracks(p, acc), NEW dep, IsEdge(dep),
         NEW x, NEW a, NEW proof, ~IsScan(p, dep.producer),
         p.stages[dep.consumer].recurrences[a.recurrence].state_domain = proof.domain
  PROVE  Tracks(p, ProveByRecurrence(acc, x, a, dep, proof))
<1> DEFINE next == ProveByRecurrence(acc, x, a, dep, proof)
           key == <<dep.consumer, a.recurrence>>
           known == key \in DOMAIN acc.recurrence_states
           name == IF known THEN acc.recurrence_states[key] ELSE acc.next
           mine == NewState(dep.consumer, name, proof.domain, "recurrence")
           refs == {<<dep.consumer, name>>}
           new == Proven(dep, proof, refs)
<1>1. /\ next.next = acc.next + (IF known THEN 0 ELSE 1)
      /\ next.states = acc.states \cup (IF known THEN {} ELSE {mine})
      /\ next.recurrence_states = [k \in DOMAIN acc.recurrence_states \cup {key} |->
                                     IF k = key THEN name ELSE acc.recurrence_states[k]]
      /\ next.scan_states = acc.scan_states
      /\ next.dependencies = Append(acc.dependencies, new)
  <2>1. {"next", "states", "notes", "dependencies", "scan_states", "recurrence_states"} \subseteq DOMAIN acc
    BY DEF IsAccumulator
  <2> QED BY <2>1 DEF ProveByRecurrence
<1>2. /\ new.finite_state = "proven" /\ new.domain = proof.domain /\ new.states = refs
      /\ new.producer = dep.producer
  BY ProvenFacts
<1>3. mine.name = name
  BY DEF NewState
<1>4. key[1] = dep.consumer /\ key[2] = a.recurrence
  OBVIOUS
<1>5. acc.next \in Nat /\ IsList(acc.dependencies)
  BY DEF Tracks, Named, IsAccumulator
<1>6. Names(next.states, <<dep.consumer, name>>, proof.domain)
  <2>1. CASE known
    <3>1. HasDomainOfLoop(p, acc.states, acc.recurrence_states[key], key)
      BY <2>1 DEF Tracks
    <3>2. Names(acc.states, <<dep.consumer, name>>, proof.domain)
      BY <1>4, <2>1, <3>1 DEF HasDomainOfLoop
    <3> QED BY <1>1, <3>2 DEF Names
  <2>2. CASE ~known
    BY <1>1, <2>2, NamesNew
  <2> QED BY <2>1, <2>2
<1>7. known => name = acc.recurrence_states[key]
  OBVIOUS
<1>8. ~known => name = acc.next
  OBVIOUS
<1>9. known <=> key \in DOMAIN acc.recurrence_states
  OBVIOUS
<1>r. refs = {<<dep.consumer, name>>}
  OBVIOUS
<1> HIDE DEF next, key, known, name, mine, refs, new
<1>10. Fresh(acc, next)
  <2>1. next.next \in Nat /\ acc.next <= next.next /\ acc.states \subseteq next.states
    BY <1>1, <1>5
  <2>2. \A st \in next.states \ acc.states : ~known /\ st = mine
    BY <1>1
  <2>3. \A st \in next.states \ acc.states : st.name \in acc.next .. next.next - 1
    BY <1>1, <1>3, <1>5, <1>8, <2>2
  <2> QED BY <2>1, <2>2, <2>3 DEF Fresh
<1>11. /\ Extends(acc.scan_states, next.scan_states)
       /\ Extends(acc.recurrence_states, next.recurrence_states)
       /\ DOMAIN next.recurrence_states = DOMAIN acc.recurrence_states \cup {key}
       /\ next.recurrence_states[key] = name
  BY <1>1, <1>7, <1>9 DEF Extends
<1>12. \A k \in DOMAIN next.recurrence_states \ DOMAIN acc.recurrence_states :
         HasDomainOfLoop(p, next.states, next.recurrence_states[k], k)
  <2> TAKE k \in DOMAIN next.recurrence_states \ DOMAIN acc.recurrence_states
  <2>1. k = key
    BY <1>11
  <2> QED BY <1>4, <1>6, <1>11, <2>1 DEF HasDomainOfLoop
<1>13. \A k \in DOMAIN next.scan_states \ DOMAIN acc.scan_states :
         HasDomainOf(p, next.states, next.scan_states[k], k, new)
  BY <1>1
<1>14. Refers(p, next, new)
  BY <1>2, <1>6, <1>r DEF Refers
<1>15. Tracks(p, next)
  BY <1>1, <1>5, <1>10, <1>11, <1>12, <1>13, <1>14, Grow
<1> QED BY <1>15 DEF next

LEMMA TrackProjection ==
  ASSUME NEW p, NEW acc, IsAccumulator(p, acc), Tracks(p, acc), NEW dep, IsEdge(dep),
         NEW x, NEW proof, ~IsScan(p, dep.producer)
  PROVE  Tracks(p, ProveByProjection(acc, x, dep, proof))
<1> DEFINE next == ProveByProjection(acc, x, dep, proof)
           mine == NewState(dep.consumer, acc.next, proof.domain, proof.form)
           refs == {<<dep.consumer, acc.next>>}
           new == Proven(dep, proof, refs)
<1>1. /\ next.next = acc.next + 1 /\ next.states = acc.states \cup {mine}
      /\ next.recurrence_states = acc.recurrence_states /\ next.scan_states = acc.scan_states
      /\ next.dependencies = Append(acc.dependencies, new)
  <2>1. {"next", "states", "notes", "dependencies", "scan_states", "recurrence_states"} \subseteq DOMAIN acc
    BY DEF IsAccumulator
  <2> QED BY <2>1 DEF ProveByProjection
<1>2. /\ new.finite_state = "proven" /\ new.domain = proof.domain /\ new.states = refs
      /\ new.producer = dep.producer
  BY ProvenFacts
<1>3. mine.name = acc.next
  BY DEF NewState
<1>5. acc.next \in Nat /\ IsList(acc.dependencies)
  BY DEF Tracks, Named, IsAccumulator
<1>6. Names(next.states, <<dep.consumer, acc.next>>, proof.domain)
  BY <1>1, NamesNew
<1>r. refs = {<<dep.consumer, acc.next>>}
  OBVIOUS
<1> HIDE DEF next, mine, refs, new
<1>10. Fresh(acc, next)
  <2>1. next.next \in Nat /\ acc.next <= next.next /\ acc.states \subseteq next.states
    BY <1>1, <1>5
  <2>2. \A st \in next.states \ acc.states : st = mine
    BY <1>1
  <2>3. \A st \in next.states \ acc.states : st.name \in acc.next .. next.next - 1
    BY <1>1, <1>3, <1>5, <2>2
  <2> QED BY <2>1, <2>2, <2>3 DEF Fresh
<1>11. /\ Extends(acc.scan_states, next.scan_states)
       /\ Extends(acc.recurrence_states, next.recurrence_states)
  BY <1>1 DEF Extends
<1>12. /\ \A k \in DOMAIN next.recurrence_states \ DOMAIN acc.recurrence_states :
            HasDomainOfLoop(p, next.states, next.recurrence_states[k], k)
       /\ \A k \in DOMAIN next.scan_states \ DOMAIN acc.scan_states :
            HasDomainOf(p, next.states, next.scan_states[k], k, new)
  BY <1>1
<1>14. Refers(p, next, new)
  BY <1>2, <1>6, <1>r DEF Refers
<1>15. Tracks(p, next)
  BY <1>1, <1>5, <1>10, <1>11, <1>12, <1>14, Grow
<1> QED BY <1>15 DEF next

\* What the loop knows of an edge it works on.
Workable(p, dep) ==
  LET x == Target(p, dep)
  IN  /\ ConsumerAccess(p, dep) = {x} /\ x[1] = dep.consumer
      /\ IsScan(p, dep.producer) => ~dep.window
      /\ NoDomain \notin ProjectedDomain(p, x)

LEMMA TrackStep ==
  ASSUME NEW p, NEW acc, IsAccumulator(p, acc), Tracks(p, acc), NEW dep, IsEdge(dep), Workable(p, dep)
  PROVE  Tracks(p, ProveEdge(p, acc, Cleared(dep)))
<1> DEFINE bare == Cleared(dep)
           proof == Proof(p, bare)
           x == Target(p, dep)
           next == ProveEdge(p, acc, bare)
<1>1. /\ SameEnds(dep, bare) /\ IsEdge(bare) /\ bare.finite_state = "none"
      /\ ConsumerAccess(p, bare) = {x} /\ x = (CHOOSE y \in ConsumerAccess(p, bare) : TRUE)
  BY ClearedFacts, SameEndsFacts DEF Workable
<1>2. /\ bare.producer = dep.producer /\ bare.consumer = dep.consumer /\ bare.window = dep.window
      /\ x[1] = bare.consumer
  BY <1>1 DEF SameEnds, Workable
<1>3. proof.form # "none" => proof \in ProofsFor(p, bare, x)
  BY <1>1, ProofFrom
<1>4. IsScan(p, bare.producer) => ~bare.window
  BY <1>2 DEF Workable
<1>5. NoDomain \notin ProjectedDomain(p, x)
  BY DEF Workable
<1>6. /\ proof.form = "none" => next = [acc EXCEPT !.dependencies = Append(@, bare)]
      /\ proof.form \in {"scan", "scan_projection"} => next = ProveByScan(acc, x, bare, proof)
      /\ proof.form = "recurrence" => next = ProveByRecurrence(acc, x, Access(p, x), bare, proof)
      /\ proof.form \notin {"none", "scan", "scan_projection", "recurrence"} =>
           next = ProveByProjection(acc, x, bare, proof)
  BY <1>1 DEF ProveEdge
<1> HIDE DEF bare, proof, x, next
<1>7. CASE proof.form = "none"
  <2>1. /\ {"next", "states", "notes", "dependencies", "scan_states", "recurrence_states"} \subseteq DOMAIN acc
        /\ acc.next \in Nat /\ IsList(acc.dependencies)
    BY DEF IsAccumulator, Tracks, Named
  <2>2. /\ next.next = acc.next /\ next.states = acc.states /\ next.scan_states = acc.scan_states
        /\ next.recurrence_states = acc.recurrence_states
        /\ next.dependencies = Append(acc.dependencies, bare)
    BY <1>6, <1>7, <2>1
  <2>3. Fresh(acc, next)
    BY <2>1, <2>2 DEF Fresh
  <2>4. /\ Extends(acc.scan_states, next.scan_states)
        /\ Extends(acc.recurrence_states, next.recurrence_states)
    BY <2>2 DEF Extends
  <2>5. Refers(p, next, bare)
    BY <1>1 DEF Refers
  <2>6. /\ \A key \in DOMAIN next.scan_states \ DOMAIN acc.scan_states :
             HasDomainOf(p, next.states, next.scan_states[key], key, bare)
        /\ \A key \in DOMAIN next.recurrence_states \ DOMAIN acc.recurrence_states :
             HasDomainOfLoop(p, next.states, next.recurrence_states[key], key)
    BY <2>2
  <2> QED BY <2>1, <2>2, <2>3, <2>4, <2>5, <2>6, Grow DEF next, bare
<1>8. CASE proof.form \in {"scan", "scan_projection"}
  <2>1. proof \in ProofsFor(p, bare, x)
    BY <1>3, <1>8
  <2>2. IsScan(p, bare.producer) /\ proof.domain # NoDomain
    BY <1>5, <1>8, <2>1, FormFacts
  <2>3. Tracks(p, next)
    BY <1>1, <1>6, <1>8, <2>2, TrackScan
  <2> QED BY <2>3 DEF next, bare
<1>9. CASE proof.form = "recurrence"
  <2>1. proof \in ProofsFor(p, bare, x)
    BY <1>3, <1>9
  <2>2. ~IsScan(p, bare.producer) /\ proof.domain = RecurrenceDomain(p, x) /\ proof.domain # NoDomain
    BY <1>9, <2>1, FormFacts
  <2>3. p.stages[bare.consumer].recurrences[Access(p, x).recurrence].state_domain = proof.domain
    BY <1>2, <2>2 DEF RecurrenceDomain
  <2>4. Tracks(p, next)
    BY <1>1, <1>6, <1>9, <2>2, <2>3, TrackRecurrence
  <2> QED BY <2>4 DEF next, bare
<1>10. CASE proof.form \notin {"none", "scan", "scan_projection", "recurrence"}
  <2>1. proof \in ProofsFor(p, bare, x)
    BY <1>3, <1>10
  <2>2. ~IsScan(p, bare.producer)
    BY <1>4, <1>10, <2>1, FormFacts
  <2>3. Tracks(p, next)
    BY <1>1, <1>6, <1>10, <2>2, TrackProjection
  <2> QED BY <2>3 DEF next, bare
<1> QED BY <1>7, <1>8, <1>9, <1>10

\* The loop begins with a state for each kernel with advances.
LEMMA BeginTracks ==
  ASSUME NEW p, IsPipeline(p)
  PROVE  Tracks(p, Begin(p))
<1> DEFINE kernels == {s \in Stages(p) : ~IsScan(p, s) /\ p.stages[s].advance > 0}
           order == {w \in kernels \X kernels : w[1] < w[2]}
           list == RegexKernels(p)
           n == Cardinality(kernels)
           acc == Begin(p)
           Domain(k) == Max({2, p.stages[list[k]].advance + 1})
<1>1. n \in Nat /\ DOMAIN list = 1 .. n /\ Len(list) = n
  <2>1. IsFiniteSet(Stages(p)) /\ kernels \in SUBSET Stages(p)
    BY ListFacts, FS_Interval DEF IsPipeline, Stages
  <2>2. IsFiniteSet(kernels)
    BY <2>1, FS_Subset
  <2>3. n \in Nat
    BY <2>2, FS_CardinalityType
  <2>l. list = InOrder(kernels, order)
    BY DEF RegexKernels
  <2> HIDE DEF list, kernels, order
  <2> DEFINE Kth(k) == CHOOSE s \in kernels : Cardinality({r \in kernels : <<r, s>> \in order}) = k - 1
  <2>k. list = [k \in 1 .. n |-> Kth(k)]
    BY <2>l DEF InOrder
  <2> HIDE DEF n, Kth
  <2>4. list = [k \in 1 .. n |-> list[k]]
    BY <2>k
  <2>5. IsList(list) /\ DOMAIN list = 1 .. n
    BY <2>3, <2>4, IsListOf
  <2>6. Len(list) \in Nat /\ DOMAIN list = 1 .. Len(list)
    BY <2>5, ListFacts
  <2> QED BY <2>3, <2>5, <2>6
<1>2. /\ acc.next = 0 + Len(list) /\ acc.states = RegexStates(p, 0) /\ acc.dependencies = <<>>
      /\ acc.scan_states = <<>> /\ acc.recurrence_states = <<>>
  BY DEF Begin, FirstStateId
<1>3. RegexStates(p, 0) = {NewState(list[k], 0 + k - 1, Domain(k), "regex_advance") : k \in DOMAIN list}
  BY DEF RegexStates
<1> HIDE DEF list, n, kernels, acc, Domain
<1>4. \A st \in acc.states : \E k \in 1 .. n :
        st = NewState(list[k], 0 + k - 1, Domain(k), "regex_advance") /\ st.name = k - 1
  BY <1>1, <1>2, <1>3 DEF NewState
<1>5. Named(acc)
  <2>1. acc.next = n
    BY <1>1, <1>2
  <2>2. \A st \in acc.states : st.name \in 0 .. n - 1
    BY <1>1, <1>4
  <2>3. \A st, other \in acc.states : st.name = other.name => st = other
    <3> TAKE st, other \in acc.states
    <3>1. PICK j \in 1 .. n : st = NewState(list[j], 0 + j - 1, Domain(j), "regex_advance") /\ st.name = j - 1
      BY <1>4
    <3>2. PICK k \in 1 .. n : other = NewState(list[k], 0 + k - 1, Domain(k), "regex_advance") /\ other.name = k - 1
      BY <1>4
    <3>3. st.name = other.name => j = k
      BY <1>1, <3>1, <3>2
    <3> QED BY <3>1, <3>2, <3>3
  <2> QED BY <1>1, <2>1, <2>2, <2>3 DEF Named
<1>6. DOMAIN acc.dependencies = {} /\ DOMAIN acc.scan_states = {} /\ DOMAIN acc.recurrence_states = {}
  BY <1>2
<1>7. Tracks(p, acc)
  BY <1>5, <1>6 DEF Tracks
<1> QED BY <1>7 DEF acc

-----------------------------------------------------------------------------
(***************************************************************************)
(* The loop, edge after edge.                                              *)
(***************************************************************************)
\* The list after the first n edges, for every n up to the last.
AfterIs(p, edges, g) ==
  g = [n \in 0 .. Len(edges) |->
         IF n = 0 THEN Begin(p) ELSE ProveEdge(p, g[n - 1], Cleared(edges[n]))]

LEMMA AfterExists ==
  ASSUME NEW p, NEW edges, Len(edges) \in Nat
  PROVE  \E g : AfterIs(p, edges, g)
<1> DEFINE Upto(m, g) == g = [n \in 0 .. m |->
                                IF n = 0 THEN Begin(p) ELSE ProveEdge(p, g[n - 1], Cleared(edges[n]))]
           Bad == {m \in Nat : m <= Len(edges) /\ ~ \E g : Upto(m, g)}
<1>1. Bad = {}
  <2> SUFFICES ASSUME Bad # {} PROVE FALSE
    OBVIOUS
  <2>1. PICK m \in Bad : \A k \in Bad : m <= k
    <3>1. Bad \in SUBSET Nat
      OBVIOUS
    <3> HIDE DEF Bad
    <3> QED BY <3>1, LeastElement
  <2>2. CASE m = 0
    <3>1. Upto(0, [n \in 0 .. 0 |-> Begin(p)])
      OBVIOUS
    <3> QED BY <2>1, <2>2, <3>1
  <2>3. CASE m # 0
    <3>1. m - 1 \in Nat /\ m - 1 <= Len(edges) /\ m - 1 \notin Bad
      <4>1. m \in Nat /\ m <= Len(edges)
        OBVIOUS
      <4> HIDE DEF Bad
      <4> QED BY <2>1, <2>3, <4>1
    <3>2. PICK g : Upto(m - 1, g)
      BY <3>1
    <3> DEFINE f == [n \in 0 .. m |-> IF n = m THEN ProveEdge(p, g[m - 1], Cleared(edges[m])) ELSE g[n]]
    <3>3. \A n \in 0 .. m - 1 :
            /\ f[n] = g[n]
            /\ g[n] = IF n = 0 THEN Begin(p) ELSE ProveEdge(p, g[n - 1], Cleared(edges[n]))
      <4>1. \A n \in 0 .. m - 1 : n \in 0 .. m /\ n # m
        BY <3>1
      <4>2. g = [n \in 0 .. m - 1 |->
                   IF n = 0 THEN Begin(p) ELSE ProveEdge(p, g[n - 1], Cleared(edges[n]))]
        BY <3>2
      <4> QED BY <4>1, <4>2
    <3>4. \A n \in 0 .. m : f[n] = IF n = 0 THEN Begin(p) ELSE ProveEdge(p, f[n - 1], Cleared(edges[n]))
      <4> TAKE n \in 0 .. m
      <4>1. CASE n = m
        <5>1. f[m] = ProveEdge(p, g[m - 1], Cleared(edges[m])) /\ m - 1 \in 0 .. m - 1
          BY <3>1
        <5> HIDE DEF f
        <5> QED BY <2>3, <3>3, <4>1, <5>1
      <4>2. CASE n # m
        <5> HIDE DEF f
        <5>1. n \in 0 .. m - 1
          BY <3>1, <4>2
        <5>2. n # 0 => n - 1 \in 0 .. m - 1
          BY <3>1, <5>1
        <5> QED BY <3>3, <5>1, <5>2
      <4> QED BY <4>1, <4>2
    <3>5. Upto(m, f)
      <4>1. DOMAIN f = 0 .. m /\ f = [n \in 0 .. m |-> f[n]]
        OBVIOUS
      <4> HIDE DEF f
      <4> QED BY <3>4, <4>1
    <3> QED BY <2>1, <3>5
  <2> QED BY <2>2, <2>3
<1>2. Len(edges) \notin Bad
  BY <1>1
<1>3. \E g : Upto(Len(edges), g)
  BY <1>2
<1> QED BY <1>3 DEF AfterIs

\* What holds at the beginning and is kept by every edge holds at every edge.
LEMMA InferIsAfter ==
  ASSUME NEW p, NEW found, Len(found.dependencies) \in Nat
  PROVE  \E g : /\ AfterIs(p, found.dependencies, g)
                /\ Infer(p, found) = g[Len(found.dependencies)]
<1> DEFINE edges == found.dependencies
           after == CHOOSE g : AfterIs(p, edges, g)
<1>1. AfterIs(p, edges, after)
  BY AfterExists
<1>2. Infer(p, found) = after[Len(edges)]
  BY DEF Infer, AfterIs
<1> QED BY <1>1, <1>2

LEMMA BeginFacts ==
  ASSUME NEW p
  PROVE  IsAccumulator(p, Begin(p)) /\ Len(Begin(p).dependencies) = 0
<1>1. /\ Begin(p).dependencies = <<>> /\ DOMAIN Begin(p).notes = Reads(p)
      /\ {"next", "states", "notes", "dependencies", "scan_states", "recurrence_states"}
           \subseteq DOMAIN Begin(p)
  BY DEF Begin
<1>2. IsList(<<>>)
  BY DEF IsList
<1> QED BY <1>1, <1>2 DEF IsAccumulator

\* The edges the loop works on: each leads to a read, and two that lead to the same read
\* have the same evidence.
Inferable(p, edges) ==
  /\ IsPipeline(p) /\ IsList(edges)
  /\ \A k \in DOMAIN edges : /\ IsEdge(edges[k]) /\ Target(p, edges[k]) \in Reads(p)
                            /\ Workable(p, edges[k])
  /\ \A j, k \in DOMAIN edges :
       Target(p, edges[j]) = Target(p, edges[k]) =>
         Proof(p, Cleared(edges[j])) = Proof(p, Cleared(edges[k]))

\* What the loop leaves after n edges.
Done(p, edges, n, acc) ==
  /\ IsAccumulator(p, acc) /\ Len(acc.dependencies) = n /\ Tracks(p, acc)
  /\ \A k \in 1 .. n : /\ Inferred(p, edges[k], acc.dependencies[k])
                       /\ Annotated(p, acc.notes, edges[k])

LEMMA DoneStep ==
  ASSUME NEW p, NEW edges, Inferable(p, edges), NEW n \in Nat, n + 1 \in DOMAIN edges,
         NEW acc, Done(p, edges, n, acc)
  PROVE  Done(p, edges, n + 1, ProveEdge(p, acc, Cleared(edges[n + 1])))
<1> DEFINE dep == edges[n + 1]
           next == ProveEdge(p, acc, Cleared(dep))
<1>1. IsEdge(dep) /\ Target(p, dep) \in Reads(p) /\ Workable(p, dep)
  BY DEF Inferable
<1>2. /\ IsAccumulator(p, acc) /\ Len(acc.dependencies) = n /\ IsList(acc.dependencies)
      /\ Tracks(p, acc)
  BY DEF Done, IsAccumulator
<1>t. Tracks(p, next)
  <2> HIDE DEF dep
  <2> QED BY <1>1, <1>2, TrackStep
<1>3. /\ IsAccumulator(p, next)
      /\ \E new : Inferred(p, dep, new) /\ next.dependencies = Append(acc.dependencies, new)
      /\ \A x \in Reads(p) : x # Target(p, dep) => next.notes[x] = acc.notes[x]
      /\ Annotated(p, next.notes, dep)
  <2> HIDE DEF dep
  <2> QED BY <1>1, <1>2, ProveEdgeFacts
<1> HIDE DEF next
<1>4. PICK new : Inferred(p, dep, new) /\ next.dependencies = Append(acc.dependencies, new)
  BY <1>3
<1>5. /\ Len(next.dependencies) = n + 1
      /\ \A k \in 1 .. n : next.dependencies[k] = acc.dependencies[k]
      /\ next.dependencies[n + 1] = new
  BY <1>2, <1>4, AppendTo
<1>6. ASSUME NEW k \in 1 .. n + 1
      PROVE  Inferred(p, edges[k], next.dependencies[k])
  <2>1. CASE k = n + 1
    BY <1>4, <1>5, <2>1
  <2>2. CASE k # n + 1
    BY <1>5, <2>2 DEF Done
  <2> QED BY <2>1, <2>2
<1>7. ASSUME NEW k \in 1 .. n + 1
      PROVE  Annotated(p, next.notes, edges[k])
  <2>1. CASE k = n + 1
    BY <1>3, <2>1
  <2>2. CASE k # n + 1
    <3>1. k \in 1 .. n /\ k \in DOMAIN edges
      BY <2>2, ListFacts DEF Inferable
    <3>2. Annotated(p, acc.notes, edges[k]) /\ Target(p, edges[k]) \in Reads(p)
      BY <3>1 DEF Done, Inferable
    <3>3. CASE Target(p, edges[k]) = Target(p, dep)
      <4>1. Proof(p, Cleared(edges[k])) = Proof(p, Cleared(dep))
        BY <3>1, <3>3 DEF Inferable
      <4> QED BY <1>3, <3>3, <4>1 DEF Annotated
    <3>4. CASE Target(p, edges[k]) # Target(p, dep)
      BY <1>3, <3>2, <3>4 DEF Annotated
    <3> QED BY <3>3, <3>4
  <2> QED BY <2>1, <2>2
<1>8. Done(p, edges, n + 1, next)
  BY <1>3, <1>5, <1>6, <1>7, <1>t DEF Done
<1> QED BY <1>8 DEF next

LEMMA InferDone ==
  ASSUME NEW p, NEW found, Inferable(p, found.dependencies)
  PROVE  Done(p, found.dependencies, Len(found.dependencies), Infer(p, found))
<1> DEFINE edges == found.dependencies
<1>1. Len(edges) \in Nat /\ DOMAIN edges = 1 .. Len(edges)
  BY ListFacts DEF Inferable
<1>2. PICK g : AfterIs(p, edges, g) /\ Infer(p, found) = g[Len(edges)]
  BY <1>1, InferIsAfter
<1> HIDE DEF edges
<1>3. \A n \in 0 .. Len(edges) :
        g[n] = IF n = 0 THEN Begin(p) ELSE ProveEdge(p, g[n - 1], Cleared(edges[n]))
  <2>1. g = [n \in 0 .. Len(edges) |->
               IF n = 0 THEN Begin(p) ELSE ProveEdge(p, g[n - 1], Cleared(edges[n]))]
    BY <1>2 DEF AfterIs
  <2> QED BY <2>1
<1> DEFINE Bad == {n \in 0 .. Len(edges) : ~Done(p, edges, n, g[n])}
<1>4. Bad = {}
  <2> SUFFICES ASSUME Bad # {} PROVE FALSE
    OBVIOUS
  <2>1. Bad \in SUBSET Nat
    BY <1>1
  <2>2. PICK n \in Bad : \A m \in Bad : n <= m
    <3> HIDE DEF Bad
    <3> QED BY <2>1, LeastElement
  <2>n. n \in Nat /\ n <= Len(edges) /\ ~Done(p, edges, n, g[n]) /\ n \in 0 .. Len(edges)
    BY <1>1
  <2>3. CASE n = 0
    <3>1. g[0] = Begin(p)
      BY <1>1, <1>3
    <3>2. Done(p, edges, 0, Begin(p))
      BY BeginFacts, BeginTracks DEF Done, Inferable, edges
    <3> QED BY <2>3, <2>n, <3>1, <3>2
  <2>4. CASE n # 0
    <3>1. n - 1 \in 0 .. Len(edges) /\ n - 1 \notin Bad /\ n - 1 \in Nat /\ (n - 1) + 1 = n
      <4> HIDE DEF Bad
      <4> QED BY <1>1, <2>2, <2>4, <2>n
    <3>2. Done(p, edges, n - 1, g[n - 1])
      BY <3>1
    <3>3. n \in DOMAIN edges
      BY <1>1, <2>4, <2>n
    <3>4. g[n] = ProveEdge(p, g[n - 1], Cleared(edges[n]))
      BY <1>3, <2>4, <2>n
    <3>5. Inferable(p, edges)
      BY DEF edges
    <3> DEFINE m == n - 1
    <3>6. m \in Nat /\ m + 1 = n
      BY <3>1
    <3>7. Done(p, edges, m, g[m])
      BY <3>2
    <3> HIDE DEF m
    <3>8. Done(p, edges, m + 1, ProveEdge(p, g[m], Cleared(edges[m + 1])))
      BY <3>3, <3>5, <3>6, <3>7, DoneStep
    <3> QED BY <2>n, <3>4, <3>6, <3>8 DEF m
  <2> QED BY <2>3, <2>4
<1>5. Done(p, edges, Len(edges), g[Len(edges)])
  BY <1>1, <1>4
<1> QED BY <1>2, <1>5 DEF edges

-----------------------------------------------------------------------------
(***************************************************************************)
(* Edges and the reads they lead to.                                       *)
(***************************************************************************)

\* What an edge and its evidence are depends on the stages alone.
LEMMA StagesDecide ==
  ASSUME NEW p, NEW q, q.stages = p.stages
  PROVE  /\ \A x : Edge(q, x) = Edge(p, x)
         /\ \A dep : ConsumerAccess(q, dep) = ConsumerAccess(p, dep)
         /\ \A dep : ProducerAccess(q, dep) = ProducerAccess(p, dep)
         /\ \A dep : Target(q, dep) = Target(p, dep)
         /\ \A dep : Proof(q, dep) = Proof(p, dep)
<1>1. /\ Reads(q) = Reads(p) /\ Writes(q) = Writes(p) /\ Positions(q) = Positions(p)
      /\ \A x : Access(q, x) = Access(p, x)
      /\ \A x : ProjectionsOf(q, x) = ProjectionsOf(p, x)
      /\ \A s, op, buffer, id : Matches(q, s, op, buffer, id) = Matches(p, s, op, buffer, id)
      /\ \A s : IsScan(q, s) <=> IsScan(p, s)
  BY SameStages, SameFacts
<1>2. /\ \A dep : ConsumerAccess(q, dep) = ConsumerAccess(p, dep)
      /\ \A dep : ProducerAccess(q, dep) = ProducerAccess(p, dep)
  BY <1>1 DEF ConsumerAccess, ProducerAccess
<1>3. \A dep : Target(q, dep) = Target(p, dep)
  BY <1>2 DEF Target
<1>4. \A x : Edge(q, x) = Edge(p, x)
  <2> TAKE x
  <2>1. \A s, buffer : LatestWriter(q, s, buffer) = LatestWriter(p, s, buffer)
    BY SameStages, SameWriters
  <2>2. \A s, buffer : RepresentativeWrite(q, s, buffer) = RepresentativeWrite(p, s, buffer)
    BY DEF RepresentativeWrite
  <2>3. \A t : StructurallyUnbounded(q, x, t) <=> StructurallyUnbounded(p, x, t)
    BY <1>1 DEF StructurallyUnbounded
  <2> QED BY <1>1, <2>1, <2>2, <2>3 DEF Edge
<1>5. \A x : RecurrenceDomain(q, x) = RecurrenceDomain(p, x) /\ ProjectedDomain(q, x) = ProjectedDomain(p, x)
  <2> TAKE x
  <2>1. RecurrenceDomain(q, x) = RecurrenceDomain(p, x)
    BY <1>1 DEF RecurrenceDomain
  <2>2. ProjectedDomain(q, x) = ProjectedDomain(p, x)
    BY <1>1 DEF ProjectedDomain
  <2> QED BY <2>1, <2>2
<1>6. \A dep : ScanEvidence(q, dep) = ScanEvidence(p, dep)
  BY <1>1, <1>2 DEF ScanEvidence, ScanOutputDomain
<1>7. \A dep, d : AgreesWithScan(q, dep, d) <=> AgreesWithScan(p, dep, d)
  BY <1>1, <1>2 DEF AgreesWithScan
<1>8. \A dep, x : ProofsFor(q, dep, x) = ProofsFor(p, dep, x)
  BY <1>1, <1>5, <1>6, <1>7 DEF ProofsFor
<1>9. \A dep : Proof(q, dep) = Proof(p, dep)
  <2> TAKE dep
  <2> DEFINE Found(r) == IF dep.memory # "raw" THEN {}
                         ELSE UNION {ProofsFor(r, dep, x) : x \in ConsumerAccess(r, dep)}
  <2>1. {ProofsFor(q, dep, x) : x \in ConsumerAccess(q, dep)}
          = {ProofsFor(p, dep, x) : x \in ConsumerAccess(p, dep)}
    BY <1>2, <1>8
  <2>2. Found(q) = Found(p)
    BY <2>1
  <2>3. \A r : Proof(r, dep) = IF Found(r) = {} THEN NoProof ELSE CHOOSE proof \in Found(r) : TRUE
    BY DEF Proof
  <2> HIDE DEF Found
  <2> QED BY <2>2, <2>3
<1> QED BY <1>2, <1>3, <1>4, <1>9

\* The edge of a read, as the inference may have left it.
Leads(p, x, dep) == IsEdge(dep) /\ SameEnds(Edge(p, x), dep)

\* Every edge leads to a read and every read has an edge.
EdgesHold(p, edges) ==
  /\ IsList(edges)
  /\ \A k \in DOMAIN edges : \E x \in Reads(p) : Leads(p, x, edges[k])
  /\ \A x \in Reads(p) : \E k \in DOMAIN edges : Leads(p, x, edges[k])

LEMMA RawEdges ==
  ASSUME NEW p, IsPipeline(p)
  PROVE  /\ EdgesHold(p, RawDependencies(p).dependencies)
         /\ \A k \in DOMAIN RawDependencies(p).dependencies :
              /\ RawDependencies(p).dependencies[k].finite_state = "none"
              /\ \E x \in Reads(p) : RawDependencies(p).dependencies[k] = Edge(p, x)
<1> DEFINE order == {w \in Reads(p) \X Reads(p) : Before(w[1], w[2])}
           walk == InOrder(Reads(p), order)
           edges == RawDependencies(p).dependencies
           n == Cardinality(Reads(p))
<1>1. /\ DOMAIN walk = 1 .. n
      /\ \A k \in 1 .. n : walk[k] \in Reads(p)
      /\ \A x \in Reads(p) : \E k \in 1 .. n : walk[k] = x
  <2>1. IsFiniteSet(Reads(p)) /\ IsOrder(Reads(p), order)
    BY ReadsFinite, WalkIsOrder
  <2> HIDE DEF order
  <2> QED BY <2>1, InOrderFacts
<1>2. n \in Nat
  BY ReadsFinite, FS_CardinalityType
<1>3. edges = [k \in DOMAIN walk |-> Edge(p, walk[k])]
  BY DEF RawDependencies
<1> HIDE DEF walk, edges, n
<1>4. DOMAIN edges = 1 .. n /\ \A k \in 1 .. n : edges[k] = Edge(p, walk[k])
  BY <1>1, <1>3
<1>5. \A x : IsEdge(Edge(p, x)) /\ Edge(p, x).finite_state = "none"
  BY DEF IsEdge, Edge
<1>6. \A x : Leads(p, x, Edge(p, x))
  BY <1>5 DEF Leads, SameEnds
<1>7. IsList(edges)
  <2>1. edges = [k \in 1 .. n |-> edges[k]]
    BY <1>1, <1>3
  <2> QED BY <1>2, <2>1, IsListOf
<1>8. EdgesHold(p, edges)
  BY <1>1, <1>4, <1>6, <1>7 DEF EdgesHold
<1> QED BY <1>1, <1>4, <1>5, <1>8 DEF edges

\* Grouping puts the edges in another order.
LEMMA GroupedFacts ==
  ASSUME NEW edges, IsList(edges)
  PROVE  /\ IsList(Grouped(edges)) /\ DOMAIN Grouped(edges) = DOMAIN edges
         /\ \A k \in DOMAIN edges : \E j \in DOMAIN edges : Grouped(edges)[k] = edges[j]
         /\ \A j \in DOMAIN edges : \E k \in DOMAIN edges : Grouped(edges)[k] = edges[j]
<1> DEFINE S == DOMAIN edges
           bounded == [k \in S |-> isBounded(edges[k])]
           order == {w \in S \X S : IF isBounded(edges[w[1]]) <=> isBounded(edges[w[2]])
                                    THEN w[1] < w[2] ELSE isBounded(edges[w[1]])}
           place == InOrder(S, order)
           n == Len(edges)
           g == Grouped(edges)
<1>1. n \in Nat /\ S = 1 .. n
  BY ListFacts
<1>2. IsFiniteSet(S) /\ Cardinality(S) = n
  <2> HIDE DEF S, n
  <2>1. IsFiniteSet(1 .. n) /\ Cardinality(1 .. n) = n
    BY <1>1, FS_Interval
  <2> QED BY <1>1, <2>1
<1>3. \A i, j \in S : <<i, j>> \in order <=>
        IF isBounded(edges[i]) <=> isBounded(edges[j]) THEN i < j ELSE isBounded(edges[i])
  OBVIOUS
<1>4. IsOrder(S, order)
  <2> HIDE DEF order, S
  <2>1. \A i \in S : <<i, i>> \notin order
    BY <1>1, <1>3
  <2>2. \A i, j \in S : i = j \/ <<i, j>> \in order \/ <<j, i>> \in order
    <3> TAKE i, j \in S
    <3>1. i = j \/ i < j \/ j < i
      BY <1>1
    <3>2. CASE isBounded(edges[i]) <=> isBounded(edges[j])
      BY <1>3, <3>1, <3>2
    <3>3. CASE ~(isBounded(edges[i]) <=> isBounded(edges[j]))
      BY <1>3, <3>3
    <3> QED BY <3>2, <3>3
  <2>3. \A i, j, k \in S : <<i, j>> \in order /\ <<j, k>> \in order => <<i, k>> \in order
    BY <1>1, <1>3
  <2> QED BY <2>1, <2>2, <2>3 DEF IsOrder
<1>5. /\ \A k \in 1 .. n : place[k] \in S
      /\ \A j \in S : \E k \in 1 .. n : place[k] = j
  <2> HIDE DEF order, S
  <2> QED BY <1>2, <1>4, InOrderFacts
<1>6. g = [k \in S |-> edges[place[k]]]
  BY DEF Grouped
<1> HIDE DEF place, order, S, g, n
<1>7. DOMAIN g = S /\ \A k \in S : g[k] = edges[place[k]]
  BY <1>6
<1>8. IsList(g)
  <2>1. g = [k \in 1 .. n |-> g[k]]
    BY <1>1, <1>6
  <2> QED BY <1>1, <2>1, IsListOf
<1> QED BY <1>1, <1>5, <1>7, <1>8 DEF g, S

LEMMA WriterFacts ==
  ASSUME NEW p, IsPipeline(p), NEW x \in Reads(p)
  PROVE  LET t == LatestWriter(p, x[1], Access(p, x).buffer)
             earlier == {u \in WritersOf(p, Access(p, x).buffer) : u < x[1]}
         IN  /\ t = 0 <=> earlier = {}
             /\ t # 0 => t \in earlier /\ \A u \in earlier : u <= t
             /\ earlier \subseteq Stages(p) /\ Stages(p) \subseteq Nat \ {0} /\ x[1] \in Stages(p)
<1> DEFINE buffer == Access(p, x).buffer
           t == LatestWriter(p, x[1], buffer)
           earlier == {u \in WritersOf(p, buffer) : u < x[1]}
           n == Len(p.stages)
<1>1. n \in Nat /\ Stages(p) = 1 .. n
  BY ListFacts DEF IsPipeline, Stages
<1>2. earlier \subseteq Stages(p)
  <2>1. \A y \in Writes(p) : y[1] \in Stages(p)
    BY PositionsAre DEF Writes
  <2> QED BY <2>1 DEF WritersOf
<1>3. x[1] \in Stages(p)
  BY PositionsAre DEF Reads
<1>4. t = IF earlier = {} THEN 0 ELSE Max(earlier)
  BY DEF LatestWriter
<1> HIDE DEF t, earlier, n
<1>5. earlier # {} => Max(earlier) \in earlier /\ \A u \in earlier : u <= Max(earlier)
  <2>1. earlier \in SUBSET (0 .. n)
    BY <1>1, <1>2
  <2> QED BY <1>1, <2>1, MaxIs
<1>6. \A u \in earlier : u # 0
  BY <1>1, <1>2
<1>7. /\ t = 0 <=> earlier = {}
      /\ t # 0 => t \in earlier /\ \A u \in earlier : u <= t
      /\ earlier \subseteq Stages(p) /\ Stages(p) \subseteq Nat \ {0} /\ x[1] \in Stages(p)
  BY <1>1, <1>2, <1>3, <1>4, <1>5, <1>6
<1> QED BY <1>7 DEF t, earlier

LEMMA RepresentativeFacts ==
  ASSUME NEW p, IsPipeline(p), NEW buffer, NEW t \in WritersOf(p, buffer)
  PROVE  LET z == RepresentativeWrite(p, t, buffer)
         IN  z \in Writes(p) /\ z[1] = t /\ Access(p, z).buffer = buffer
<1> DEFINE writes == {i \in DOMAIN p.stages[t].accesses :
                        LET a == p.stages[t].accesses[i] IN a.op = "write" /\ a.buffer = buffer}
           steady == {i \in writes : ~p.stages[t].accesses[i].tail_boundary_write}
           some == IF steady # {} THEN steady ELSE writes
           n == Len(p.stages[t].accesses)
           z == <<t, Max(some)>>
<1>1. PICK y \in Writes(p) : y[1] = t /\ Access(p, y).buffer = buffer
  BY DEF WritersOf
<1>2. t \in Stages(p) /\ y[2] \in writes
  BY <1>1, PositionsAre DEF Writes, Access
<1>3. n \in Nat /\ DOMAIN p.stages[t].accesses = 1 .. n
  BY <1>2, ListFacts DEF IsPipeline, IsStage
<1>4. some \subseteq writes /\ some # {} /\ writes \subseteq 1 .. n
  BY <1>2, <1>3
<1>5. RepresentativeWrite(p, t, buffer) = z
  BY DEF RepresentativeWrite
<1>6. Max(some) \in some
  <2> HIDE DEF some, writes, n
  <2>1. some \in SUBSET (0 .. n)
    BY <1>3, <1>4
  <2> QED BY <1>3, <1>4, <2>1, MaxIs
<1>7. Max(some) \in writes
  BY <1>4, <1>6
<1>8. z[1] = t /\ z[2] = Max(some) /\ z = <<z[1], z[2]>>
  OBVIOUS
<1> HIDE DEF some
<1>9. z \in Writes(p) /\ Access(p, z).buffer = buffer
  <2>1. z[2] \in DOMAIN p.stages[z[1]].accesses /\ z[1] \in Stages(p)
    BY <1>2, <1>7, <1>8
  <2>2. z \in Positions(p)
    BY <1>8, <2>1, PositionsAre
  <2>3. Access(p, z).op = "write" /\ Access(p, z).buffer = buffer
    BY <1>7, <1>8 DEF Access
  <2> QED BY <2>2, <2>3 DEF Writes
<1> QED BY <1>5, <1>8, <1>9

\* What the verifier leaves open at the ends of an edge: nothing.
LEMMA EndsOfEdge ==
  ASSUME NEW p, IsPipeline(p), NEW x \in Reads(p), NEW dep, Leads(p, x, dep),
         DependencyVerifies(p, dep)
  PROVE  LET buffer == Access(p, x).buffer
             t == LatestWriter(p, x[1], buffer)
         IN  /\ dep.producer = t /\ dep.consumer = x[1] /\ dep.buffer = buffer
             /\ dep.memory = "raw" <=> t # 0
             /\ dep.window <=> ~StructurallyUnbounded(p, x, t)
             /\ ConsumerAccess(p, dep) = {x} /\ Target(p, dep) = x
             /\ t # 0 => ProducerAccess(p, dep) = {RepresentativeWrite(p, t, buffer)}
<1> DEFINE buffer == Access(p, x).buffer
           t == LatestWriter(p, x[1], buffer)
           z == RepresentativeWrite(p, t, buffer)
<1>1. SameEnds(Edge(p, x), dep)
  BY DEF Leads
<1>2. /\ dep.producer = t /\ dep.consumer = x[1] /\ dep.buffer = buffer
      /\ dep.consumer_access = Access(p, x).id
      /\ dep.memory = (IF t = 0 THEN "input" ELSE "raw")
      /\ dep.window = ~StructurallyUnbounded(p, x, t)
      /\ t # 0 => dep.producer_access = Access(p, z).id
  BY <1>1 DEF Edge, SameEnds
<1>3. x \in ConsumerAccess(p, dep)
  BY <1>2 DEF ConsumerAccess, Matches, Reads
<1>4. ConsumerAccess(p, dep) = {x}
  <2>1. Cardinality(ConsumerAccess(p, dep)) = 1
    BY DEF DependencyVerifies
  <2>2. IsFiniteSet(ConsumerAccess(p, dep))
    BY ReadsFinite DEF ConsumerAccess
  <2> QED BY <1>3, <2>1, <2>2, FS_Singleton
<1>5. Target(p, dep) = x
  BY <1>4 DEF Target
<1>6. ASSUME t # 0
      PROVE  ProducerAccess(p, dep) = {z}
  <2>1. t \in WritersOf(p, buffer)
    BY <1>6, WriterFacts
  <2>2. z \in Writes(p) /\ z[1] = t /\ Access(p, z).buffer = buffer
    BY <2>1, RepresentativeFacts
  <2>3. z \in ProducerAccess(p, dep)
    BY <1>2, <1>6, <2>2 DEF ProducerAccess, Matches, Writes
  <2>4. Cardinality(ProducerAccess(p, dep)) = 1
    BY <1>2, <1>6 DEF DependencyVerifies
  <2>5. IsFiniteSet(ProducerAccess(p, dep))
    BY ReadsFinite DEF ProducerAccess
  <2> QED BY <2>3, <2>4, <2>5, FS_Singleton
<1>7. dep.memory = "raw" <=> t # 0
  BY <1>2
<1> HIDE DEF t, z, buffer
<1> QED BY <1>2, <1>4, <1>5, <1>6, <1>7 DEF t, z, buffer

-----------------------------------------------------------------------------
(***************************************************************************)
(* The decision to fuse.                                                   *)
(***************************************************************************)

\* A pipeline that the passes made of the source.
Derived(p) ==
  /\ IsPipeline(source) /\ IsPipeline(p) /\ Same(source, p)
  /\ \A x \in Reads(source) : ProjectionsOf(p, x) = ProjectionsOf(source, x)

\* What a read, its writer and its projections are, in the source and after the passes.
LEMMA DerivedFacts ==
  ASSUME NEW p, Derived(p), NEW x \in Reads(source)
  PROVE  LET buffer == Access(source, x).buffer
             t == LatestWriter(source, x[1], buffer)
             z == RepresentativeWrite(source, t, buffer)
         IN  /\ x \in Reads(p) /\ Access(p, x).buffer = buffer
             /\ LatestWriter(p, x[1], buffer) = t
             /\ Access(p, x).in_while = Access(source, x).in_while
             /\ RecurrenceDomain(p, x) = RecurrenceDomain(source, x)
             /\ \A s : IsScan(p, s) <=> IsScan(source, s)
             /\ \A u : StructurallyUnbounded(p, x, u) <=> StructurallyUnbounded(source, x, u)
             /\ ProjectionsOf(p, x) = ProjectionsOf(source, x)
             /\ \A k \in ProjectionsOf(p, x) :
                  /\ p.stages[x[1]].projections[k].domain = source.stages[x[1]].projections[k].domain
                  /\ p.stages[x[1]].projections[k].domain \in Nat
             /\ ProjectionsOf(p, x) \subseteq Nat
             /\ t # 0 => /\ z \in Writes(source) /\ z[1] = t /\ Access(source, z).buffer = buffer
                         /\ RepresentativeWrite(p, t, buffer) = z
                         /\ Access(p, z).value_domain = Access(source, z).value_domain
                         /\ p.stages[t].state_domain = source.stages[t].state_domain
<1> DEFINE buffer == Access(source, x).buffer
           t == LatestWriter(source, x[1], buffer)
           z == RepresentativeWrite(source, t, buffer)
<1>0. IsPipeline(source) /\ IsPipeline(p) /\ Same(source, p) /\ x \in Positions(source)
  BY DEF Derived, Reads
<1>1. /\ x \in Reads(p) /\ Access(p, x).buffer = buffer /\ Access(p, x).in_while = Access(source, x).in_while
      /\ RecurrenceDomain(p, x) = RecurrenceDomain(source, x)
      /\ \A s : IsScan(p, s) <=> IsScan(source, s)
      /\ \A u : StructurallyUnbounded(p, x, u) <=> StructurallyUnbounded(source, x, u)
  BY <1>0, SameFacts DEF SameAccess
<1>2. LatestWriter(p, x[1], buffer) = t
  BY <1>0, SameWriters
<1>3. x[1] \in Stages(source)
  BY <1>0, PositionsAre
<1>4. /\ ProjectionsOf(p, x) = ProjectionsOf(source, x)
      /\ \A k \in ProjectionsOf(p, x) :
           /\ k \in DOMAIN source.stages[x[1]].projections
           /\ p.stages[x[1]].projections[k].domain = source.stages[x[1]].projections[k].domain
           /\ p.stages[x[1]].projections[k].domain \in Nat
  <2>1. ProjectionsOf(p, x) = ProjectionsOf(source, x)
    BY DEF Derived
  <2>2. SameStage(source.stages[x[1]], p.stages[x[1]]) /\ IsStage(source.stages[x[1]])
    BY <1>0, <1>3 DEF Same, IsPipeline
  <2>3. \A k \in ProjectionsOf(p, x) : k \in DOMAIN source.stages[x[1]].projections
    BY <2>1 DEF ProjectionsOf
  <2> QED BY <2>1, <2>2, <2>3 DEF SameStage, IsStage
<1>5. ProjectionsOf(p, x) \subseteq Nat
  <2>1. IsList(source.stages[x[1]].projections)
    BY <1>0, <1>3 DEF IsPipeline, IsStage
  <2>2. DOMAIN source.stages[x[1]].projections \subseteq Nat
    BY <2>1, ListFacts
  <2> QED BY <1>4, <2>2
<1>6. ASSUME t # 0
      PROVE  /\ z \in Writes(source) /\ z[1] = t /\ Access(source, z).buffer = buffer
             /\ RepresentativeWrite(p, t, buffer) = z
             /\ Access(p, z).value_domain = Access(source, z).value_domain
             /\ p.stages[t].state_domain = source.stages[t].state_domain
  <2>1. t \in WritersOf(source, buffer) /\ t \in Stages(source)
    BY <1>0, <1>6, WriterFacts
  <2>2. z \in Writes(source) /\ z[1] = t /\ Access(source, z).buffer = buffer
    BY <1>0, <2>1, RepresentativeFacts
  <2>3. RepresentativeWrite(p, t, buffer) = z
    BY <1>0, <2>1, SameWriters
  <2>4. z \in Positions(source)
    BY <2>2 DEF Writes
  <2>5. Access(p, z).value_domain = Access(source, z).value_domain
    BY <1>0, <2>4, SameFacts DEF SameAccess
  <2>6. p.stages[t].state_domain = source.stages[t].state_domain
    BY <1>0, <2>1 DEF Same, SameStage
  <2> QED BY <2>2, <2>3, <2>5, <2>6
<1> HIDE DEF buffer, t, z
<1> QED BY <1>1, <1>2, <1>4, <1>5, <1>6 DEF buffer, t, z

\* An edge that the inference proved has the domain of its evidence.
WellProven(p, dep) ==
  dep.finite_state = "proven" =>
    Proof(p, dep).form # "none" /\ dep.domain = Proof(p, dep).domain

\* What a witness domain of a read on its latest writer is.
Witness(x, t, d) ==
  LET stored == Access(source, RepresentativeWrite(source, t, Access(source, x).buffer)).value_domain
      projected == \E k \in ProjectionsOf(source, x) :
                     source.stages[x[1]].projections[k].domain = d
  IN  /\ d \in 2 .. 33
      /\ IsScan(source, t) =>
           /\ d = 2
           /\ \/ source.stages[t].state_domain = d /\ stored = d
              \/ /\ projected /\ source.stages[t].state_domain \in {0, d}
                 /\ stored \in {0, d}
      /\ ~IsScan(source, t) =>
           \/ RecurrenceDomain(source, x) = d
           \/ projected /\ RecurrenceDomain(source, x) = 0 /\ Access(source, x).in_while

LEMMA WitnessIs ==
  ASSUME NEW x \in Reads(source), IsPipeline(source), NEW t,
         t = LatestWriter(source, x[1], Access(source, x).buffer), t # 0, NEW d
  PROVE  d \in WitnessDomains(x, t) <=> Witness(x, t, d)
<1> DEFINE buffer == Access(source, x).buffer
           z == RepresentativeWrite(source, t, buffer)
           stored == {Access(source, y).value_domain : y \in
                        {w \in Writes(source) : /\ w[1] = t /\ Access(source, w).buffer = buffer
                                                /\ w = z}}
           projected == \E k \in ProjectionsOf(source, x) :
                          source.stages[x[1]].projections[k].domain = d
<1>1. z \in Writes(source) /\ z[1] = t /\ Access(source, z).buffer = buffer
  <2>1. t \in WritersOf(source, buffer)
    BY WriterFacts
  <2> QED BY <2>1, RepresentativeFacts
<1>2. stored = {Access(source, z).value_domain}
  <2> HIDE DEF z
  <2> QED BY <1>1
<1>3. d \in WitnessDomains(x, t) <=>
        /\ d \in 2 .. 33
        /\ IF IsScan(source, t)
           THEN /\ d = 2
                /\ \/ source.stages[t].state_domain = d /\ stored = {d}
                   \/ /\ projected /\ source.stages[t].state_domain \in {0, d}
                      /\ stored \subseteq {0, d}
           ELSE \/ RecurrenceDomain(source, x) = d
                \/ projected /\ RecurrenceDomain(source, x) = 0 /\ Access(source, x).in_while
  BY DEF WitnessDomains, kMinimumRuntimeStateDomain, kMaxProjectedStateDomain, kBinaryScanStateDomain,
         NoDomain
<1> HIDE DEF stored, projected, z
<1>4. /\ stored = {d} <=> Access(source, z).value_domain = d
      /\ stored \subseteq {0, d} <=> Access(source, z).value_domain \in {0, d}
  BY <1>2
<1> QED BY <1>3, <1>4 DEF projected, z, Witness

LEMMA ProjectedFacts ==
  ASSUME NEW p, NEW x, ProjectionsOf(p, x) \subseteq Nat
  PROVE  LET domain(k) == p.stages[x[1]].projections[k].domain
         IN  /\ \A d \in ProjectedDomain(p, x) : \E k \in ProjectionsOf(p, x) : domain(k) = d
             /\ ProjectionsOf(p, x) # {} => ProjectedDomain(p, x) # {}
             /\ \A d \in FusionProjection(p, x) : \E k \in ProjectionsOf(p, x) : domain(k) = d /\ d >= 2
             /\ (\E k \in ProjectionsOf(p, x) : domain(k) >= 2) => FusionProjection(p, x) # {}
<1> DEFINE domain(k) == p.stages[x[1]].projections[k].domain
           found == ProjectionsOf(p, x)
           large == {k \in found : domain(k) >= 2}
<1>1. ProjectedDomain(p, x) = IF found = {} THEN {} ELSE {domain(Min(found))}
  BY DEF ProjectedDomain
<1>2. FusionProjection(p, x) = IF large = {} THEN {} ELSE {domain(Min(large))}
  BY DEF FusionProjection
<1>3. found # {} => Min(found) \in found
  <2>1. found \in SUBSET Nat
    OBVIOUS
  <2> HIDE DEF found
  <2> QED BY <2>1, MinIs
<1>4. large # {} => Min(large) \in large
  <2>1. large \in SUBSET Nat
    OBVIOUS
  <2> HIDE DEF large
  <2> QED BY <2>1, MinIs
<1>5. large # {} => Min(large) \in found /\ domain(Min(large)) >= 2
  BY <1>4
<1> HIDE DEF domain
<1> QED BY <1>1, <1>2, <1>3, <1>5 DEF domain

\* What an edge of a read and its ends are, said of the source.
Meets(p, x, dep, t, z) ==
  LET found == ProjectionsOf(source, x)
  IN  /\ dep.producer = t /\ dep.consumer = x[1] /\ dep.memory = "raw"
      /\ dep.window <=> ~StructurallyUnbounded(source, x, t)
      /\ ConsumerAccess(p, dep) = {x} /\ ProducerAccess(p, dep) = {z}
      /\ Access(p, x).in_while = Access(source, x).in_while
      /\ RecurrenceDomain(p, x) = RecurrenceDomain(source, x)
      /\ \A s : IsScan(p, s) <=> IsScan(source, s)
      /\ \A k \in found :
           /\ p.stages[x[1]].projections[k].domain = source.stages[x[1]].projections[k].domain
           /\ source.stages[x[1]].projections[k].domain \in Nat
      /\ found \subseteq Nat /\ ProjectionsOf(p, x) = found
      /\ Access(p, z).value_domain = Access(source, z).value_domain
      /\ p.stages[t].state_domain = source.stages[t].state_domain

LEMMA EdgeMeets ==
  ASSUME NEW p, Derived(p), NEW x \in Reads(source), NEW dep, Leads(p, x, dep),
         DependencyVerifies(p, dep),
         NEW t, t = LatestWriter(source, x[1], Access(source, x).buffer), t # 0,
         NEW z, z = RepresentativeWrite(source, t, Access(source, x).buffer)
  PROVE  /\ Meets(p, x, dep, t, z)
         /\ \A e : e \in WitnessDomains(x, t) <=>
              /\ e \in 2 .. 33
              /\ IsScan(source, t) =>
                   /\ e = 2
                   /\ \/ source.stages[t].state_domain = e /\ Access(source, z).value_domain = e
                      \/ /\ \E k \in ProjectionsOf(source, x) :
                              source.stages[x[1]].projections[k].domain = e
                         /\ source.stages[t].state_domain \in {0, e}
                         /\ Access(source, z).value_domain \in {0, e}
              /\ ~IsScan(source, t) =>
                   \/ RecurrenceDomain(source, x) = e
                   \/ /\ \E k \in ProjectionsOf(source, x) :
                           source.stages[x[1]].projections[k].domain = e
                      /\ RecurrenceDomain(source, x) = 0 /\ Access(source, x).in_while
<1> DEFINE buffer == Access(source, x).buffer
           rec == RecurrenceDomain(source, x)
           found == ProjectionsOf(source, x)
           domain(k) == source.stages[x[1]].projections[k].domain
<1>1. /\ x \in Reads(p) /\ Access(p, x).buffer = buffer
      /\ LatestWriter(p, x[1], buffer) = t
      /\ Access(p, x).in_while = Access(source, x).in_while
      /\ RecurrenceDomain(p, x) = rec
      /\ \A s : IsScan(p, s) <=> IsScan(source, s)
      /\ \A u : StructurallyUnbounded(p, x, u) <=> StructurallyUnbounded(source, x, u)
      /\ ProjectionsOf(p, x) = found
      /\ \A k \in found : p.stages[x[1]].projections[k].domain = domain(k) /\ domain(k) \in Nat
      /\ found \subseteq Nat
      /\ RepresentativeWrite(p, t, buffer) = z
      /\ Access(p, z).value_domain = Access(source, z).value_domain
      /\ p.stages[t].state_domain = source.stages[t].state_domain
  <2>1. t = LatestWriter(source, x[1], buffer) /\ z = RepresentativeWrite(source, t, buffer)
    OBVIOUS
  <2> DEFINE u == LatestWriter(source, x[1], buffer)
             w == RepresentativeWrite(source, u, buffer)
  <2>2. /\ x \in Reads(p) /\ Access(p, x).buffer = buffer
        /\ LatestWriter(p, x[1], buffer) = u
        /\ Access(p, x).in_while = Access(source, x).in_while
        /\ RecurrenceDomain(p, x) = rec
        /\ \A s : IsScan(p, s) <=> IsScan(source, s)
        /\ \A v : StructurallyUnbounded(p, x, v) <=> StructurallyUnbounded(source, x, v)
        /\ ProjectionsOf(p, x) = found
        /\ \A k \in ProjectionsOf(p, x) :
             p.stages[x[1]].projections[k].domain = domain(k) /\ p.stages[x[1]].projections[k].domain \in Nat
        /\ ProjectionsOf(p, x) \subseteq Nat
        /\ u # 0 => /\ RepresentativeWrite(p, u, buffer) = w
                    /\ Access(p, w).value_domain = Access(source, w).value_domain
                    /\ p.stages[u].state_domain = source.stages[u].state_domain
    BY DerivedFacts
  <2>3. u = t /\ w = z
    OBVIOUS
  <2> HIDE DEF u, w, buffer, rec, found, domain
  <2> QED BY <2>1, <2>2, <2>3
<1>2. IsPipeline(p) /\ IsPipeline(source)
  BY DEF Derived
<1>w. \A e : e \in WitnessDomains(x, t) <=>
        /\ e \in 2 .. 33
        /\ IsScan(source, t) =>
             /\ e = 2
             /\ \/ source.stages[t].state_domain = e /\ Access(source, z).value_domain = e
                \/ /\ \E k \in found : domain(k) = e
                   /\ source.stages[t].state_domain \in {0, e} /\ Access(source, z).value_domain \in {0, e}
        /\ ~IsScan(source, t) =>
             \/ rec = e
             \/ (\E k \in found : domain(k) = e) /\ rec = 0 /\ Access(source, x).in_while
  <2> TAKE e
  <2>1. e \in WitnessDomains(x, t) <=> Witness(x, t, e)
    BY <1>2, WitnessIs
  <2> QED BY <2>1 DEF Witness
<1>3. /\ dep.producer = t /\ dep.consumer = x[1] /\ dep.buffer = buffer
      /\ dep.memory = "raw"
      /\ dep.window <=> ~StructurallyUnbounded(p, x, t)
      /\ ConsumerAccess(p, dep) = {x}
      /\ ProducerAccess(p, dep) = {z}
  BY <1>1, <1>2, EndsOfEdge
<1>m. Meets(p, x, dep, t, z)
  <2> HIDE DEF rec, buffer, domain
  <2> QED BY <1>1, <1>3 DEF Meets, rec, domain
<1> QED BY <1>m, <1>w

\* An edge that gives no reason against fusion leads to a read with a finite window or
\* a finite state.
LEMMA SoundEdge ==
  ASSUME NEW p, Derived(p), NEW x \in Reads(source), NEW dep, Leads(p, x, dep),
         DependencyVerifies(p, dep), WellProven(p, dep), ~Obstructs(p, dep),
         NEW t, t = LatestWriter(source, x[1], Access(source, x).buffer), t # 0
  PROVE  Fusible(x, t)
<1> DEFINE z == RepresentativeWrite(source, t, Access(source, x).buffer)
           d == dep.domain
           rec == RecurrenceDomain(source, x)
           found == ProjectionsOf(source, x)
           domain(k) == source.stages[x[1]].projections[k].domain
<1>m. Meets(p, x, dep, t, z)
  BY EdgeMeets
<1>w. \A e : e \in WitnessDomains(x, t) <=>
        /\ e \in 2 .. 33
        /\ IsScan(source, t) =>
             /\ e = 2
             /\ \/ source.stages[t].state_domain = e /\ Access(source, z).value_domain = e
                \/ /\ \E k \in found : domain(k) = e
                   /\ source.stages[t].state_domain \in {0, e} /\ Access(source, z).value_domain \in {0, e}
        /\ ~IsScan(source, t) =>
             \/ rec = e
             \/ (\E k \in found : domain(k) = e) /\ rec = 0 /\ Access(source, x).in_while
  BY EdgeMeets
<1>1. /\ Access(p, x).in_while = Access(source, x).in_while
      /\ RecurrenceDomain(p, x) = rec
      /\ \A s : IsScan(p, s) <=> IsScan(source, s)
      /\ ProjectionsOf(p, x) = found
      /\ \A k \in found : p.stages[x[1]].projections[k].domain = domain(k) /\ domain(k) \in Nat
      /\ found \subseteq Nat
      /\ Access(p, z).value_domain = Access(source, z).value_domain
      /\ p.stages[t].state_domain = source.stages[t].state_domain
  BY <1>m DEF Meets
<1>2. IsPipeline(p) /\ IsPipeline(source)
  BY DEF Derived
<1>3. /\ dep.producer = t /\ dep.consumer = x[1] /\ dep.memory = "raw"
      /\ dep.window <=> ~StructurallyUnbounded(source, x, t)
      /\ ConsumerAccess(p, dep) = {x} /\ ProducerAccess(p, dep) = {z}
  BY <1>m DEF Meets
<1>4. CASE dep.window
  BY <1>1, <1>3, <1>4 DEF Fusible
<1>5. CASE ~dep.window
  <2>1. /\ \E a, b : <<a, b, d>> \in FusionEvidence(p, dep, x)
        /\ dep.finite_state = "proven" /\ RuntimeDomain(p, dep)
    <3>1. \E y \in ConsumerAccess(p, dep) :
            /\ <<p.notes[y].dependency, p.notes[y].state_kind, d>> \in FusionEvidence(p, dep, y)
            /\ dep.finite_state = "proven" /\ RuntimeDomain(p, dep)
      BY <1>3, <1>5 DEF Obstructs
    <3> QED BY <1>3, <3>1
  <2>2. Proof(p, dep) \in ProofsFor(p, dep, x) /\ Proof(p, dep).domain = d
    BY <1>3, <2>1, ProofFrom DEF WellProven
  <2>3. ~IsScan(p, x[1])
    BY <1>3, <1>5, <2>2 DEF ProofsFor
  <2>4. \A e \in FusionProjection(p, x) : \E k \in found : domain(k) = e /\ e >= 2
    <3>1. \A e \in FusionProjection(p, x) :
            \E k \in ProjectionsOf(p, x) : p.stages[x[1]].projections[k].domain = e /\ e >= 2
      BY <1>1, ProjectedFacts
    <3> QED BY <1>1, <3>1
  <2>5. /\ d >= 2
        /\ IsScan(p, t) => d = 2
        /\ ~IsScan(p, t) => d <= 33
    BY <1>3, <2>1 DEF RuntimeDomain, kMinimumRuntimeStateDomain, kBinaryScanStateDomain,
                      kMaxProjectedStateDomain
  <2>6. ASSUME IsScan(p, t)
        PROVE  d \in WitnessDomains(x, t)
    <3>1. d = 2 /\ d \in 2 .. 33
      BY <1>3, <2>5, <2>6
    <3>2. CASE ScanOutputDomain(p, dep) # 0
      <4>1. d = ScanOutputDomain(p, dep)
        BY <1>3, <2>1, <2>6, <3>2 DEF FusionEvidence, NoDomain
      <4>2. /\ p.stages[t].state_domain = ScanOutputDomain(p, dep)
            /\ Access(p, z).value_domain = p.stages[t].state_domain
        BY <1>3, <3>2 DEF ScanOutputDomain, NoDomain
      <4> QED BY <1>1, <1>2, <2>6, <3>1, <4>1, <4>2, <1>w
    <3>3. CASE ScanOutputDomain(p, dep) = 0
      <4>1. d \in FusionProjection(p, x)
        BY <1>3, <2>1, <2>6, <3>3 DEF FusionEvidence, NoDomain
      <4>2. \E k \in found : domain(k) = d
        BY <2>4, <4>1
      <4>3. AgreesWithScan(p, dep, d)
        BY <1>3, <1>5, <2>2, <2>6, <3>3 DEF ProofsFor, ScanEvidence, IsPositive, NoDomain
      <4>4. p.stages[t].state_domain \in {0, d} /\ Access(p, z).value_domain \in {0, d}
        BY <1>3, <4>3 DEF AgreesWithScan, NoDomain
      <4> QED BY <1>1, <1>2, <2>6, <3>1, <4>2, <4>4, <1>w
    <3> QED BY <3>2, <3>3
  <2>7. ASSUME ~IsScan(p, t)
        PROVE  d \in WitnessDomains(x, t)
    <3>1. CASE rec # 0
      <4>1. d = rec
        BY <1>1, <1>3, <2>1, <2>7, <3>1 DEF FusionEvidence, NoDomain
      <4>2. rec \in Int
        <5>1. x \in Positions(source) /\ x[1] \in Stages(source)
              /\ x[2] \in DOMAIN source.stages[x[1]].accesses
          BY PositionsAre DEF Reads
        <5>2. IsStage(source.stages[x[1]])
          BY <1>2, <5>1 DEF IsPipeline
        <5>3. Access(source, x).recurrence \in {0} \cup DOMAIN source.stages[x[1]].recurrences
          BY <5>1, <5>2 DEF IsStage, Access
        <5>4. \A r \in DOMAIN source.stages[x[1]].recurrences :
                source.stages[x[1]].recurrences[r].state_domain \in Nat
          BY <5>2 DEF IsStage
        <5> QED BY <5>3, <5>4 DEF RecurrenceDomain, Varies, NoDomain
      <4>3. d \in 2 .. 33
        <5> HIDE DEF d, rec
        <5> QED BY <2>5, <2>7, <4>1, <4>2
      <4> QED BY <1>1, <1>2, <2>7, <4>1, <4>3, <1>w
    <3>2. CASE rec = 0
      <4>1. d \in PredecessorDomain(p, x)
        BY <1>1, <1>3, <2>1, <2>7, <3>2 DEF FusionEvidence, NoDomain
      <4>2. Access(source, x).in_while /\ d \in FusionProjection(p, x)
        BY <1>1, <4>1 DEF PredecessorDomain
      <4>3. PICK k \in found : domain(k) = d
        BY <2>4, <4>2
      <4>4. d \in 2 .. 33
        <5>1. d \in Nat
          BY <1>1, <4>3
        <5> HIDE DEF d
        <5> QED BY <2>5, <2>7, <5>1
      <4> QED BY <1>1, <1>2, <2>7, <3>2, <4>2, <4>3, <4>4, <1>w
    <3> QED BY <3>1, <3>2
  <2> QED BY <1>1, <2>3, <2>6, <2>7 DEF Fusible
<1> QED BY <1>4, <1>5

\* What the inference left on an edge and on its read when it found evidence.
Settled(p, dep) ==
  Proof(p, dep).form # "none" =>
    /\ dep.finite_state = "proven" /\ dep.domain = Proof(p, dep).domain /\ dep.states # {}
    /\ \E state : p.notes[Target(p, dep)] = Note(Proof(p, dep), state)

\* Projections of a read that name the same domain.
ProjectionsAgree(x) ==
  \A j, k \in ProjectionsOf(source, x) :
    source.stages[x[1]].projections[j].domain = source.stages[x[1]].projections[k].domain

LEMMA NoteFacts ==
  ASSUME NEW proof, NEW state
  PROVE  /\ Note(proof, state) # NoNote
         /\ proof.form \in {"scan", "recurrence"} =>
              /\ Note(proof, state).dependency = "prefix_state"
              /\ Note(proof, state).state_kind = "carried_state"
         /\ proof.form = "scan_projection" =>
              /\ Note(proof, state).dependency = "prefix_state"
              /\ Note(proof, state).state_kind = "finite_state_projection"
         /\ proof.form = "neighbor" =>
              /\ Note(proof, state).dependency = "data_dependent_predecessor"
              /\ Note(proof, state).state_kind = "neighbor_finite_state"
<1>1. Note(proof, state).dependency \in {"projected_state", "data_dependent_predecessor", "prefix_state"}
  BY DEF Note
<1>2. NoNote.dependency = "none"
  BY DEF NoNote
<1>3. Note(proof, state) # NoNote
  BY <1>1, <1>2
<1> QED BY <1>3 DEF Note

\* After the inference an edge to a read with a finite window or a finite state gives no
\* reason against fusion.
LEMMA ExactEdge ==
  ASSUME NEW p, Derived(p), NEW x \in Reads(source), NEW dep, Leads(p, x, dep),
         DependencyVerifies(p, dep), Settled(p, dep), ProjectionsAgree(x),
         NEW t, t = LatestWriter(source, x[1], Access(source, x).buffer), t # 0,
         Fusible(x, t)
  PROVE  ~Obstructs(p, dep)
<1> DEFINE z == RepresentativeWrite(source, t, Access(source, x).buffer)
           rec == RecurrenceDomain(source, x)
           found == ProjectionsOf(source, x)
           domain(k) == source.stages[x[1]].projections[k].domain
           proof == Proof(p, dep)
<1>m. Meets(p, x, dep, t, z)
  BY EdgeMeets
<1>w. \A e : e \in WitnessDomains(x, t) <=>
        /\ e \in 2 .. 33
        /\ IsScan(source, t) =>
             /\ e = 2
             /\ \/ source.stages[t].state_domain = e /\ Access(source, z).value_domain = e
                \/ /\ \E k \in found : domain(k) = e
                   /\ source.stages[t].state_domain \in {0, e} /\ Access(source, z).value_domain \in {0, e}
        /\ ~IsScan(source, t) =>
             \/ rec = e
             \/ (\E k \in found : domain(k) = e) /\ rec = 0 /\ Access(source, x).in_while
  BY EdgeMeets
<1>1. /\ Access(p, x).in_while = Access(source, x).in_while
      /\ RecurrenceDomain(p, x) = rec
      /\ \A s : IsScan(p, s) <=> IsScan(source, s)
      /\ ProjectionsOf(p, x) = found
      /\ \A k \in found : p.stages[x[1]].projections[k].domain = domain(k) /\ domain(k) \in Nat
      /\ found \subseteq Nat
      /\ Access(p, z).value_domain = Access(source, z).value_domain
      /\ p.stages[t].state_domain = source.stages[t].state_domain
  BY <1>m DEF Meets
<1>3. /\ dep.producer = t /\ dep.consumer = x[1] /\ dep.memory = "raw"
      /\ dep.window <=> ~StructurallyUnbounded(source, x, t)
      /\ ConsumerAccess(p, dep) = {x} /\ ProducerAccess(p, dep) = {z}
  BY <1>m DEF Meets
<1>4. CASE dep.window
  BY <1>4 DEF Obstructs
<1>5. CASE ~dep.window
  <2>1. PICK d : d \in WitnessDomains(x, t)
    BY <1>3, <1>5 DEF Fusible
  <2>2. ~IsScan(p, dep.consumer)
    BY <1>1, <1>3, <1>5 DEF Fusible
  <2>3. d \in 2 .. 33 /\ d # 0 /\ d >= 2
    BY <1>w, <2>1
  <2>p. ASSUME \E k \in found : domain(k) = d
        PROVE  ProjectedDomain(p, x) = {d} /\ FusionProjection(p, x) = {d}
    <3>1. \A k \in found : domain(k) = d
      BY <2>p DEF ProjectionsAgree
    <3>2. /\ \A e \in ProjectedDomain(p, x) : \E k \in ProjectionsOf(p, x) : p.stages[x[1]].projections[k].domain = e
          /\ ProjectionsOf(p, x) # {} => ProjectedDomain(p, x) # {}
          /\ \A e \in FusionProjection(p, x) : \E k \in ProjectionsOf(p, x) : p.stages[x[1]].projections[k].domain = e
          /\ (\E k \in ProjectionsOf(p, x) : p.stages[x[1]].projections[k].domain >= 2) => FusionProjection(p, x) # {}
      BY <1>1, ProjectedFacts
    <3>3. \A e \in ProjectedDomain(p, x) \cup FusionProjection(p, x) : e = d
      BY <1>1, <3>1, <3>2
    <3>4. ProjectedDomain(p, x) # {} /\ FusionProjection(p, x) # {}
      BY <1>1, <2>3, <2>p, <3>2
    <3> QED BY <3>3, <3>4
  <2>4. /\ ProofsFor(p, dep, x) # {}
        /\ \A proven \in ProofsFor(p, dep, x) :
             /\ proven.domain = d
             /\ \A state : <<Note(proven, state).dependency, Note(proven, state).state_kind, d>>
                             \in FusionEvidence(p, dep, x)
        /\ IsScan(p, t) => d = 2
    <3>1. CASE IsScan(p, t)
      <4>1. /\ d = 2
            /\ \/ source.stages[t].state_domain = d /\ Access(source, z).value_domain = d
               \/ /\ \E k \in found : domain(k) = d
                  /\ source.stages[t].state_domain \in {0, d} /\ Access(source, z).value_domain \in {0, d}
        BY <1>1, <1>w, <2>1, <3>1
      <4>2. ScanOutputDomain(p, dep) = IF Access(p, z).value_domain = p.stages[t].state_domain
                                       THEN p.stages[t].state_domain ELSE 0
        BY <1>3, <3>1 DEF ScanOutputDomain, NoDomain
      <4>3. CASE ScanOutputDomain(p, dep) # 0
        <5>1. ScanOutputDomain(p, dep) = d
          BY <1>1, <4>1, <4>2, <4>3
        <5>2. ProofsFor(p, dep, x) = {[form |-> "scan", domain |-> d]}
          BY <1>3, <1>5, <2>2, <2>3, <3>1, <5>1 DEF ProofsFor, ScanEvidence, IsPositive, NoDomain
        <5>3. <<"prefix_state", "carried_state", d>> \in FusionEvidence(p, dep, x)
          BY <1>3, <2>3, <3>1, <5>1 DEF FusionEvidence, NoDomain
        <5> QED BY <4>1, <5>2, <5>3, NoteFacts
      <4>4. CASE ScanOutputDomain(p, dep) = 0
        <5>1. /\ \E k \in found : domain(k) = d
              /\ p.stages[t].state_domain \in {0, d} /\ Access(p, z).value_domain \in {0, d}
          BY <1>1, <2>3, <4>1, <4>2, <4>4
        <5>2. ProjectedDomain(p, x) = {d} /\ FusionProjection(p, x) = {d}
          BY <2>p, <5>1
        <5>3. AgreesWithScan(p, dep, d)
          BY <1>3, <5>1 DEF AgreesWithScan, NoDomain
        <5>4. ProofsFor(p, dep, x) = {[form |-> "scan_projection", domain |-> d]}
          BY <1>3, <1>5, <2>2, <3>1, <4>4, <5>2, <5>3 DEF ProofsFor, ScanEvidence, IsPositive, NoDomain
        <5>5. <<"prefix_state", "finite_state_projection", d>> \in FusionEvidence(p, dep, x)
          BY <1>3, <3>1, <4>4, <5>2 DEF FusionEvidence, NoDomain
        <5> QED BY <4>1, <5>4, <5>5, NoteFacts
      <4> QED BY <4>3, <4>4
    <3>2. CASE ~IsScan(p, t)
      <4>1. \/ rec = d
            \/ (\E k \in found : domain(k) = d) /\ rec = 0 /\ Access(source, x).in_while
        BY <1>1, <1>w, <2>1, <3>2
      <4>2. CASE rec = d
        <5>1. ProofsFor(p, dep, x) = {[form |-> "recurrence", domain |-> d]}
          BY <1>1, <1>3, <1>5, <2>2, <2>3, <3>2, <4>2 DEF ProofsFor, IsPositive, NoDomain
        <5>2. <<"prefix_state", "carried_state", d>> \in FusionEvidence(p, dep, x)
          BY <1>1, <1>3, <2>3, <3>2, <4>2 DEF FusionEvidence, NoDomain
        <5> QED BY <3>2, <5>1, <5>2, NoteFacts
      <4>3. CASE (\E k \in found : domain(k) = d) /\ rec = 0 /\ Access(source, x).in_while
        <5>1. ProjectedDomain(p, x) = {d} /\ FusionProjection(p, x) = {d}
          BY <2>p, <4>3
        <5>2. ProofsFor(p, dep, x) = {[form |-> "neighbor", domain |-> d]}
          BY <1>1, <1>3, <1>5, <2>2, <3>2, <4>3, <5>1 DEF ProofsFor, IsPositive, NoDomain
        <5>3. <<"data_dependent_predecessor", "neighbor_finite_state", d>> \in FusionEvidence(p, dep, x)
          BY <1>1, <1>3, <3>2, <4>3, <5>1 DEF FusionEvidence, PredecessorDomain, NoDomain
        <5> QED BY <3>2, <5>2, <5>3, NoteFacts
      <4> QED BY <4>1, <4>2, <4>3
    <3> QED BY <3>1, <3>2
  <2>5. proof \in ProofsFor(p, dep, x) /\ proof.form # "none"
    BY <1>3, <2>4, ProofFrom
  <2>6. /\ dep.finite_state = "proven" /\ dep.domain = d /\ dep.states # {}
        /\ \E state : p.notes[x] = Note(proof, state)
    <3>1. Target(p, dep) = x
      BY <1>3 DEF Target
    <3>2. proof.domain = d
      BY <2>4, <2>5
    <3>3. /\ dep.finite_state = "proven" /\ dep.domain = proof.domain /\ dep.states # {}
          /\ \E state : p.notes[x] = Note(proof, state)
      BY <2>5, <3>1 DEF Settled
    <3> QED BY <3>2, <3>3
  <2>7. RuntimeDomain(p, dep)
    <3>1. dep.domain = d /\ d \in 2 .. 33 /\ (IsScan(p, dep.producer) => d = 2)
      BY <1>3, <2>3, <2>4, <2>6
    <3> QED BY <3>1 DEF RuntimeDomain, kMinimumRuntimeStateDomain, kBinaryScanStateDomain,
                                  kMaxProjectedStateDomain
  <2>8. \A ref \in dep.states : \E state \in StateNamed(p, ref) : state.domain = dep.domain
    BY <1>3, <2>6 DEF DependencyVerifies
  <2>9. PICK state : p.notes[x] = Note(proof, state)
    BY <2>6
  <2>10. <<p.notes[x].dependency, p.notes[x].state_kind, dep.domain>> \in FusionEvidence(p, dep, x)
    <3>1. <<Note(proof, state).dependency, Note(proof, state).state_kind, d>> \in FusionEvidence(p, dep, x)
      BY <2>4, <2>5
    <3> QED BY <2>6, <2>9, <3>1
  <2>11. p.notes[x] # NoNote
    BY <2>9, NoteFacts
  <2>12. Cardinality(ConsumerAccess(p, dep)) = 1 /\ x \in ConsumerAccess(p, dep)
    BY <1>3, FS_Singleton
  <2> QED BY <2>6, <2>7, <2>8, <2>10, <2>11, <2>12 DEF Obstructs
<1> QED BY <1>4, <1>5

-----------------------------------------------------------------------------
(***************************************************************************)
(* The passes, one by one.                                                 *)
(***************************************************************************)
LEMMA VerifiedProjections ==
  ASSUME NEW p, NEW a, ModuleVerifies(p, a)
  PROVE  /\ StandsForOne(p)
         /\ \A k \in DOMAIN a.dependencies : DependencyVerifies(p, a.dependencies[k])
BY DEF ModuleVerifies, StandsForOne

LEMMA DerivedStages ==
  ASSUME NEW p, Derived(p), NEW q, q.stages = p.stages, IsPipeline(q)
  PROVE  Derived(q)
<1>1. Same(p, q) /\ \A x : ProjectionsOf(q, x) = ProjectionsOf(p, x)
  BY SameStages
<1>2. Same(source, q)
  BY <1>1, SameTransitive DEF Derived
<1> QED BY <1>1, <1>2 DEF Derived

LEMMA AnalysisStep ==
  ASSUME NEW p, Derived(p), StandsForOne(p),
         NEW q, q = assignAccessIds(p), NEW a, a = RawDependencies(q), ModuleVerifies(q, a)
  PROVE  /\ Derived(q) /\ EdgesHold(q, a.dependencies)
         /\ \A k \in DOMAIN a.dependencies : WellProven(q, a.dependencies[k])
<1>1. IsPipeline(p) /\ IsPipeline(source) /\ Same(source, p)
  BY DEF Derived
<1>2. IsPipeline(q) /\ Same(p, q)
  BY <1>1, RepairFacts
<1>3. \A x \in Reads(p) : ProjectionsOf(q, x) = ProjectionsOf(p, x)
  BY <1>1, RepairedProjections
<1>4. Reads(p) = Reads(source)
  BY <1>1, SameFacts
<1>5. Derived(q)
  BY <1>1, <1>2, <1>3, <1>4, SameTransitive DEF Derived
<1>6. /\ EdgesHold(q, a.dependencies)
      /\ \A k \in DOMAIN a.dependencies : a.dependencies[k].finite_state = "none"
  BY <1>2, RawEdges
<1> QED BY <1>5, <1>6 DEF WellProven

LEMMA ClassificationStep ==
  ASSUME NEW p, NEW edges, EdgesHold(p, edges)
  PROVE  /\ EdgesHold(p, Grouped(edges))
         /\ \A k \in DOMAIN Grouped(edges) : \E j \in DOMAIN edges : Grouped(edges)[k] = edges[j]
<1>1. IsList(edges)
  BY DEF EdgesHold
<1>2. /\ IsList(Grouped(edges)) /\ DOMAIN Grouped(edges) = DOMAIN edges
      /\ \A k \in DOMAIN edges : \E j \in DOMAIN edges : Grouped(edges)[k] = edges[j]
      /\ \A j \in DOMAIN edges : \E k \in DOMAIN edges : Grouped(edges)[k] = edges[j]
  BY <1>1, GroupedFacts
<1>3. ASSUME NEW x \in Reads(p)
      PROVE  \E k \in DOMAIN Grouped(edges) : Leads(p, x, Grouped(edges)[k])
  <2>1. PICK j \in DOMAIN edges : Leads(p, x, edges[j])
    BY DEF EdgesHold
  <2>2. PICK k \in DOMAIN edges : Grouped(edges)[k] = edges[j]
    BY <1>2
  <2> QED BY <1>2, <2>1, <2>2
<1>4. ASSUME NEW k \in DOMAIN Grouped(edges)
      PROVE  \E x \in Reads(p) : Leads(p, x, Grouped(edges)[k])
  <2>1. PICK j \in DOMAIN edges : Grouped(edges)[k] = edges[j]
    BY <1>2
  <2> QED BY <2>1 DEF EdgesHold
<1> QED BY <1>2, <1>3, <1>4 DEF EdgesHold

\* A projection stands for its read with a domain.
LEMMA PositiveProjections ==
  ASSUME NEW p, IsPipeline(p), StandsForOne(p), NEW x \in Reads(p)
  PROVE  /\ ProjectionsOf(p, x) \subseteq Nat
         /\ \A k \in ProjectionsOf(p, x) :
              /\ p.stages[x[1]].projections[k].domain \in Nat
              /\ p.stages[x[1]].projections[k].domain > 0
         /\ NoDomain \notin ProjectedDomain(p, x)
<1>1. x[1] \in Stages(p)
  BY ReadsFinite, PositionsAre
<1>2. IsStage(p.stages[x[1]])
  BY <1>1 DEF IsPipeline
<1>3. IsList(p.stages[x[1]].projections)
  BY <1>2 DEF IsStage
<1>4. DOMAIN p.stages[x[1]].projections \subseteq Nat
  BY <1>3, ListFacts
<1>5. \A k \in DOMAIN p.stages[x[1]].projections :
        /\ p.stages[x[1]].projections[k].domain \in Nat
        /\ p.stages[x[1]].projections[k].domain > 0
  BY <1>1, <1>2 DEF IsStage, StandsForOne, ProjectionVerifies
<1>6. ProjectionsOf(p, x) \subseteq DOMAIN p.stages[x[1]].projections
  BY DEF ProjectionsOf
<1>7. ProjectionsOf(p, x) \subseteq Nat
  BY <1>4, <1>6
<1>8. \A d \in ProjectedDomain(p, x) : \E k \in ProjectionsOf(p, x) : p.stages[x[1]].projections[k].domain = d
  BY <1>7, ProjectedFacts
<1>9. NoDomain \notin ProjectedDomain(p, x)
  BY <1>5, <1>6, <1>8 DEF NoDomain
<1> QED BY <1>5, <1>6, <1>7, <1>9

\* What the loop of the inference needs of the edges.
LEMMA EdgesInferable ==
  ASSUME NEW p, IsPipeline(p), NEW a, ModuleVerifies(p, a), EdgesHold(p, a.dependencies)
  PROVE  Inferable(p, a.dependencies)
<1> DEFINE old == a.dependencies
<1>1. IsList(old)
  BY DEF EdgesHold
<1>2. ASSUME NEW k \in DOMAIN old
      PROVE  \E x \in Reads(p) : Leads(p, x, old[k]) /\ Target(p, old[k]) = x /\ Workable(p, old[k])
  <2>1. PICK x \in Reads(p) : Leads(p, x, old[k])
    BY DEF EdgesHold
  <2>2. DependencyVerifies(p, old[k]) /\ StandsForOne(p)
    BY VerifiedProjections
  <2> DEFINE dep == old[k]
  <2>d. Leads(p, x, dep) /\ DependencyVerifies(p, dep)
    BY <2>1, <2>2
  <2> HIDE DEF dep, old
  <2>3. Target(p, dep) = x /\ ConsumerAccess(p, dep) = {x} /\ x[1] = dep.consumer
    BY <2>d, EndsOfEdge
  <2>4. IsScan(p, dep.producer) => ~dep.window
    <3>1. dep.window <=> ~StructurallyUnbounded(p, x, dep.producer)
      BY <2>3, <2>d DEF DependencyVerifies
    <3> QED BY <3>1 DEF StructurallyUnbounded
  <2>5. NoDomain \notin ProjectedDomain(p, x)
    BY <2>2, PositiveProjections
  <2>6. Workable(p, dep)
    BY <2>3, <2>4, <2>5 DEF Workable
  <2> QED BY <2>1, <2>3, <2>6 DEF dep
<1>3. \A k \in DOMAIN old : /\ IsEdge(old[k]) /\ Target(p, old[k]) \in Reads(p)
                           /\ Workable(p, old[k])
  BY <1>2 DEF Leads
<1>4. ASSUME NEW j \in DOMAIN old, NEW k \in DOMAIN old, Target(p, old[j]) = Target(p, old[k])
      PROVE  Proof(p, Cleared(old[j])) = Proof(p, Cleared(old[k]))
  <2>1. PICK x \in Reads(p) : Leads(p, x, old[j]) /\ Leads(p, x, old[k])
    BY <1>2, <1>4
  <2>2. SameEnds(Edge(p, x), old[j]) /\ SameEnds(Edge(p, x), old[k])
    BY <2>1 DEF Leads
  <2>3. SameEnds(old[j], Cleared(old[j])) /\ SameEnds(old[k], Cleared(old[k]))
    BY <1>3, ClearedFacts
  <2>4. SameEnds(Cleared(old[j]), Cleared(old[k]))
    BY <2>2, <2>3 DEF SameEnds
  <2> QED BY <2>4, SameEndsFacts
<1> QED BY <1>1, <1>3, <1>4 DEF Inferable

LEMMA InferenceStep ==
  ASSUME NEW p, Derived(p), NEW a, ModuleVerifies(p, a), EdgesHold(p, a.dependencies),
         NEW q, IsPipeline(q), q.stages = p.stages, q.notes = Infer(p, a).notes
  PROVE  LET edges == Infer(p, a).dependencies
         IN  /\ Derived(q) /\ EdgesHold(q, edges)
             /\ \A k \in DOMAIN edges : WellProven(q, edges[k]) /\ Settled(q, edges[k])
<1> DEFINE old == a.dependencies
           edges == Infer(p, a).dependencies
           n == Len(old)
<1>1. IsPipeline(p) /\ Derived(q)
  BY DerivedStages DEF Derived
<1>2. IsList(old) /\ DOMAIN old = 1 .. n /\ n \in Nat
  BY ListFacts DEF EdgesHold
<1>3. ASSUME NEW k \in DOMAIN old
      PROVE  \E x \in Reads(p) : Leads(p, x, old[k]) /\ Target(p, old[k]) = x
  <2>1. PICK x \in Reads(p) : Leads(p, x, old[k])
    BY DEF EdgesHold
  <2>2. DependencyVerifies(p, old[k])
    BY VerifiedProjections
  <2>3. Target(p, old[k]) = x
    <3> HIDE DEF old
    <3> QED BY <1>1, <2>1, <2>2, EndsOfEdge
  <2> QED BY <2>1, <2>3
<1>4. Inferable(p, old)
  BY <1>1, EdgesInferable
<1>5. Done(p, old, n, Infer(p, a))
  BY <1>4, InferDone
<1> HIDE DEF old, n
<1>6. IsList(edges) /\ Len(edges) = n /\ DOMAIN edges = 1 .. n
  BY <1>5, ListFacts DEF Done, IsAccumulator
<1>7. ASSUME NEW k \in DOMAIN edges
      PROVE  /\ SameEnds(old[k], edges[k]) /\ IsEdge(edges[k]) /\ k \in DOMAIN old
             /\ WellProven(q, edges[k]) /\ Settled(q, edges[k])
  <2>1. k \in DOMAIN old /\ k \in 1 .. n
    BY <1>2, <1>6
  <2>2. IsEdge(old[k])
    BY <1>3, <2>1 DEF Leads
  <2>3. Inferred(p, old[k], edges[k]) /\ Annotated(p, q.notes, old[k])
    BY <1>5, <2>1 DEF Done
  <2> DEFINE proof == Proof(p, Cleared(old[k]))
  <2>4. /\ IsEdge(edges[k]) /\ SameEnds(old[k], edges[k])
        /\ proof.form = "none" => edges[k].finite_state = "none"
        /\ proof.form # "none" => /\ edges[k].finite_state = "proven"
                                  /\ edges[k].domain = proof.domain /\ edges[k].states # {}
    <3> HIDE DEF edges
    <3> QED BY <2>2, <2>3, InferredFacts
  <2>5. SameEnds(old[k], Cleared(old[k]))
    BY <2>2, ClearedFacts
  <2>6. Proof(q, edges[k]) = proof /\ Target(q, edges[k]) = Target(p, old[k])
    <3>1. SameEnds(Cleared(old[k]), edges[k])
      BY <2>4, <2>5 DEF SameEnds
    <3>2. Proof(p, edges[k]) = proof
      BY <3>1, SameEndsFacts
    <3>3. Target(p, edges[k]) = Target(p, old[k])
      BY <2>4, SameEndsFacts
    <3> HIDE DEF edges, proof
    <3> QED BY <3>2, <3>3, StagesDecide
  <2>7. proof.form # "none" => \E state : q.notes[Target(p, old[k])] = Note(proof, state)
    BY <2>3 DEF Annotated
  <2> HIDE DEF edges, proof
  <2>8. WellProven(q, edges[k])
    BY <2>4, <2>6 DEF WellProven
  <2>9. Settled(q, edges[k])
    BY <2>4, <2>6, <2>7 DEF Settled
  <2> QED BY <2>1, <2>4, <2>8, <2>9
<1>8. Reads(q) = Reads(p) /\ \A x : Edge(q, x) = Edge(p, x)
  BY StagesDecide, SameStages, SameFacts
<1> HIDE DEF edges
<1>9. \A x : \A k \in DOMAIN edges : Leads(p, x, old[k]) => Leads(q, x, edges[k])
  BY <1>7, <1>8 DEF Leads, SameEnds
<1>10. EdgesHold(q, edges)
  <2>1. \A k \in DOMAIN edges : \E x \in Reads(q) : Leads(q, x, edges[k])
    BY <1>3, <1>7, <1>8, <1>9
  <2>2. \A x \in Reads(p) : \E k \in DOMAIN old : Leads(p, x, old[k])
    BY DEF EdgesHold, old
  <2>3. \A x \in Reads(q) : \E k \in DOMAIN edges : Leads(q, x, edges[k])
    BY <1>2, <1>6, <1>8, <1>9, <2>2
  <2> QED BY <1>6, <2>1, <2>3 DEF EdgesHold
<1> QED BY <1>1, <1>7, <1>10 DEF edges

\* Every read keeps what it gets from the last stage before it that writes its buffer.
LatestFusible ==
  \A x \in Reads(source) :
    LET t == LatestWriter(source, x[1], Access(source, x).buffer)
    IN  t # 0 => Fusible(x, t)

LEMMA FusionStep ==
  ASSUME NEW p, Derived(p), NEW a, ModuleVerifies(p, a), EdgesHold(p, a.dependencies),
         \A k \in DOMAIN a.dependencies : WellProven(p, a.dependencies[k])
  PROVE  /\ Candidate(p, a).legal => LatestFusible
         /\ /\ \A k \in DOMAIN a.dependencies : Settled(p, a.dependencies[k])
            /\ \A x \in Reads(source) : ProjectionsAgree(x)
            /\ LatestFusible
            => Candidate(p, a).legal
<1> DEFINE edges == a.dependencies
<1>1. Candidate(p, a).legal <=> \A k \in DOMAIN edges : ~Obstructs(p, edges[k])
  BY DEF Candidate, ToSet
<1>2. \A k \in DOMAIN edges : DependencyVerifies(p, edges[k])
  BY VerifiedProjections
<1>3. IsPipeline(p) /\ Reads(p) = Reads(source)
  BY SameFacts DEF Derived
<1>4. ASSUME Candidate(p, a).legal
      PROVE  LatestFusible
  <2> SUFFICES ASSUME NEW x \in Reads(source), NEW t,
                      t = LatestWriter(source, x[1], Access(source, x).buffer), t # 0
               PROVE  Fusible(x, t)
    BY DEF LatestFusible
  <2>1. PICK k \in DOMAIN edges : Leads(p, x, edges[k])
    BY <1>3 DEF EdgesHold
  <2>2. DependencyVerifies(p, edges[k]) /\ WellProven(p, edges[k]) /\ ~Obstructs(p, edges[k])
    BY <1>1, <1>2, <1>4
  <2> HIDE DEF edges
  <2> QED BY <2>1, <2>2, SoundEdge
<1>5. ASSUME \A k \in DOMAIN edges : Settled(p, edges[k]),
             \A x \in Reads(source) : ProjectionsAgree(x),
             LatestFusible,
             NEW k \in DOMAIN edges
      PROVE  ~Obstructs(p, edges[k])
  <2>1. PICK x \in Reads(source) : Leads(p, x, edges[k])
    BY <1>3 DEF EdgesHold
  <2> DEFINE t == LatestWriter(source, x[1], Access(source, x).buffer)
             dep == edges[k]
  <2>2. DependencyVerifies(p, dep) /\ Settled(p, dep) /\ ProjectionsAgree(x) /\ Leads(p, x, dep)
    BY <1>2, <1>5, <2>1
  <2>3. CASE t = 0
    <3>1. Access(p, x).buffer = Access(source, x).buffer
          /\ LatestWriter(p, x[1], Access(source, x).buffer) = t
      BY DerivedFacts
    <3> HIDE DEF dep, t
    <3>2. dep.memory = "raw" <=> t # 0
      BY <1>3, <2>2, <3>1, EndsOfEdge
    <3>3. ~Obstructs(p, dep)
      BY <2>3, <3>2 DEF Obstructs
    <3> QED BY <3>3 DEF dep
  <2>4. CASE t # 0
    <3>1. Fusible(x, t)
      BY <1>5, <2>4 DEF LatestFusible
    <3> HIDE DEF dep
    <3>2. ~Obstructs(p, dep)
      BY <2>2, <2>4, <3>1, ExactEdge
    <3> QED BY <3>2 DEF dep
  <2> QED BY <2>3, <2>4
<1> QED BY <1>1, <1>4, <1>5

-----------------------------------------------------------------------------
(***************************************************************************)
(* The inductive invariant.                                                *)
(***************************************************************************)

\* A module that the verifiers accept, with its edges and what the inference left on them.
Good(p, a, inferred) ==
  /\ Derived(p) /\ ModuleVerifies(p, a)
  /\ {"exists", "dependencies", "grouped", "fusion"} \subseteq DOMAIN a
  /\ a.exists => /\ EdgesHold(p, a.dependencies)
                 /\ \A k \in DOMAIN a.dependencies : WellProven(p, a.dependencies[k])
  /\ a.exists /\ inferred => \A k \in DOMAIN a.dependencies : Settled(p, a.dependencies[k])

\* What a fusion descriptor says of the source.
Decision(fusion) ==
  fusion # <<>> =>
    /\ fusion[1].legal => LatestFusible
    /\ in_order /\ (\A x \in Reads(source) : ProjectionsAgree(x)) /\ LatestFusible
         => fusion[1].legal

CompilerInv ==
  /\ IsPipeline(source)
  /\ outcome = "ok" => Good(pipeline, analysis, proved)
  /\ Decision(analysis.fusion)

LEMMA CompilerInit ==
  ASSUME Init PROVE CompilerInv
<1>1. IsPipeline(source) /\ pipeline = source /\ analysis = NoAnalysis /\ ModuleVerifies(source, NoAnalysis)
  BY SourcesAssumption DEF Init
<1>2. Derived(source)
  <2>1. Same(source, source)
    BY SameStages
  <2> QED BY <1>1, <2>1 DEF Derived
<1>3. /\ {"exists", "dependencies", "grouped", "fusion"} \subseteq DOMAIN NoAnalysis
      /\ NoAnalysis.fusion = <<>> /\ ~NoAnalysis.exists
  BY DEF NoAnalysis
<1>4. Decision(<<>>)
  BY DEF Decision
<1>5. Good(source, NoAnalysis, proved)
  BY <1>1, <1>2, <1>3 DEF Good
<1> QED BY <1>1, <1>3, <1>4, <1>5 DEF CompilerInv

\* The source stays, so what is said of it stays too.
LEMMA SourceStays ==
  ASSUME source' = source, in_order' = in_order
  PROVE  /\ LatestFusible' <=> LatestFusible
         /\ Good(pipeline, analysis, proved)' <=> Good(pipeline', analysis', proved')
         /\ Decision(analysis.fusion)' <=> Decision(analysis'.fusion)
<1>1. \A x, t : Fusible(x, t)' <=> Fusible(x, t)
  <2> TAKE x, t
  <2>1. WitnessDomains(x, t)' = WitnessDomains(x, t)
    BY DEF WitnessDomains
  <2> QED BY <2>1 DEF Fusible
<1>2. LatestFusible' <=> LatestFusible
  BY <1>1 DEF LatestFusible
<1>3. \A x : ProjectionsAgree(x)' <=> ProjectionsAgree(x)
  BY DEF ProjectionsAgree
<1>4. Derived(pipeline)' <=> Derived(pipeline')
  BY DEF Derived
<1>5. Good(pipeline, analysis, proved)' <=> Good(pipeline', analysis', proved')
  BY <1>4 DEF Good
<1>6. Decision(analysis.fusion)' <=> Decision(analysis'.fusion)
  BY <1>2, <1>3 DEF Decision
<1> QED BY <1>2, <1>5, <1>6

\* A pass that ends well, or badly without a descriptor of its own.
LEMMA PassKeeps ==
  ASSUME CompilerInv, source' = source, in_order' = in_order,
         outcome' = "ok" => Good(pipeline', analysis', proved'),
         Decision(analysis'.fusion)
  PROVE  CompilerInv'
BY SourceStays DEF CompilerInv

LEMMA AnalysisKeeps ==
  ASSUME CompilerInv, BitstreamDependenceAnalysis PROVE CompilerInv'
<1> DEFINE q == assignAccessIds(pipeline)
           a == RawDependencies(q)
<1>1. /\ outcome = "ok" /\ source' = source /\ in_order' = in_order /\ proved' = FALSE
      /\ pipeline' = q
      /\ \/ analysis' = NoAnalysis /\ outcome' = "failed"
         \/ analysis' = a /\ outcome' = (IF ModuleVerifies(q, a) THEN "ok" ELSE "invalid")
  BY DEF BitstreamDependenceAnalysis, Ends
<1>2. Derived(pipeline) /\ StandsForOne(pipeline)
  BY <1>1, VerifiedProjections DEF CompilerInv, Good
<1>3. analysis'.fusion = <<>>
  BY <1>1 DEF NoAnalysis, RawDependencies
<1>4. Decision(analysis'.fusion)
  BY <1>3 DEF Decision
<1>5. ASSUME outcome' = "ok"
      PROVE  Good(pipeline', analysis', proved')
  <2>1. analysis' = a /\ ModuleVerifies(q, a)
    BY <1>1, <1>5
  <2>2. /\ Derived(q) /\ EdgesHold(q, a.dependencies)
        /\ \A k \in DOMAIN a.dependencies : WellProven(q, a.dependencies[k])
    <3> HIDE DEF q, a
    <3> QED BY <1>2, <2>1, AnalysisStep DEF q, a
  <2>3. {"exists", "dependencies", "grouped", "fusion"} \subseteq DOMAIN a
    BY DEF RawDependencies
  <2> HIDE DEF q, a
  <2> QED BY <1>1, <2>1, <2>2, <2>3 DEF Good
<1> QED BY <1>1, <1>4, <1>5, PassKeeps

LEMMA ClassificationKeeps ==
  ASSUME CompilerInv, BitstreamDependencyClassification PROVE CompilerInv'
<1> DEFINE a == groupClassifiedDependencies(analysis)
<1>1. /\ outcome = "ok" /\ source' = source /\ in_order' = in_order /\ proved' = proved
      /\ pipeline' = pipeline /\ analysis' = a /\ analysis.exists
      /\ outcome' = (IF ModuleVerifies(pipeline, a) THEN "ok" ELSE "invalid")
  BY DEF BitstreamDependencyClassification, Ends
<1>2. Good(pipeline, analysis, proved) /\ Decision(analysis.fusion)
  BY <1>1 DEF CompilerInv
<1>3. /\ a.exists = analysis.exists /\ a.fusion = analysis.fusion /\ DOMAIN a = DOMAIN analysis
      /\ a.dependencies = Grouped(analysis.dependencies)
  <2>1. {"exists", "dependencies", "grouped", "fusion"} \subseteq DOMAIN analysis
    BY <1>2 DEF Good
  <2>2. a = [analysis EXCEPT !.grouped = TRUE, !.dependencies = Grouped(analysis.dependencies)]
    BY DEF groupClassifiedDependencies
  <2> HIDE DEF a
  <2> QED BY <2>1, <2>2
<1>4. /\ EdgesHold(pipeline, a.dependencies)
      /\ \A k \in DOMAIN a.dependencies :
           \E j \in DOMAIN analysis.dependencies : a.dependencies[k] = analysis.dependencies[j]
  BY <1>1, <1>2, <1>3, ClassificationStep DEF Good
<1> HIDE DEF a
<1>5. ASSUME outcome' = "ok"
      PROVE  Good(pipeline', analysis', proved')
  <2>1. ModuleVerifies(pipeline, a)
    BY <1>1, <1>5
  <2>2. /\ \A k \in DOMAIN a.dependencies : WellProven(pipeline, a.dependencies[k])
        /\ proved => \A k \in DOMAIN a.dependencies : Settled(pipeline, a.dependencies[k])
    BY <1>1, <1>2, <1>4 DEF Good
  <2> QED BY <1>1, <1>2, <1>3, <1>4, <2>1, <2>2 DEF Good
<1>6. Decision(analysis'.fusion)
  BY <1>1, <1>2, <1>3
<1> QED BY <1>1, <1>5, <1>6, PassKeeps

LEMMA InferenceKeeps ==
  ASSUME CompilerInv, BitstreamFiniteStateInference PROVE CompilerInv'
<1> DEFINE r == Infer(pipeline, analysis)
           q == [pipeline EXCEPT !.states = r.states, !.notes = r.notes]
           a == [analysis EXCEPT !.dependencies = r.dependencies]
<1>1. /\ outcome = "ok" /\ source' = source /\ in_order' = in_order /\ proved' = TRUE
      /\ pipeline' = q /\ analysis' = a /\ analysis.exists
      /\ outcome' = (IF ModuleVerifies(q, a) THEN "ok" ELSE "invalid")
  BY DEF BitstreamFiniteStateInference, Ends
<1>2. Good(pipeline, analysis, proved) /\ Decision(analysis.fusion)
  BY <1>1 DEF CompilerInv
<1> HIDE DEF r
<1>3. /\ a.exists = analysis.exists /\ a.fusion = analysis.fusion /\ DOMAIN a = DOMAIN analysis
      /\ a.dependencies = r.dependencies
  <2>1. {"exists", "dependencies", "grouped", "fusion"} \subseteq DOMAIN analysis
    BY <1>2 DEF Good
  <2> QED BY <2>1
<1>4. q.stages = pipeline.stages /\ q.notes = r.notes /\ IsPipeline(q)
  <2>1. IsPipeline(pipeline)
    BY <1>2 DEF Good, Derived
  <2>2. {"stages", "states", "notes"} \subseteq DOMAIN pipeline
    BY <2>1 DEF IsPipeline
  <2>3. q.stages = pipeline.stages /\ q.notes = r.notes /\ DOMAIN q = DOMAIN pipeline
    BY <2>2
  <2> HIDE DEF q
  <2> QED BY <2>1, <2>3 DEF IsPipeline, Stages
<1> HIDE DEF q, a
<1>5. /\ Derived(q) /\ EdgesHold(q, r.dependencies)
      /\ \A k \in DOMAIN r.dependencies : WellProven(q, r.dependencies[k]) /\ Settled(q, r.dependencies[k])
  <2>1. /\ Derived(pipeline) /\ ModuleVerifies(pipeline, analysis)
        /\ EdgesHold(pipeline, analysis.dependencies)
    BY <1>1, <1>2 DEF Good
  <2>2. q.notes = Infer(pipeline, analysis).notes
    BY <1>4 DEF r
  <2>3. /\ EdgesHold(q, Infer(pipeline, analysis).dependencies) /\ Derived(q)
        /\ \A k \in DOMAIN Infer(pipeline, analysis).dependencies :
             /\ WellProven(q, Infer(pipeline, analysis).dependencies[k])
             /\ Settled(q, Infer(pipeline, analysis).dependencies[k])
    BY <1>4, <2>1, <2>2, InferenceStep
  <2> QED BY <2>3 DEF r
<1>6. outcome' = "ok" => Good(pipeline', analysis', proved')
  BY <1>1, <1>2, <1>3, <1>5 DEF Good
<1>7. Decision(analysis'.fusion)
  BY <1>1, <1>2, <1>3
<1> QED BY <1>1, <1>6, <1>7, PassKeeps

LEMMA FusionKeeps ==
  ASSUME CompilerInv, BitstreamSpeculativeFusion PROVE CompilerInv'
<1> DEFINE c == Candidate(pipeline, analysis)
           a == [analysis EXCEPT !.fusion = <<c>>]
<1>1. /\ outcome = "ok" /\ source' = source /\ in_order' = in_order /\ proved' = proved
      /\ pipeline' = pipeline /\ analysis' = a /\ analysis.exists /\ (in_order => proved)
      /\ outcome' = (IF ModuleVerifies(pipeline, a) THEN "ok" ELSE "invalid")
  BY DEF BitstreamSpeculativeFusion, Ends
<1>2. Good(pipeline, analysis, proved)
  BY <1>1 DEF CompilerInv
<1> HIDE DEF c
<1>3. /\ a.exists = analysis.exists /\ a.fusion = <<c>> /\ DOMAIN a = DOMAIN analysis
      /\ a.dependencies = analysis.dependencies
  <2>1. {"exists", "dependencies", "grouped", "fusion"} \subseteq DOMAIN analysis
    BY <1>2 DEF Good
  <2> QED BY <2>1
<1> HIDE DEF a
<1>4. outcome' = "ok" => Good(pipeline', analysis', proved')
  BY <1>1, <1>2, <1>3 DEF Good
<1>5. Decision(<<c>>)
  <2>1. /\ c.legal => LatestFusible
        /\ /\ \A k \in DOMAIN analysis.dependencies : Settled(pipeline, analysis.dependencies[k])
           /\ \A x \in Reads(source) : ProjectionsAgree(x)
           /\ LatestFusible
           => c.legal
    BY <1>1, <1>2, FusionStep DEF Good, c
  <2>2. in_order => \A k \in DOMAIN analysis.dependencies : Settled(pipeline, analysis.dependencies[k])
    BY <1>1, <1>2 DEF Good
  <2>3. <<c>>[1] = c
    OBVIOUS
  <2> QED BY <2>1, <2>2, <2>3 DEF Decision
<1> QED BY <1>1, <1>3, <1>4, <1>5, PassKeeps

LEMMA CompilerNext ==
  ASSUME CompilerInv, [Next]_vars PROVE CompilerInv'
<1>1. CASE BitstreamDependenceAnalysis
  BY <1>1, AnalysisKeeps
<1>2. CASE BitstreamDependencyClassification
  BY <1>2, ClassificationKeeps
<1>3. CASE BitstreamFiniteStateInference
  BY <1>3, InferenceKeeps
<1>4. CASE BitstreamSpeculativeFusion
  BY <1>4, FusionKeeps
<1>5. CASE UNCHANGED vars
  <2>1. /\ source' = source /\ in_order' = in_order /\ pipeline' = pipeline /\ analysis' = analysis
        /\ proved' = proved /\ outcome' = outcome
    BY <1>5 DEF vars
  <2> QED BY <2>1, PassKeeps DEF CompilerInv
<1> QED BY <1>1, <1>2, <1>3, <1>4, <1>5 DEF Next

\* The invariant holds of every set of pipelines and every order of the passes.
THEOREM CompilerIsInvariant == Spec => []CompilerInv
<1>1. Init => CompilerInv
  BY CompilerInit
<1>2. CompilerInv /\ [Next]_vars => CompilerInv'
  BY CompilerNext
<1> QED BY <1>1, <1>2, PTL DEF Spec

-----------------------------------------------------------------------------
(***************************************************************************)
(* Theorems.                                                               *)
(***************************************************************************)

\* No scan writes behind another writer that a read may still get a value from, and none
\* is the last of several such writers.
NothingHidden ==
  \A x \in Reads(source) : \A t \in ReachingWriters(x) :
    LET last_writer == LatestWriter(source, x[1], Access(source, x).buffer)
    IN  t # last_writer => ~IsScan(source, t) /\ ~IsScan(source, last_writer)

LEMMA FusibleBehind ==
  ASSUME NEW x, NEW s, NEW t, ~IsScan(source, s), ~IsScan(source, t),
         Fusible(x, s), IsPipeline(source), x \in Reads(source),
         s = LatestWriter(source, x[1], Access(source, x).buffer), s # 0
  PROVE  Fusible(x, t)
<1>1. CASE ~StructurallyUnbounded(source, x, s)
  BY <1>1 DEF Fusible, StructurallyUnbounded
<1>2. CASE ~IsScan(source, x[1]) /\ WitnessDomains(x, s) # {}
  <2>1. PICK d : d \in WitnessDomains(x, s)
    BY <1>2
  <2>2. d \in WitnessDomains(x, t)
    BY <2>1 DEF WitnessDomains
  <2> QED BY <1>2, <2>2 DEF Fusible
<1> QED BY <1>1, <1>2 DEF Fusible

\* A pipeline that is called legal to fuse gets every value that may reach a read through a
\* finite window or a finite state, whatever the order of the passes, unless a scan is
\* hidden behind a boundary write or hides one.
THEOREM FusionIsSound == Spec => [](NothingHidden => LegalIsSound)
<1>1. CompilerInv => (NothingHidden => LegalIsSound)
  <2> SUFFICES ASSUME CompilerInv, NothingHidden, analysis.fusion # <<>>, analysis.fusion[1].legal,
                      NEW x \in Reads(source), NEW t \in ReachingWriters(x)
               PROVE  Fusible(x, t)
    BY DEF LegalIsSound
  <2> DEFINE buffer == Access(source, x).buffer
             s == LatestWriter(source, x[1], buffer)
             earlier == {u \in WritersOf(source, buffer) : u < x[1]}
  <2>1. IsPipeline(source) /\ LatestFusible
    BY DEF CompilerInv, Decision
  <2>2. t \in earlier
    BY DEF ReachingWriters
  <2>3. s # 0
    <3>1. s = 0 <=> earlier = {}
      BY <2>1, WriterFacts
    <3> HIDE DEF s, earlier
    <3> QED BY <2>2, <3>1
  <2>4. Fusible(x, s)
    BY <2>1, <2>3 DEF LatestFusible
  <2>5. CASE t = s
    BY <2>4, <2>5
  <2>6. CASE t # s
    <3>1. ~IsScan(source, t) /\ ~IsScan(source, s)
      BY <2>6 DEF NothingHidden
    <3> QED BY <2>1, <2>3, <2>4, <3>1, FusibleBehind
  <2> QED BY <2>5, <2>6
<1> QED BY <1>1, CompilerIsInvariant, PTL

\* In the order of the runner the decision is the one the source alone gives: legal
\* exactly when every read has a finite window or a finite state towards its latest
\* writer, if the projections of a read do not contradict each other.
THEOREM DecisionIsRight ==
  Spec => []((\A x \in Reads(source) : ProjectionsAgree(x)) => DecisionIsExact)
<1>1. CompilerInv => ((\A x \in Reads(source) : ProjectionsAgree(x)) => DecisionIsExact)
  BY DEF CompilerInv, Decision, DecisionIsExact, LatestFusible
<1> QED BY <1>1, CompilerIsInvariant, PTL

-----------------------------------------------------------------------------
(***************************************************************************)
(* A pass that is run twice in a row does nothing the second time.         *)
(***************************************************************************)

\* So the repair keeps the ids it has given.
LEMMA RepairedKeep ==
  ASSUME NEW p, IsPipeline(p), NEW q, q = assignAccessIds(p)
  PROVE  \A x \in Positions(q) : KeepsId(q, x) /\ RepairedId(q, x) = Access(q, x).id
<1>1. Positions(q) = Positions(p)
  BY RepairFacts, SameFacts
<1>2. \A x \in Positions(p) : Access(q, x).id = RepairedId(p, x)
  BY RepairFacts
<1>3. \A x \in Positions(q) : KeepsId(q, x)
  BY <1>1, <1>2, RepairedIds DEF KeepsId
<1> QED BY <1>3 DEF RepairedId

\* A field that is given the value it has.
LEMMA SetTwice ==
  ASSUME NEW r, NEW field \in DOMAIN r, NEW value, NEW q, q = [r EXCEPT ![field] = value]
  PROVE  [q EXCEPT ![field] = value] = q
<1>1. q = [f \in DOMAIN r |-> IF f = field THEN value ELSE r[f]]
  OBVIOUS
<1>2. [q EXCEPT ![field] = value] = [f \in DOMAIN q |-> IF f = field THEN value ELSE q[f]]
  OBVIOUS
<1>3. DOMAIN q = DOMAIN r /\ \A f \in DOMAIN q : q[f] = (IF f = field THEN value ELSE r[f])
  BY <1>1
<1>4. [f \in DOMAIN q |-> IF f = field THEN value ELSE q[f]] = [f \in DOMAIN q |-> q[f]]
  BY <1>3
<1>5. [f \in DOMAIN q |-> q[f]] = q
  BY <1>1, <1>3
<1> QED BY <1>2, <1>4, <1>5

LEMMA StageTwice ==
  ASSUME NEW a, IsStage(a), NEW id, NEW ref,
         NEW b, b = Relabelled(a, id, ref)
  PROVE  Relabelled(b, id, ref) = b
<1> DEFINE accesses == [i \in DOMAIN a.accesses |-> [a.accesses[i] EXCEPT !.id = id[i]]]
           projections == [k \in DOMAIN a.projections |-> [a.projections[k] EXCEPT !.read_access = ref[k]]]
           again == [i \in DOMAIN b.accesses |-> [b.accesses[i] EXCEPT !.id = id[i]]]
           follow == [k \in DOMAIN b.projections |-> [b.projections[k] EXCEPT !.read_access = ref[k]]]
<1>1. b = [a EXCEPT !.accesses = accesses, !.projections = projections]
  BY DEF Relabelled
<1>2. /\ {"accesses", "projections"} \subseteq DOMAIN a
      /\ \A i \in DOMAIN a.accesses : "id" \in DOMAIN a.accesses[i]
      /\ \A k \in DOMAIN a.projections : "read_access" \in DOMAIN a.projections[k]
  BY DEF IsStage
<1>3. b.accesses = accesses /\ b.projections = projections
  <2> HIDE DEF accesses, projections
  <2> QED BY <1>1, <1>2
<1>4. \A i \in DOMAIN a.accesses : [accesses[i] EXCEPT !.id = id[i]] = accesses[i]
  <2> TAKE i \in DOMAIN a.accesses
  <2>1. accesses[i] = [a.accesses[i] EXCEPT !["id"] = id[i]] /\ "id" \in DOMAIN a.accesses[i]
    BY <1>2
  <2> HIDE DEF accesses
  <2> QED BY <2>1, SetTwice
<1>5. \A k \in DOMAIN a.projections : [projections[k] EXCEPT !.read_access = ref[k]] = projections[k]
  <2> TAKE k \in DOMAIN a.projections
  <2>1. /\ projections[k] = [a.projections[k] EXCEPT !["read_access"] = ref[k]]
        /\ "read_access" \in DOMAIN a.projections[k]
    BY <1>2
  <2> HIDE DEF projections
  <2> QED BY <2>1, SetTwice
<1>6. again = accesses
  <2>1. DOMAIN accesses = DOMAIN a.accesses /\ accesses = [i \in DOMAIN a.accesses |-> accesses[i]]
    OBVIOUS
  <2> HIDE DEF accesses
  <2> QED BY <1>3, <1>4, <2>1
<1>7. follow = projections
  <2>1. DOMAIN projections = DOMAIN a.projections /\ projections = [k \in DOMAIN a.projections |-> projections[k]]
    OBVIOUS
  <2> HIDE DEF projections
  <2> QED BY <1>3, <1>5, <2>1
<1>8. b = [b EXCEPT !.accesses = accesses, !.projections = projections]
  <2> HIDE DEF accesses, projections
  <2> QED BY <1>1, <1>2
<1>9. [b EXCEPT !.accesses = again, !.projections = follow] = b
  BY <1>6, <1>7, <1>8
<1> QED BY <1>9 DEF Relabelled

LEMMA RepairTwice ==
  ASSUME NEW p, IsPipeline(p), NEW q, q = assignAccessIds(p)
  PROVE  assignAccessIds(q) = q
<1>1. IsPipeline(q) /\ Same(p, q) /\ Stages(q) = Stages(p)
  BY RepairFacts DEF Same
<1>2. q = [p EXCEPT !.stages = Repaired(p)] /\ assignAccessIds(q) = [q EXCEPT !.stages = Repaired(q)]
  BY RepairIs
<1>3. "stages" \in DOMAIN p
  BY DEF IsPipeline
<1>4. q.stages = Repaired(p)
  BY <1>2, <1>3
<1>5. ASSUME NEW s \in Stages(p)
      PROVE  Repaired(q)[s] = Repaired(p)[s]
  <2> DEFINE a == p.stages[s]
             b == q.stages[s]
             id == Id(p, s)
             ref == Ref(p, s)
  <2>1. IsStage(a) /\ b = Relabelled(a, id, ref)
    BY <1>4 DEF IsPipeline, Repaired
  <2>2. Relabelled(b, id, ref) = b
    <3> HIDE DEF a, b, id, ref
    <3> QED BY <2>1, StageTwice
  <2>3. /\ DOMAIN b.accesses = DOMAIN a.accesses /\ DOMAIN b.projections = DOMAIN a.projections
        /\ \A i \in DOMAIN a.accesses : b.accesses[i].id = id[i]
        /\ \A k \in DOMAIN a.projections : b.projections[k].read_access = ref[k]
    <3> HIDE DEF a, b, id, ref
    <3>2. /\ SameStage(a, b)
          /\ \A i \in DOMAIN a.accesses : b.accesses[i].id = id[i]
          /\ \A k \in DOMAIN a.projections : b.projections[k].read_access = ref[k]
      BY <2>1, RepairStage
    <3> QED BY <3>2 DEF SameStage
  <2>4. Id(q, s) = id
    <3>1. \A i \in DOMAIN b.accesses : RepairedId(q, <<s, i>>) = b.accesses[i].id
      <4> TAKE i \in DOMAIN b.accesses
      <4>1. <<s, i>> \in Positions(q)
        BY <1>1, PositionsAre
      <4>2. RepairedId(q, <<s, i>>) = Access(q, <<s, i>>).id
        BY <4>1, RepairedKeep
      <4> QED BY <4>2 DEF Access
    <3>2. \A i \in DOMAIN a.accesses : RepairedId(q, <<s, i>>) = id[i]
      BY <2>3, <3>1
    <3>3. id = [i \in DOMAIN a.accesses |-> id[i]]
      BY DEF Id
    <3>4. Id(q, s) = [i \in DOMAIN b.accesses |-> RepairedId(q, <<s, i>>)]
      BY DEF Id
    <3> HIDE DEF a, b, id, ref
    <3> QED BY <2>3, <3>2, <3>3, <3>4
  <2>5. Ref(q, s) = ref
    <3>1. \A k \in DOMAIN b.projections :
            RepairedReference(q, s, b.projections[k]) = b.projections[k].read_access
      <4> TAKE k \in DOMAIN b.projections
      <4> DEFINE named == {x \in Matches(q, s, "read", b.projections[k].buffer, b.projections[k].read_access) :
                             Access(q, x).index = b.projections[k].index}
      <4>1. CASE Cardinality(named) = 1
        <5> DEFINE x == CHOOSE y \in named : TRUE
        <5>1. named # {}
          <6> HIDE DEF named
          <6> QED BY <4>1, FS_EmptySet
        <5>2. x \in named
          BY <5>1
        <5>3. x \in Positions(q) /\ Access(q, x).id = b.projections[k].read_access
          BY <5>2 DEF Matches
        <5>4. RepairedId(q, x) = Access(q, x).id
          BY <5>3, RepairedKeep
        <5>5. RepairedReference(q, s, b.projections[k]) = RepairedId(q, x)
          BY <4>1 DEF RepairedReference
        <5> QED BY <5>3, <5>4, <5>5
      <4>2. CASE Cardinality(named) # 1
        BY <4>2 DEF RepairedReference
      <4> QED BY <4>1, <4>2
    <3>2. \A k \in DOMAIN a.projections : RepairedReference(q, s, b.projections[k]) = ref[k]
      BY <2>3, <3>1
    <3>3. ref = [k \in DOMAIN a.projections |-> ref[k]]
      BY DEF Ref
    <3>4. Ref(q, s) = [k \in DOMAIN b.projections |-> RepairedReference(q, s, b.projections[k])]
      BY DEF Ref
    <3> HIDE DEF a, b, id, ref
    <3> QED BY <2>3, <3>2, <3>3, <3>4
  <2>6. Repaired(q)[s] = Relabelled(b, Id(q, s), Ref(q, s)) /\ Repaired(p)[s] = b
    BY <1>1, <1>4 DEF Repaired
  <2> HIDE DEF a, b, id, ref
  <2> QED BY <2>2, <2>4, <2>5, <2>6
<1>6. Repaired(q) = Repaired(p)
  <2>1. Repaired(q) = [s \in Stages(p) |-> Repaired(q)[s]] /\ Repaired(p) = [s \in Stages(p) |-> Repaired(p)[s]]
    BY <1>1 DEF Repaired
  <2> QED BY <1>5, <2>1
<1>7. [q EXCEPT !["stages"] = Repaired(p)] = q
  BY <1>2, <1>3, SetTwice
<1> QED BY <1>2, <1>6, <1>7

\* Numbers in their own order.
LEMMA InOwnOrder ==
  ASSUME NEW n \in Nat, NEW order, \A i, j \in 1 .. n : <<i, j>> \in order <=> i < j
  PROVE  \A k \in 1 .. n : InOrder(1 .. n, order)[k] = k
<1>1. ASSUME NEW x \in 1 .. n
      PROVE  Cardinality({y \in 1 .. n : <<y, x>> \in order}) = x - 1
  <2>1. {y \in 1 .. n : <<y, x>> \in order} = 1 .. x - 1
    OBVIOUS
  <2>2. Cardinality(1 .. x - 1) = x - 1
    BY FS_Interval
  <2> QED BY <2>1, <2>2
<1>2. SUFFICES ASSUME NEW k \in 1 .. n
               PROVE  InOrder(1 .. n, order)[k] = k
  OBVIOUS
<1>3. Cardinality(1 .. n) = n
  BY FS_Interval
<1>4. InOrder(1 .. n, order)[k]
        = CHOOSE x \in 1 .. n : Cardinality({y \in 1 .. n : <<y, x>> \in order}) = k - 1
  BY <1>3 DEF InOrder
<1>5. \A x \in 1 .. n : Cardinality({y \in 1 .. n : <<y, x>> \in order}) = k - 1 <=> x = k
  BY <1>1
<1> QED BY <1>4, <1>5

\* The bounded edges come before the others.
InGroups(edges) ==
  \A i, j \in DOMAIN edges : i < j /\ isBounded(edges[j]) => isBounded(edges[i])

GroupOrder(edges) ==
  {w \in (DOMAIN edges) \X (DOMAIN edges) :
     IF isBounded(edges[w[1]]) <=> isBounded(edges[w[2]]) THEN w[1] < w[2]
                                                      ELSE isBounded(edges[w[1]])}

LEMMA GroupsInOrder ==
  ASSUME NEW edges, IsList(edges)
  PROVE  InGroups(Grouped(edges))
<1> DEFINE n == Len(edges)
           g == Grouped(edges)
           place == InOrder(DOMAIN edges, GroupOrder(edges))
<1>1. n \in Nat /\ DOMAIN edges = 1 .. n /\ DOMAIN g = 1 .. n
  BY ListFacts, GroupedFacts
<1>2. g = [k \in DOMAIN edges |-> edges[place[k]]]
  BY DEF Grouped, GroupOrder
<1> HIDE DEF n, g
<1>3. \A i, j \in 1 .. n : <<i, j>> \in GroupOrder(edges) <=>
        IF isBounded(edges[i]) <=> isBounded(edges[j]) THEN i < j ELSE isBounded(edges[i])
  BY <1>1 DEF GroupOrder
<1>4. IsFiniteSet(1 .. n) /\ Cardinality(1 .. n) = n
  BY <1>1, FS_Interval
<1>5. IsOrder(1 .. n, GroupOrder(edges))
  <2>1. \A i \in 1 .. n : <<i, i>> \notin GroupOrder(edges)
    BY <1>1, <1>3
  <2>2. \A i, j \in 1 .. n : i = j \/ <<i, j>> \in GroupOrder(edges) \/ <<j, i>> \in GroupOrder(edges)
    <3> TAKE i, j \in 1 .. n
    <3>1. i = j \/ i < j \/ j < i
      BY <1>1
    <3>2. CASE isBounded(edges[i]) <=> isBounded(edges[j])
      BY <1>1, <1>3, <3>1, <3>2
    <3>3. CASE ~(isBounded(edges[i]) <=> isBounded(edges[j]))
      BY <1>1, <1>3, <3>3
    <3> QED BY <3>2, <3>3
  <2>3. \A i, j, k \in 1 .. n :
          <<i, j>> \in GroupOrder(edges) /\ <<j, k>> \in GroupOrder(edges) => <<i, k>> \in GroupOrder(edges)
    BY <1>1, <1>3
  <2> QED BY <2>1, <2>2, <2>3 DEF IsOrder
<1>6. /\ \A k \in 1 .. n : place[k] \in 1 .. n
      /\ \A j, k \in 1 .. n : j < k => <<place[j], place[k]>> \in GroupOrder(edges)
  BY <1>1, <1>4, <1>5, InOrderFacts
<1> HIDE DEF place
<1>7. \A k \in 1 .. n : g[k] = edges[place[k]]
  BY <1>1, <1>2
<1>8. \A i, j \in 1 .. n : i < j /\ isBounded(g[j]) => isBounded(g[i])
  BY <1>1, <1>3, <1>6, <1>7
<1> QED BY <1>1, <1>8 DEF InGroups, g

LEMMA GroupedAlready ==
  ASSUME NEW edges, IsList(edges), InGroups(edges)
  PROVE  Grouped(edges) = edges
<1> DEFINE n == Len(edges)
           place == InOrder(1 .. n, GroupOrder(edges))
<1>1. n \in Nat /\ DOMAIN edges = 1 .. n /\ edges = [k \in 1 .. n |-> edges[k]]
  <2>1. n \in Nat /\ DOMAIN edges = 1 .. n
    BY ListFacts
  <2>2. edges \in [1 .. n -> ToSet(edges)]
    BY DEF IsList
  <2> HIDE DEF n
  <2> QED BY <2>1, <2>2
<1> HIDE DEF n
<1>2. Grouped(edges) = [k \in 1 .. n |-> edges[place[k]]]
  BY <1>1 DEF Grouped, GroupOrder
<1>3. \A i, j \in 1 .. n : <<i, j>> \in GroupOrder(edges) <=> i < j
  <2> TAKE i, j \in 1 .. n
  <2>1. <<i, j>> \in GroupOrder(edges) <=>
          IF isBounded(edges[i]) <=> isBounded(edges[j]) THEN i < j ELSE isBounded(edges[i])
    BY <1>1 DEF GroupOrder
  <2>2. i = j \/ i < j \/ j < i
    BY <1>1
  <2>3. CASE isBounded(edges[i]) <=> isBounded(edges[j])
    BY <2>1, <2>3
  <2>4. CASE ~(isBounded(edges[i]) <=> isBounded(edges[j]))
    BY <1>1, <2>1, <2>2, <2>4 DEF InGroups
  <2> QED BY <2>3, <2>4
<1>4. \A k \in 1 .. n : place[k] = k
  BY <1>1, <1>3, InOwnOrder
<1> HIDE DEF place
<1> QED BY <1>1, <1>2, <1>4

LEMMA GroupTwice ==
  ASSUME NEW edges, IsList(edges)
  PROVE  Grouped(Grouped(edges)) = Grouped(edges)
<1>1. IsList(Grouped(edges)) /\ InGroups(Grouped(edges))
  BY GroupedFacts, GroupsInOrder
<1> QED BY <1>1, GroupedAlready

\* What the inference does depends on the stages and on the ends of the edges alone.
LEMMA ClearedIs ==
  ASSUME NEW dep
  PROVE  Cleared(dep) = [f \in DOMAIN dep |->
           IF f = "finite_state" THEN "none" ELSE IF f = "domain" THEN NoDomain
           ELSE IF f = "states" THEN {} ELSE dep[f]]
BY DEF Cleared

LEMMA ClearedTwice ==
  ASSUME NEW p, NEW dep, NEW new, Inferred(p, dep, new)
  PROVE  Cleared(new) = Cleared(dep)
<1> DEFINE bare == Cleared(dep)
<1>1. /\ DOMAIN new = DOMAIN dep
      /\ \A f \in DOMAIN dep : f \notin {"finite_state", "domain", "states"} => new[f] = dep[f]
  <2>1. /\ DOMAIN bare = DOMAIN dep
        /\ \A f \in DOMAIN dep : f \notin {"finite_state", "domain", "states"} => bare[f] = dep[f]
    BY ClearedIs
  <2>2. CASE new = bare
    BY <2>1, <2>2
  <2>3. ASSUME NEW proof, NEW refs, new = Proven(bare, proof, refs)
        PROVE  /\ DOMAIN new = DOMAIN bare
               /\ \A f \in DOMAIN bare : f \notin {"finite_state", "domain", "states"} => new[f] = bare[f]
    <3> HIDE DEF bare
    <3> QED BY <2>3 DEF Proven
  <2> HIDE DEF bare
  <2>4. new = bare \/ \E proof, refs : new = Proven(bare, proof, refs)
    BY DEF Inferred, bare
  <2> QED BY <2>1, <2>2, <2>3, <2>4
<1>2. Cleared(new) = [f \in DOMAIN new |->
        IF f = "finite_state" THEN "none" ELSE IF f = "domain" THEN NoDomain
        ELSE IF f = "states" THEN {} ELSE new[f]]
  BY ClearedIs
<1>3. Cleared(dep) = [f \in DOMAIN dep |->
        IF f = "finite_state" THEN "none" ELSE IF f = "domain" THEN NoDomain
        ELSE IF f = "states" THEN {} ELSE dep[f]]
  BY ClearedIs
<1> QED BY <1>1, <1>2, <1>3

LEMMA StagesInfer ==
  ASSUME NEW p, NEW q, q.stages = p.stages
  PROVE  Begin(q) = Begin(p) /\ \A acc, dep : ProveEdge(q, acc, dep) = ProveEdge(p, acc, dep)
<1>1. /\ Reads(q) = Reads(p) /\ Stages(q) = Stages(p)
      /\ \A x : Access(q, x) = Access(p, x)
      /\ \A s : IsScan(q, s) <=> IsScan(p, s)
  BY SameStages, SameFacts DEF Same
<1>2. RegexKernels(q) = RegexKernels(p)
  <2> DEFINE Kernels(r) == {s \in Stages(r) : ~IsScan(r, s) /\ r.stages[s].advance > 0}
             Order(r) == {w \in Kernels(r) \X Kernels(r) : w[1] < w[2]}
  <2>1. Kernels(q) = Kernels(p)
    BY <1>1
  <2>2. \A r : RegexKernels(r) = InOrder(Kernels(r), Order(r))
    BY DEF RegexKernels
  <2> HIDE DEF Kernels
  <2> QED BY <2>1, <2>2
<1>3. \A n : RegexStates(q, n) = RegexStates(p, n)
  BY <1>2 DEF RegexStates
<1>4. Begin(q) = Begin(p)
  BY <1>1, <1>2, <1>3 DEF Begin, FirstStateId
<1>5. \A acc, dep : ProveEdge(q, acc, dep) = ProveEdge(p, acc, dep)
  <2> TAKE acc, dep
  <2>1. Proof(q, dep) = Proof(p, dep) /\ ConsumerAccess(q, dep) = ConsumerAccess(p, dep)
    BY StagesDecide
  <2> QED BY <1>1, <2>1 DEF ProveEdge
<1> QED BY <1>4, <1>5

LEMMA InferTwice ==
  ASSUME NEW p, NEW q, q.stages = p.stages, NEW a, NEW b,
         Len(a.dependencies) \in Nat, Len(b.dependencies) = Len(a.dependencies),
         \A k \in 1 .. Len(a.dependencies) : Cleared(b.dependencies[k]) = Cleared(a.dependencies[k])
  PROVE  Infer(q, b) = Infer(p, a)
<1> DEFINE n == Len(a.dependencies)
<1>1. PICK g : AfterIs(p, a.dependencies, g) /\ Infer(p, a) = g[n]
  BY InferIsAfter
<1>2. PICK h : AfterIs(q, b.dependencies, h) /\ Infer(q, b) = h[n]
  BY InferIsAfter
<1>3. \A k \in 0 .. n : g[k] = IF k = 0 THEN Begin(p) ELSE ProveEdge(p, g[k - 1], Cleared(a.dependencies[k]))
  <2>1. g = [k \in 0 .. n |->
               IF k = 0 THEN Begin(p) ELSE ProveEdge(p, g[k - 1], Cleared(a.dependencies[k]))]
    BY <1>1 DEF AfterIs
  <2> QED BY <2>1
<1>4. \A k \in 0 .. n : h[k] = IF k = 0 THEN Begin(q) ELSE ProveEdge(q, h[k - 1], Cleared(b.dependencies[k]))
  <2>1. h = [k \in 0 .. n |->
               IF k = 0 THEN Begin(q) ELSE ProveEdge(q, h[k - 1], Cleared(b.dependencies[k]))]
    BY <1>2 DEF AfterIs
  <2> QED BY <2>1
<1>5. Begin(q) = Begin(p) /\ \A acc, dep : ProveEdge(q, acc, dep) = ProveEdge(p, acc, dep)
  BY StagesInfer
<1>6. n \in Nat /\ \A k \in 1 .. n : Cleared(b.dependencies[k]) = Cleared(a.dependencies[k])
  OBVIOUS
<1> HIDE DEF n
<1> DEFINE Bad == {k \in 0 .. n : h[k] # g[k]}
<1>7. Bad = {}
  <2> SUFFICES ASSUME Bad # {} PROVE FALSE
    OBVIOUS
  <2>1. Bad \in SUBSET Nat
    BY <1>6
  <2>2. PICK k \in Bad : \A m \in Bad : k <= m
    <3> HIDE DEF Bad
    <3> QED BY <2>1, LeastElement
  <2>3. k \in 0 .. n /\ h[k] # g[k]
    OBVIOUS
  <2>4. k # 0
    BY <1>3, <1>4, <1>5, <1>6, <2>3
  <2>5. k - 1 \in 0 .. n /\ k \in 1 .. n /\ h[k - 1] = g[k - 1]
    BY <1>6, <2>2, <2>3, <2>4
  <2> QED BY <1>3, <1>4, <1>5, <1>6, <2>3, <2>4, <2>5
<1>8. h[n] = g[n]
  BY <1>6, <1>7
<1> QED BY <1>1, <1>2, <1>8

\* What a pass that ran last would do again: nothing.
Stable ==
  outcome = "ok" =>
    /\ last = "dependence-analysis" =>
         /\ assignAccessIds(pipeline) = pipeline /\ ~RelationFailure(pipeline)
         /\ analysis = RawDependencies(pipeline)
    /\ last = "dependency-classification" => groupClassifiedDependencies(analysis) = analysis
    /\ last = "finite-state-inference" =>
         LET r == Infer(pipeline, analysis)
         IN  /\ [pipeline EXCEPT !.states = r.states, !.notes = r.notes] = pipeline
             /\ [analysis EXCEPT !.dependencies = r.dependencies] = analysis
    /\ last = "speculative-fusion" =>
         [analysis EXCEPT !.fusion = <<Candidate(pipeline, analysis)>>] = analysis

\* Two fields that are given the values they have.
LEMMA SetBothTwice ==
  ASSUME NEW r, NEW f \in DOMAIN r, NEW g \in DOMAIN r, f # g, NEW v, NEW w,
         NEW q, q = [r EXCEPT ![f] = v, ![g] = w]
  PROVE  [q EXCEPT ![f] = v, ![g] = w] = q
<1> DEFINE Both(x) == [i \in DOMAIN x |-> IF i = f THEN v ELSE IF i = g THEN w ELSE x[i]]
<1>1. q = Both(r) /\ [q EXCEPT ![f] = v, ![g] = w] = Both(q)
  OBVIOUS
<1>2. DOMAIN q = DOMAIN r
  BY <1>1
<1>3. \A i \in DOMAIN r : q[i] = IF i = f THEN v ELSE IF i = g THEN w ELSE r[i]
  BY <1>1
<1>4. Both(q) = Both(r)
  BY <1>2, <1>3
<1> QED BY <1>1, <1>4

LEMMA AnalysisAgain ==
  ASSUME CompilerInv, Stable, BitstreamDependenceAnalysis
  PROVE  Stable' /\ (last' = last => UNCHANGED <<pipeline, analysis, outcome>>)
<1> DEFINE q == assignAccessIds(pipeline)
           a == RawDependencies(q)
<1>1. /\ outcome = "ok" /\ pipeline' = q /\ last' = "dependence-analysis"
      /\ IF RelationFailure(q)
         THEN outcome' = "failed"
         ELSE analysis' = a /\ outcome' = (IF ModuleVerifies(q, a) THEN "ok" ELSE "invalid")
  BY DEF BitstreamDependenceAnalysis, Ends
<1>2. IsPipeline(pipeline) /\ ModuleVerifies(pipeline, analysis)
  BY <1>1 DEF CompilerInv, Good, Derived
<1> HIDE DEF q
<1>3. assignAccessIds(q) = q
  BY <1>2, RepairTwice DEF q
<1>4. Stable'
  BY <1>1, <1>3 DEF Stable
<1>5. ASSUME last' = last
      PROVE  UNCHANGED <<pipeline, analysis, outcome>>
  <2>1. q = pipeline /\ ~RelationFailure(pipeline) /\ analysis = RawDependencies(pipeline)
    BY <1>1, <1>5 DEF Stable, q
  <2> QED BY <1>1, <1>2, <2>1
<1> QED BY <1>4, <1>5

LEMMA ClassificationAgain ==
  ASSUME CompilerInv, Stable, BitstreamDependencyClassification
  PROVE  Stable' /\ (last' = last => UNCHANGED <<pipeline, analysis, outcome>>)
<1> DEFINE a == groupClassifiedDependencies(analysis)
<1>1. /\ outcome = "ok" /\ pipeline' = pipeline /\ analysis' = a /\ analysis.exists
      /\ last' = "dependency-classification"
      /\ outcome' = (IF ModuleVerifies(pipeline, a) THEN "ok" ELSE "invalid")
  BY DEF BitstreamDependencyClassification, Ends
<1>2. Good(pipeline, analysis, proved)
  BY <1>1 DEF CompilerInv
<1>3. /\ ModuleVerifies(pipeline, analysis) /\ IsList(analysis.dependencies)
      /\ {"grouped", "dependencies"} \subseteq DOMAIN analysis
  BY <1>1, <1>2 DEF Good, EdgesHold
<1>4. groupClassifiedDependencies(a) = a
  <2> DEFINE grouped == Grouped(analysis.dependencies)
  <2>1. a = [analysis EXCEPT !["grouped"] = TRUE, !["dependencies"] = grouped]
    BY DEF groupClassifiedDependencies
  <2>2. Grouped(grouped) = grouped
    BY <1>3, GroupTwice
  <2> HIDE DEF a, grouped
  <2>3. a.dependencies = grouped
    BY <1>3, <2>1
  <2>4. groupClassifiedDependencies(a) = [a EXCEPT !["grouped"] = TRUE, !["dependencies"] = grouped]
    BY <2>2, <2>3 DEF groupClassifiedDependencies
  <2>5. "grouped" # "dependencies"
    OBVIOUS
  <2> QED BY <1>3, <2>1, <2>4, <2>5, SetBothTwice
<1>5. Stable'
  <2> HIDE DEF a
  <2> QED BY <1>1, <1>4 DEF Stable
<1>6. ASSUME last' = last
      PROVE  UNCHANGED <<pipeline, analysis, outcome>>
  <2>1. a = analysis
    BY <1>1, <1>6 DEF Stable
  <2> HIDE DEF a
  <2> QED BY <1>1, <1>3, <2>1
<1> QED BY <1>5, <1>6

LEMMA InferAgain ==
  ASSUME NEW p, IsPipeline(p), NEW a, ModuleVerifies(p, a), EdgesHold(p, a.dependencies),
         NEW q, q.stages = p.stages, NEW b, b.dependencies = Infer(p, a).dependencies
  PROVE  Infer(q, b) = Infer(p, a)
<1> DEFINE n == Len(a.dependencies)
           r == Infer(p, a)
<1>1. n \in Nat
  BY ListFacts DEF EdgesHold
<1>2. Done(p, a.dependencies, n, r)
  BY EdgesInferable, InferDone
<1> HIDE DEF r
<1>3. Len(b.dependencies) = n
  BY <1>2 DEF Done, r
<1>4. \A k \in 1 .. n : Cleared(b.dependencies[k]) = Cleared(a.dependencies[k])
  <2> TAKE k \in 1 .. n
  <2>1. Inferred(p, a.dependencies[k], b.dependencies[k])
    BY <1>2 DEF Done, r
  <2> QED BY <2>1, ClearedTwice
<1> QED BY <1>1, <1>3, <1>4, InferTwice

LEMMA InferenceAgain ==
  ASSUME CompilerInv, Stable, BitstreamFiniteStateInference
  PROVE  Stable' /\ (last' = last => UNCHANGED <<pipeline, analysis, outcome>>)
<1> DEFINE r == Infer(pipeline, analysis)
           q == [pipeline EXCEPT !.states = r.states, !.notes = r.notes]
           a == [analysis EXCEPT !.dependencies = r.dependencies]
<1>1. /\ outcome = "ok" /\ pipeline' = q /\ analysis' = a /\ analysis.exists
      /\ last' = "finite-state-inference"
      /\ outcome' = (IF ModuleVerifies(q, a) THEN "ok" ELSE "invalid")
  BY DEF BitstreamFiniteStateInference, Ends
<1>2. Good(pipeline, analysis, proved)
  BY <1>1 DEF CompilerInv
<1>3. /\ ModuleVerifies(pipeline, analysis) /\ EdgesHold(pipeline, analysis.dependencies)
      /\ {"stages", "states", "notes"} \subseteq DOMAIN pipeline
      /\ "dependencies" \in DOMAIN analysis /\ IsPipeline(pipeline)
  BY <1>1, <1>2 DEF Good, Derived, IsPipeline
<1> HIDE DEF r
<1>4. q.stages = pipeline.stages /\ a.dependencies = r.dependencies
  BY <1>3
<1> HIDE DEF q, a
<1>6. Infer(q, a) = r
  BY <1>3, <1>4, InferAgain DEF r
<1>7. [q EXCEPT !.states = r.states, !.notes = r.notes] = q
  <2>1. q = [pipeline EXCEPT !["states"] = r.states, !["notes"] = r.notes] /\ "states" # "notes"
    BY DEF q
  <2>2. [q EXCEPT !["states"] = r.states, !["notes"] = r.notes] = q
    BY <1>3, <2>1, SetBothTwice
  <2> QED BY <2>2
<1>8. [a EXCEPT !.dependencies = r.dependencies] = a
  <2>1. a = [analysis EXCEPT !["dependencies"] = r.dependencies]
    BY DEF a
  <2>2. [a EXCEPT !["dependencies"] = r.dependencies] = a
    BY <1>3, <2>1, SetTwice
  <2> QED BY <2>2
<1>9. Stable'
  BY <1>1, <1>6, <1>7, <1>8 DEF Stable
<1>10. ASSUME last' = last
       PROVE  UNCHANGED <<pipeline, analysis, outcome>>
  <2>1. q = pipeline /\ a = analysis
    BY <1>1, <1>10 DEF Stable, q, a, r
  <2> QED BY <1>1, <1>3, <2>1
<1> QED BY <1>9, <1>10

LEMMA FusionAgain ==
  ASSUME CompilerInv, Stable, BitstreamSpeculativeFusion
  PROVE  Stable' /\ (last' = last => UNCHANGED <<pipeline, analysis, outcome>>)
<1> DEFINE c == Candidate(pipeline, analysis)
           a == [analysis EXCEPT !.fusion = <<c>>]
<1>1. /\ outcome = "ok" /\ pipeline' = pipeline /\ analysis' = a
      /\ last' = "speculative-fusion"
      /\ outcome' = (IF ModuleVerifies(pipeline, a) THEN "ok" ELSE "invalid")
  BY DEF BitstreamSpeculativeFusion, Ends
<1>2. ModuleVerifies(pipeline, analysis) /\ {"fusion", "dependencies"} \subseteq DOMAIN analysis
  BY <1>1 DEF CompilerInv, Good
<1> HIDE DEF c
<1>3. a.dependencies = analysis.dependencies
  BY <1>2
<1>4. Candidate(pipeline, a) = c
  <2> HIDE DEF a
  <2> QED BY <1>3 DEF Candidate, c
<1>5. [a EXCEPT !.fusion = <<c>>] = a
  <2>1. a = [analysis EXCEPT !["fusion"] = <<c>>]
    OBVIOUS
  <2> HIDE DEF a
  <2>2. [a EXCEPT !["fusion"] = <<c>>] = a
    BY <1>2, <2>1, SetTwice
  <2> QED BY <2>2
<1>6. Stable'
  <2> HIDE DEF a
  <2> QED BY <1>1, <1>4, <1>5 DEF Stable
<1>7. ASSUME last' = last
      PROVE  UNCHANGED <<pipeline, analysis, outcome>>
  <2>1. a = analysis
    BY <1>1, <1>7 DEF Stable, c
  <2> HIDE DEF a
  <2> QED BY <1>1, <1>2, <2>1
<1> QED BY <1>6, <1>7

LEMMA StableNext ==
  ASSUME CompilerInv, Stable, [Next]_vars
  PROVE  Stable' /\ (last' = last => UNCHANGED <<pipeline, analysis, outcome>>)
<1>1. CASE UNCHANGED vars
  BY <1>1 DEF vars, Stable
<1>2. CASE Next
  BY <1>2, AnalysisAgain, ClassificationAgain, InferenceAgain, FusionAgain DEF Next
<1> QED BY <1>1, <1>2

\* A pass that is run twice in a row leaves the pipeline, the analysis and the exit as
\* they are: the ids it gave are kept, the groups are in order, and the inference proves
\* the same edges by the same states.
THEOREM PassesAreIdempotent == Spec => Idempotent
<1>1. Init => Stable
  BY DEF Init, Stable
<1>2. CompilerInv /\ Stable /\ [Next]_vars => Stable' /\ [last' = last => UNCHANGED <<pipeline, analysis, outcome>>]_vars
  BY StableNext
<1> QED BY <1>1, <1>2, CompilerIsInvariant, PTL DEF Spec, Idempotent

-----------------------------------------------------------------------------
(***************************************************************************)
(* What the verifiers refuse in the order of the runner.                   *)
(***************************************************************************)

\* The dependence analysis leaves nothing to refuse: the ids it gave name one access each.
LEMMA RawVerifies ==
  ASSUME NEW p, IsPipeline(p), NEW q, q = assignAccessIds(p), NEW x \in Reads(q)
  PROVE  DependencyVerifies(q, Edge(q, x))
<1> DEFINE dep == Edge(q, x)
           buffer == Access(q, x).buffer
           t == LatestWriter(q, x[1], buffer)
           z == RepresentativeWrite(q, t, buffer)
<1>1. IsPipeline(q) /\ x \in Positions(q)
  BY RepairFacts DEF Reads
<1>2. \A y, w \in Positions(q) : Access(q, y).id = Access(q, w).id => y = w
  <2>1. Positions(q) = Positions(p)
    BY RepairFacts, SameFacts
  <2>2. \A y \in Positions(p) : Access(q, y).id = RepairedId(p, y)
    BY RepairFacts
  <2> QED BY <2>1, <2>2, RepairedIds
<1>3. /\ dep.producer = t /\ dep.consumer = x[1] /\ dep.buffer = buffer
      /\ dep.consumer_access = Access(q, x).id
      /\ dep.memory = (IF t = 0 THEN "input" ELSE "raw")
      /\ dep.window = ~StructurallyUnbounded(q, x, t)
      /\ t # 0 => dep.producer_access = Access(q, z).id
      /\ dep.finite_state = "none" /\ dep.domain = NoDomain /\ dep.states = {}
  BY DEF Edge
<1>4. ConsumerAccess(q, dep) = {x}
  <2>1. x \in ConsumerAccess(q, dep)
    BY <1>3 DEF ConsumerAccess, Matches, Reads
  <2>2. \A y \in ConsumerAccess(q, dep) : y = x
    BY <1>1, <1>2, <1>3 DEF ConsumerAccess, Matches
  <2> QED BY <2>1, <2>2
<1>5. ASSUME t # 0
      PROVE  ProducerAccess(q, dep) = {z}
  <2>1. t \in WritersOf(q, buffer)
    BY <1>1, <1>5, WriterFacts
  <2>2. z \in Writes(q) /\ z[1] = t /\ Access(q, z).buffer = buffer
    BY <1>1, <2>1, RepresentativeFacts
  <2>3. z \in ProducerAccess(q, dep) /\ z \in Positions(q)
    BY <1>3, <1>5, <2>2 DEF ProducerAccess, Matches, Writes
  <2>4. \A y \in ProducerAccess(q, dep) : y = z
    BY <1>2, <1>3, <1>5, <2>3 DEF ProducerAccess, Matches
  <2> QED BY <2>3, <2>4
<1> HIDE DEF dep, buffer, t, z
<1>6. /\ Cardinality(ConsumerAccess(q, dep)) = 1
      /\ t # 0 => Cardinality(ProducerAccess(q, dep)) = 1
  BY <1>4, <1>5, FS_Singleton
<1>7. DependencyVerifies(q, dep)
  BY <1>3, <1>4, <1>6 DEF DependencyVerifies
<1> QED BY <1>7 DEF dep

LEMMA AnalysisVerifies ==
  ASSUME NEW p, IsPipeline(p), NEW a, ModuleVerifies(p, a), NEW q, q = assignAccessIds(p)
  PROVE  ModuleVerifies(q, RawDependencies(q))
<1>1. IsPipeline(q) /\ Same(p, q) /\ Stages(q) = Stages(p)
  BY RepairFacts DEF Same
<1>2. ASSUME NEW s \in Stages(q)
      PROVE  /\ MetadataVerifies(q.stages[s])
             /\ \A r \in DOMAIN q.stages[s].recurrences : MetadataVerifies(q.stages[s].recurrences[r])
  <2>1. SameStage(p.stages[s], q.stages[s])
    BY <1>1 DEF Same
  <2>2. /\ MetadataVerifies(p.stages[s])
        /\ \A r \in DOMAIN p.stages[s].recurrences : MetadataVerifies(p.stages[s].recurrences[r])
    BY <1>1 DEF ModuleVerifies
  <2>3. MetadataVerifies(q.stages[s])
    BY <2>1, <2>2 DEF SameStage, MetadataVerifies
  <2>4. q.stages[s].recurrences = p.stages[s].recurrences
    BY <2>1 DEF SameStage
  <2> QED BY <2>2, <2>3, <2>4
<1>3. StandsForOne(q)
  BY VerifiedProjections, RepairedProjections
<1>4. \A k \in DOMAIN RawDependencies(q).dependencies : DependencyVerifies(q, RawDependencies(q).dependencies[k])
  BY <1>1, RawEdges, RawVerifies
<1>5. RawDependencies(q).fusion = <<>>
  BY DEF RawDependencies
<1> QED BY <1>2, <1>3, <1>4, <1>5 DEF ModuleVerifies, StandsForOne

\* The verifiers look at the stages, the states, the edges and the descriptor.
LEMMA EdgesAlike ==
  ASSUME NEW p, NEW q, q.stages = p.stages, NEW dep
  PROVE  /\ ConsumerAccess(q, dep) = ConsumerAccess(p, dep)
         /\ ProducerAccess(q, dep) = ProducerAccess(p, dep)
         /\ ScanOutputDomain(q, dep) = ScanOutputDomain(p, dep)
         /\ \A x, t : StructurallyUnbounded(q, x, t) <=> StructurallyUnbounded(p, x, t)
         /\ \A x : EvidenceVerifies(q, dep, x) <=> EvidenceVerifies(p, dep, x)
<1>1. /\ ConsumerAccess(q, dep) = ConsumerAccess(p, dep)
      /\ ProducerAccess(q, dep) = ProducerAccess(p, dep)
  BY StagesDecide
<1>2. /\ \A x : Access(q, x) = Access(p, x)
      /\ \A x : ProjectionsOf(q, x) = ProjectionsOf(p, x)
      /\ \A s : IsScan(q, s) <=> IsScan(p, s)
  BY SameStages, SameFacts
<1>3. ScanOutputDomain(q, dep) = ScanOutputDomain(p, dep)
  BY <1>1, <1>2 DEF ScanOutputDomain
<1>4. \A x, t : StructurallyUnbounded(q, x, t) <=> StructurallyUnbounded(p, x, t)
  BY <1>2 DEF StructurallyUnbounded
<1>5. \A x : RecurrenceDomain(q, x) = RecurrenceDomain(p, x)
  BY <1>2 DEF RecurrenceDomain
<1>6. \A x : EvidenceVerifies(q, dep, x) <=> EvidenceVerifies(p, dep, x)
  <2> TAKE x
  <2>1. {k \in ProjectionsOf(q, x) : q.stages[x[1]].projections[k].domain = dep.domain}
          = {k \in ProjectionsOf(p, x) : p.stages[x[1]].projections[k].domain = dep.domain}
    BY <1>2
  <2> QED BY <1>3, <1>5, <2>1 DEF EvidenceVerifies
<1> QED BY <1>1, <1>3, <1>4, <1>6

\* All but the edges and the descriptor.
BodyVerifies(p) ==
  /\ \A s \in Stages(p) : /\ MetadataVerifies(p.stages[s])
                         /\ \A r \in DOMAIN p.stages[s].recurrences : MetadataVerifies(p.stages[s].recurrences[r])
  /\ StandsForOne(p)

LEMMA ModuleParts ==
  ASSUME NEW p, NEW a
  PROVE  ModuleVerifies(p, a) <=>
           /\ BodyVerifies(p)
           /\ \A k \in DOMAIN a.dependencies : DependencyVerifies(p, a.dependencies[k])
           /\ a.fusion # <<>> => FusionVerifies(p, a.fusion[1])
BY DEF ModuleVerifies, BodyVerifies, StandsForOne

LEMMA BodiesAlike ==
  ASSUME NEW p, NEW q, q.stages = p.stages
  PROVE  BodyVerifies(q) <=> BodyVerifies(p)
<1>1. Stages(q) = Stages(p) /\ Reads(q) = Reads(p) /\ \A x : ProjectionsOf(q, x) = ProjectionsOf(p, x)
  BY SameStages, SameFacts DEF Same
<1>2. \A s, k : ProjectionVerifies(q, s, k) <=> ProjectionVerifies(p, s, k)
  <2> TAKE s, k
  <2>1. {x \in Reads(q) : x[1] = s /\ k \in ProjectionsOf(q, x)}
          = {x \in Reads(p) : x[1] = s /\ k \in ProjectionsOf(p, x)}
    BY <1>1
  <2> QED BY <2>1 DEF ProjectionVerifies
<1> QED BY <1>1, <1>2 DEF BodyVerifies, StandsForOne

LEMMA ModulesAlike ==
  ASSUME NEW p, NEW a, ModuleVerifies(p, a), NEW q, q.stages = p.stages, q.states = p.states,
         NEW b, \A k \in DOMAIN b.dependencies :
                  \E j \in DOMAIN a.dependencies : b.dependencies[k] = a.dependencies[j],
         b.fusion # <<>> => FusionVerifies(p, b.fusion[1])
  PROVE  ModuleVerifies(q, b)
<1>1. \A ref : StateNamed(q, ref) = StateNamed(p, ref)
  BY DEF StateNamed
<1>2. ASSUME NEW k \in DOMAIN b.dependencies
      PROVE  DependencyVerifies(q, b.dependencies[k])
  <2>1. PICK j \in DOMAIN a.dependencies : b.dependencies[k] = a.dependencies[j]
    BY <1>2
  <2> DEFINE dep == a.dependencies[j]
  <2>2. DependencyVerifies(p, dep)
    BY ModuleParts
  <2> HIDE DEF dep
  <2>3. DependencyVerifies(q, dep)
    BY <1>1, <2>2, EdgesAlike DEF DependencyVerifies
  <2> QED BY <2>1, <2>3 DEF dep
<1>3. b.fusion # <<>> => FusionVerifies(q, b.fusion[1])
  BY <1>1 DEF FusionVerifies
<1>4. BodyVerifies(q)
  BY ModuleParts, BodiesAlike
<1> QED BY <1>2, <1>3, <1>4, ModuleParts

\* No two projections of a read name one domain.
Single(p, x) ==
  \A j, k \in ProjectionsOf(p, x) :
    p.stages[x[1]].projections[j].domain = p.stages[x[1]].projections[k].domain => j = k

\* The evidence for an edge that the inference proves is counted by the verifier.
LEMMA EdgeVerifies ==
  ASSUME NEW p, IsPipeline(p), StandsForOne(p), NEW x \in Reads(p), Single(p, x),
         NEW dep, Leads(p, x, dep), DependencyVerifies(p, dep),
         NEW new, Inferred(p, dep, new), NEW q, q.stages = p.stages,
         new.finite_state = "proven" => \A ref \in new.states : Names(q.states, ref, new.domain)
  PROVE  DependencyVerifies(q, new)
<1> DEFINE bare == Cleared(dep)
           proof == Proof(p, bare)
<1>1. IsEdge(dep) /\ ConsumerAccess(p, dep) = {x}
  <2>1. ConsumerAccess(p, dep) = {x}
    BY EndsOfEdge
  <2> QED BY <2>1 DEF Leads
<1>2. SameEnds(dep, bare)
  BY <1>1, ClearedFacts
<1>3. /\ SameEnds(dep, new)
      /\ proof.form = "none" => new.finite_state = "none" /\ new.domain = NoDomain /\ new.states = {}
      /\ proof.form # "none" =>
           new.finite_state = "proven" /\ new.domain = proof.domain /\ new.states # {}
  BY <1>1, InferredFacts
<1> HIDE DEF bare, proof
<1>4. /\ ConsumerAccess(q, new) = {x} /\ ProducerAccess(q, new) = ProducerAccess(p, dep)
      /\ ConsumerAccess(p, bare) = {x}
      /\ ScanOutputDomain(p, bare) = ScanOutputDomain(p, dep)
      /\ ScanOutputDomain(p, new) = ScanOutputDomain(p, dep)
      /\ \A t : StructurallyUnbounded(q, x, t) <=> StructurallyUnbounded(p, x, t)
  <2>1. /\ ConsumerAccess(p, new) = {x} /\ ProducerAccess(p, new) = ProducerAccess(p, dep)
        /\ ScanOutputDomain(p, new) = ScanOutputDomain(p, dep)
    BY <1>1, <1>3, SameEndsFacts
  <2>2. ConsumerAccess(p, bare) = {x} /\ ScanOutputDomain(p, bare) = ScanOutputDomain(p, dep)
    BY <1>1, <1>2, SameEndsFacts
  <2> QED BY <2>1, <2>2, EdgesAlike
<1>5. ASSUME proof.form # "none"
      PROVE  new.memory = "raw" /\ new.domain > 0 /\ EvidenceVerifies(p, new, x)
  <2>1. bare.memory = "raw" /\ proof \in ProofsFor(p, bare, x)
    BY <1>4, <1>5, ProofFrom DEF proof
  <2>2. new.memory = "raw" /\ new.domain = proof.domain
    BY <1>2, <1>3, <1>5, <2>1 DEF SameEnds
  <2>3. CASE proof.form = "scan"
    <3>1. proof.domain = ScanOutputDomain(p, bare) /\ proof.domain # NoDomain
      BY <2>1, <2>3, FormFacts
    <3>2. IsScan(p, bare.producer) /\ proof.domain = p.stages[bare.producer].state_domain
      BY <3>1 DEF ScanOutputDomain
    <3>3. proof.domain \in Nat
      BY <3>2 DEF IsScan, IsPipeline, IsStage
    <3>4. ScanOutputDomain(p, new) = new.domain
      BY <1>4, <2>2, <3>1
    <3> QED BY <2>2, <3>1, <3>3, <3>4 DEF EvidenceVerifies, NoDomain
  <2>4. CASE proof.form \in {"scan_projection", "projected_state", "neighbor"}
    <3> DEFINE domain(k) == p.stages[x[1]].projections[k].domain
               found == {k \in ProjectionsOf(p, x) : domain(k) = new.domain}
    <3>1. proof.domain \in ProjectedDomain(p, x)
      BY <2>1, <2>4, FormFacts
    <3>2. PICK k \in ProjectionsOf(p, x) : domain(k) = proof.domain
      BY <3>1, PositiveProjections, ProjectedFacts
    <3>3. domain(k) > 0
      BY PositiveProjections
    <3>4. \A j \in ProjectionsOf(p, x) : domain(j) = domain(k) => j = k
      BY DEF Single
    <3> HIDE DEF domain
    <3>5. found = {k}
      BY <2>2, <3>2, <3>4
    <3> HIDE DEF found
    <3>6. Cardinality(found) = 1
      BY <3>5, FS_Singleton
    <3>7. EvidenceVerifies(p, new, x)
      BY <3>6 DEF EvidenceVerifies, found, domain
    <3> QED BY <2>2, <3>2, <3>3, <3>7
  <2>5. CASE proof.form = "recurrence"
    <3>1. proof.domain = RecurrenceDomain(p, x) /\ proof.domain # NoDomain
      BY <2>1, <2>5, FormFacts
    <3>2. x[1] \in Stages(p) /\ x[2] \in DOMAIN p.stages[x[1]].accesses
      BY ReadsFinite, PositionsAre
    <3>3. IsStage(p.stages[x[1]])
      BY <3>2 DEF IsPipeline
    <3>4. Access(p, x).recurrence \in {0} \cup DOMAIN p.stages[x[1]].recurrences
      BY <3>2, <3>3 DEF IsStage, Access
    <3>5. proof.domain \in Nat
      BY <3>1, <3>3, <3>4 DEF RecurrenceDomain, Varies, IsStage
    <3>6. RecurrenceDomain(p, x) = new.domain
      BY <2>2, <3>1
    <3> QED BY <2>2, <3>1, <3>5, <3>6 DEF EvidenceVerifies, NoDomain
  <2>6. proof.form \in {"scan", "scan_projection", "projected_state", "recurrence", "neighbor"}
    BY <2>1, FormFacts
  <2> QED BY <2>3, <2>4, <2>5, <2>6
<1>6. new.finite_state = "proven" => \A ref \in new.states : \E state \in StateNamed(q, ref) : state.domain = new.domain
  BY DEF Names, StateNamed
<1>7. /\ new.memory = dep.memory /\ new.producer = dep.producer /\ new.window = dep.window
  BY <1>3 DEF SameEnds
<1>8. /\ (new.memory = "raw") <=> (new.producer # 0)
      /\ Cardinality(ConsumerAccess(q, new)) = 1
      /\ new.memory = "raw" => Cardinality(ProducerAccess(q, new)) = 1
      /\ new.window <=> ~StructurallyUnbounded(q, x, new.producer)
  BY <1>1, <1>4, <1>7, FS_Singleton DEF DependencyVerifies
<1>9. new.finite_state = "proven" =>
        /\ new.memory = "raw" /\ new.domain > 0 /\ new.states # {}
        /\ EvidenceVerifies(q, new, x)
  BY <1>3, <1>5, EdgesAlike
<1>10. new.finite_state = "none" => new.domain = NoDomain /\ new.states = {}
  BY <1>3
<1> QED BY <1>4, <1>6, <1>8, <1>9, <1>10 DEF DependencyVerifies

\* The edge that the loop left at each place.
LEMMA EdgeBefore ==
  ASSUME NEW p, IsPipeline(p), NEW a, ModuleVerifies(p, a), EdgesHold(p, a.dependencies),
         NEW k \in DOMAIN Infer(p, a).dependencies
  PROVE  LET new == Infer(p, a).dependencies[k]
         IN  \E dep, x : /\ x \in Reads(p) /\ Leads(p, x, dep) /\ DependencyVerifies(p, dep)
                         /\ Inferred(p, dep, new) /\ SameEnds(dep, new) /\ IsEdge(new)
                         /\ new.finite_state \in {"none", "proven"}
                         /\ new.domain # NoDomain <=> new.finite_state = "proven"
                         /\ Refers(p, Infer(p, a), new)
<1> DEFINE old == a.dependencies
           r == Infer(p, a)
           n == Len(old)
<1>1. Inferable(p, old) /\ IsList(old) /\ n \in Nat /\ DOMAIN old = 1 .. n
  BY EdgesInferable, ListFacts DEF EdgesHold
<1>2. Done(p, old, n, r)
  BY <1>1, InferDone
<1>3. DOMAIN r.dependencies = 1 .. n /\ Tracks(p, r)
  <2> HIDE DEF r, n, old
  <2> QED BY <1>2, ListFacts DEF Done, IsAccumulator
<1>4. k \in 1 .. n /\ k \in DOMAIN old
  BY <1>1, <1>3
<1> DEFINE dep == old[k]
           new == r.dependencies[k]
<1>5. PICK x \in Reads(p) : Leads(p, x, dep)
  BY <1>4 DEF EdgesHold
<1>6. DependencyVerifies(p, dep)
  BY <1>4, VerifiedProjections
<1>7. Workable(p, dep) /\ IsEdge(dep)
  BY <1>1, <1>4 DEF Inferable
<1>8. Inferred(p, dep, new)
  BY <1>2, <1>4 DEF Done
<1>9. Refers(p, r, new)
  BY <1>3, <1>4 DEF Tracks
<1> HIDE DEF dep, new, r, n, old
<1> DEFINE bare == Cleared(dep)
           proof == Proof(p, bare)
<1>10. /\ IsEdge(new) /\ SameEnds(dep, new)
       /\ proof.form = "none" => new.finite_state = "none" /\ new.domain = NoDomain
       /\ proof.form # "none" => new.finite_state = "proven" /\ new.domain = proof.domain
  BY <1>7, <1>8, InferredFacts
<1>11. ConsumerAccess(p, bare) = {Target(p, dep)}
  <2>1. SameEnds(dep, bare)
    BY <1>7, ClearedFacts
  <2> QED BY <1>7, <2>1, SameEndsFacts DEF Workable
<1> HIDE DEF bare, proof
<1>12. proof.form # "none" => proof.domain # NoDomain
  <2> SUFFICES ASSUME proof.form # "none" PROVE proof.domain # NoDomain
    OBVIOUS
  <2>1. proof \in ProofsFor(p, bare, Target(p, dep))
    BY <1>11, ProofFrom DEF proof
  <2>2. NoDomain \notin ProjectedDomain(p, Target(p, dep))
    BY <1>7 DEF Workable
  <2> QED BY <2>1, <2>2, FormFacts
<1>13. /\ new.finite_state \in {"none", "proven"}
       /\ new.domain # NoDomain <=> new.finite_state = "proven"
  BY <1>10, <1>12
<1> QED BY <1>5, <1>6, <1>8, <1>9, <1>10, <1>13 DEF new, r

\* The verifiers accept what the inference leaves exactly when no state of a scan was used
\* for two domains.
Shared(p, edges) ==
  \E j, k \in DOMAIN edges :
    /\ IsScan(p, edges[j].producer) /\ edges[j].producer = edges[k].producer
    /\ edges[j].buffer = edges[k].buffer
    /\ NoDomain \notin {edges[j].domain, edges[k].domain} /\ edges[j].domain # edges[k].domain

LEMMA InferenceVerifies ==
  ASSUME NEW p, IsPipeline(p), NEW a, ModuleVerifies(p, a), EdgesHold(p, a.dependencies),
         NEW q, q.stages = p.stages, q.states = Infer(p, a).states,
         \A x \in Reads(p) : Single(p, x), ~Shared(p, Infer(p, a).dependencies),
         NEW k \in DOMAIN Infer(p, a).dependencies
  PROVE  DependencyVerifies(q, Infer(p, a).dependencies[k])
<1> DEFINE r == Infer(p, a)
           edges == r.dependencies
           new == edges[k]
<1>1. PICK dep, x : /\ x \in Reads(p) /\ Leads(p, x, dep) /\ DependencyVerifies(p, dep)
                    /\ Inferred(p, dep, new)
                    /\ new.domain # NoDomain <=> new.finite_state = "proven"
                    /\ Refers(p, r, new)
  BY EdgeBefore
<1>2. Tracks(p, r)
  BY EdgesInferable, InferDone DEF Done
<1>3. ASSUME new.finite_state = "proven", NEW ref \in new.states
      PROVE  Names(q.states, ref, new.domain)
  <2> DEFINE key == ScanKey(new)
             shared == <<new.producer, r.scan_states[key]>>
  <2>1. CASE Names(r.states, ref, new.domain)
    BY <2>1
  <2>2. CASE ~Names(r.states, ref, new.domain)
    <3> HIDE DEF new, r
    <3>1. IsScan(p, new.producer) /\ ref = shared /\ key \in DOMAIN r.scan_states
      BY <1>1, <1>3, <2>2 DEF Refers
    <3>2. PICK j \in DOMAIN edges : HasDomainOf(p, r.states, r.scan_states[key], key, edges[j])
      BY <1>2, <3>1 DEF Tracks
    <3> DEFINE other == edges[j]
    <3> HIDE DEF edges
    <3>3. /\ IsScan(p, other.producer) /\ ScanKey(other) = key /\ other.domain # NoDomain
          /\ Names(r.states, <<key[1], r.scan_states[key]>>, other.domain)
      BY <3>2 DEF HasDomainOf
    <3>4. other.producer = new.producer /\ other.buffer = new.buffer /\ key[1] = new.producer
      BY <3>3 DEF ScanKey
    <3>5. other.domain = new.domain
      <4>1. new.domain # NoDomain
        BY <1>1, <1>3
      <4>2. ~Shared(p, edges) /\ k \in DOMAIN edges /\ new = edges[k]
        BY DEF edges, r, new
      <4> QED BY <3>1, <3>3, <3>4, <4>1, <4>2 DEF Shared
    <3>6. Names(r.states, ref, new.domain)
      BY <3>1, <3>3, <3>4, <3>5
    <3> QED BY <2>2, <3>6
  <2> QED BY <2>1, <2>2
<1>4. StandsForOne(p) /\ Single(p, x)
  BY <1>1, VerifiedProjections
<1> HIDE DEF new
<1>5. DependencyVerifies(q, new)
  BY <1>1, <1>3, <1>4, EdgeVerifies
<1> QED BY <1>5 DEF new

LEMMA SharedRefused ==
  ASSUME NEW p, IsPipeline(p), NEW a, ModuleVerifies(p, a), EdgesHold(p, a.dependencies),
         NEW q, q.states = Infer(p, a).states,
         \A k \in DOMAIN Infer(p, a).dependencies : DependencyVerifies(q, Infer(p, a).dependencies[k])
  PROVE  ~Shared(p, Infer(p, a).dependencies)
<1> DEFINE r == Infer(p, a)
           edges == r.dependencies
<1>1. Named(r)
  BY EdgesInferable, InferDone DEF Done, Tracks
<1>2. ASSUME NEW k \in DOMAIN edges, IsScan(p, edges[k].producer), edges[k].domain # NoDomain
      PROVE  \E st \in r.states : /\ st.name = r.scan_states[ScanKey(edges[k])]
                                  /\ st.domain = edges[k].domain
  <2> DEFINE new == edges[k]
             shared == <<new.producer, r.scan_states[ScanKey(new)]>>
  <2>1. new.finite_state = "proven" /\ Refers(p, r, new)
    BY <1>2, EdgeBefore
  <2>2. DependencyVerifies(q, new)
    OBVIOUS
  <2> HIDE DEF new, r
  <2>3. shared \in new.states
    BY <1>2, <2>1 DEF Refers, new
  <2>4. ConsumerAccess(q, new) # {}
    <3>1. Cardinality(ConsumerAccess(q, new)) = 1
      BY <2>2 DEF DependencyVerifies
    <3> QED BY <3>1, FS_EmptySet
  <2>5. PICK st \in StateNamed(q, shared) : st.domain = new.domain
    BY <2>1, <2>2, <2>3, <2>4 DEF DependencyVerifies
  <2>6. st \in r.states /\ st.name = r.scan_states[ScanKey(new)]
    BY <2>5 DEF StateNamed, r
  <2> QED BY <2>5, <2>6 DEF new
<1> HIDE DEF r
<1>3. SUFFICES ASSUME NEW j \in DOMAIN edges, NEW k \in DOMAIN edges,
                      IsScan(p, edges[j].producer), edges[j].producer = edges[k].producer,
                      edges[j].buffer = edges[k].buffer,
                      edges[j].domain # NoDomain, edges[k].domain # NoDomain
               PROVE  edges[j].domain = edges[k].domain
  BY DEF Shared, r
<1>4. ScanKey(edges[j]) = ScanKey(edges[k])
  BY <1>3 DEF ScanKey
<1>5. PICK s \in r.states : s.name = r.scan_states[ScanKey(edges[j])] /\ s.domain = edges[j].domain
  BY <1>2, <1>3
<1>6. PICK t \in r.states : t.name = r.scan_states[ScanKey(edges[k])] /\ t.domain = edges[k].domain
  BY <1>2, <1>3
<1> QED BY <1>1, <1>4, <1>5, <1>6 DEF Named

\* Every read is there, and no projection of it is there twice.
Ordinary ==
  /\ Reads(source) # {}
  /\ \A x \in Reads(source) : Single(source, x)

LEMMA OrdinaryPipelines ==
  ASSUME Ordinary, NEW p, Derived(p)
  PROVE  IsPipeline(p) /\ Reads(p) # {} /\ \A x \in Reads(p) : Single(p, x)
<1>1. IsPipeline(p) /\ Reads(p) = Reads(source)
  BY SameFacts DEF Derived
<1>2. ASSUME NEW x \in Reads(source)
      PROVE  Single(p, x)
  <2>1. /\ ProjectionsOf(p, x) = ProjectionsOf(source, x)
        /\ \A k \in ProjectionsOf(p, x) :
             p.stages[x[1]].projections[k].domain = source.stages[x[1]].projections[k].domain
    BY DerivedFacts
  <2>2. Single(source, x)
    BY DEF Ordinary
  <2> QED BY <2>1, <2>2 DEF Single
<1> QED BY <1>1, <1>2 DEF Ordinary

\* The states and the edges are those that the inference leaves.
Fixed(p, a) ==
  LET r == Infer(p, a)
  IN  p.states = r.states /\ a.dependencies = r.dependencies

LEMMA FixedStays ==
  ASSUME NEW p, IsPipeline(p), NEW a, ModuleVerifies(p, a), EdgesHold(p, a.dependencies),
         NEW q, q.stages = p.stages, q.states = Infer(p, a).states,
         NEW b, b.dependencies = Infer(p, a).dependencies
  PROVE  Fixed(q, b)
BY InferAgain DEF Fixed

\* The inference leaves the windows as they are, and with them the groups.
LEMMA InferKeepsGroups ==
  ASSUME NEW p, IsPipeline(p), NEW a, ModuleVerifies(p, a), EdgesHold(p, a.dependencies),
         InGroups(a.dependencies)
  PROVE  InGroups(Infer(p, a).dependencies)
<1> DEFINE old == a.dependencies
           n == Len(old)
           edges == Infer(p, a).dependencies
<1>1. n \in Nat /\ DOMAIN old = 1 .. n /\ Inferable(p, old)
  BY ListFacts, EdgesInferable DEF EdgesHold
<1>2. Done(p, old, n, Infer(p, a))
  BY <1>1, InferDone
<1> HIDE DEF n
<1>3. DOMAIN edges = 1 .. n
  BY <1>2, ListFacts DEF Done, IsAccumulator
<1>4. ASSUME NEW k \in 1 .. n
      PROVE  edges[k].window = old[k].window
  <2>1. IsEdge(old[k]) /\ Inferred(p, old[k], edges[k])
    BY <1>1, <1>2 DEF Inferable, Done
  <2>2. SameEnds(old[k], edges[k])
    BY <2>1, InferredFacts
  <2> QED BY <2>2 DEF SameEnds
<1> HIDE DEF edges
<1>5. \A i, j \in 1 .. n : i < j /\ isBounded(edges[j]) => isBounded(edges[i])
  BY <1>1, <1>4 DEF InGroups, isBounded, isUnbounded
<1> QED BY <1>3, <1>5 DEF InGroups, edges

\* A descriptor names stages and states that exist.
LEMMA CandidateVerifies ==
  ASSUME NEW p, IsPipeline(p), Reads(p) # {}, NEW a, ModuleVerifies(p, a),
         EdgesHold(p, a.dependencies), Fixed(p, a)
  PROVE  FusionVerifies(p, Candidate(p, a))
<1> DEFINE edges == a.dependencies
           unbounded == {dep \in ToSet(edges) : dep.memory = "raw" /\ ~dep.window}
           c == Candidate(p, a)
<1>1. /\ c.states = RegexRefs(p) \cup UNION {dep.states : dep \in unbounded}
      /\ {dep.consumer : dep \in ToSet(edges)} \subseteq c.stages
  BY DEF Candidate
<1>2. ToSet(edges) = {edges[k] : k \in DOMAIN edges}
  BY DEF ToSet
<1>3. c.stages # {}
  <2>1. PICK k : k \in DOMAIN edges
    BY DEF EdgesHold
  <2>2. edges[k].consumer \in {dep.consumer : dep \in ToSet(edges)}
    BY <1>2, <2>1
  <2> HIDE DEF c, edges
  <2> QED BY <1>1, <2>2
<1>4. ASSUME NEW ref \in RegexRefs(p)
      PROVE  StateNamed(p, ref) # {}
  <2>1. PICK st \in p.states : ref = <<st.stage, st.name>>
    BY DEF RegexRefs
  <2>2. st \in StateNamed(p, ref)
    BY <2>1 DEF StateNamed
  <2> QED BY <2>2
<1>5. ASSUME NEW dep \in ToSet(edges), NEW ref \in dep.states
      PROVE  StateNamed(p, ref) # {}
  <2>1. PICK k \in DOMAIN edges : dep = edges[k]
    BY <1>2
  <2>2. DependencyVerifies(p, dep)
    BY <2>1, VerifiedProjections
  <2>3. dep.finite_state \in {"none", "proven"}
    <3>1. k \in DOMAIN Infer(p, a).dependencies /\ dep = Infer(p, a).dependencies[k]
      BY <2>1 DEF Fixed
    <3> QED BY <3>1, EdgeBefore
  <2> HIDE DEF edges
  <2>4. ConsumerAccess(p, dep) # {}
    <3>1. Cardinality(ConsumerAccess(p, dep)) = 1
      BY <2>2 DEF DependencyVerifies
    <3> QED BY <3>1, FS_EmptySet
  <2>5. \E st \in StateNamed(p, ref) : st.domain = dep.domain
    BY <2>2, <2>3, <2>4 DEF DependencyVerifies
  <2> QED BY <2>5
<1> HIDE DEF edges, c
<1>6. \A ref \in c.states : StateNamed(p, ref) # {}
  BY <1>1, <1>4, <1>5
<1> QED BY <1>3, <1>6 DEF FusionVerifies, c

\* Where the passes stand in the order of the runner.
Orderly ==
  /\ outcome \in {"ok", "failed", "invalid"}
  /\ outcome = "ok" =>
       /\ analysis.grouped => InGroups(analysis.dependencies)
       /\ ~proved => \A k \in DOMAIN analysis.dependencies : analysis.dependencies[k].domain = NoDomain
       /\ in_order /\ ~proved => analysis.fusion = <<>>
       /\ in_order /\ proved => Fixed(pipeline, analysis) /\ analysis.exists /\ analysis.grouped
  /\ outcome = "invalid" /\ in_order => Shared(pipeline, analysis.dependencies)

LEMMA OrderlyInit ==
  ASSUME Init PROVE Orderly
<1>1. /\ analysis = NoAnalysis /\ proved = FALSE /\ outcome = "ok"
  BY DEF Init
<1>2. NoAnalysis.grouped = FALSE /\ NoAnalysis.dependencies = <<>> /\ NoAnalysis.fusion = <<>>
  BY DEF NoAnalysis
<1> QED BY <1>1, <1>2 DEF Orderly

LEMMA OrderlyAnalysis ==
  ASSUME CompilerInv, Orderly, BitstreamDependenceAnalysis PROVE Orderly'
<1> DEFINE q == assignAccessIds(pipeline)
           a == RawDependencies(q)
<1>1. /\ outcome = "ok" /\ proved' = FALSE
      /\ \/ outcome' = "failed"
         \/ analysis' = a /\ outcome' = (IF ModuleVerifies(q, a) THEN "ok" ELSE "invalid")
  BY DEF BitstreamDependenceAnalysis, Ends
<1>2. IsPipeline(pipeline) /\ ModuleVerifies(pipeline, analysis)
  BY <1>1 DEF CompilerInv, Good, Derived
<1>3. ModuleVerifies(q, a)
  BY <1>2, AnalysisVerifies
<1>4. a.grouped = FALSE /\ a.fusion = <<>>
  BY DEF RawDependencies
<1>5. \A k \in DOMAIN a.dependencies : a.dependencies[k].domain = NoDomain
  <2> TAKE k \in DOMAIN a.dependencies
  <2>1. IsPipeline(q)
    BY <1>2, RepairFacts
  <2>2. \E x : a.dependencies[k] = Edge(q, x)
    BY <2>1, RawEdges
  <2> HIDE DEF a
  <2> QED BY <2>2 DEF Edge
<1> HIDE DEF q, a
<1> QED BY <1>1, <1>3, <1>4, <1>5 DEF Orderly

LEMMA OrderlyClassification ==
  ASSUME CompilerInv, Orderly, BitstreamDependencyClassification PROVE Orderly'
<1> DEFINE a == groupClassifiedDependencies(analysis)
           edges == analysis.dependencies
<1>1. /\ outcome = "ok" /\ in_order' = in_order /\ proved' = proved
      /\ pipeline' = pipeline /\ analysis' = a /\ analysis.exists
      /\ outcome' = (IF ModuleVerifies(pipeline, a) THEN "ok" ELSE "invalid")
  BY DEF BitstreamDependencyClassification, Ends
<1>2. /\ IsPipeline(pipeline) /\ ModuleVerifies(pipeline, analysis) /\ EdgesHold(pipeline, edges)
      /\ IsList(edges) /\ {"exists", "dependencies", "grouped", "fusion"} \subseteq DOMAIN analysis
  BY <1>1 DEF CompilerInv, Good, Derived, EdgesHold
<1>3. /\ a.exists = analysis.exists /\ a.fusion = analysis.fusion /\ a.grouped = TRUE
      /\ a.dependencies = Grouped(edges)
  <2>1. a = [analysis EXCEPT !.grouped = TRUE, !.dependencies = Grouped(edges)]
    BY DEF groupClassifiedDependencies
  <2> HIDE DEF a
  <2> QED BY <1>2, <2>1
<1> HIDE DEF a
<1>4. /\ DOMAIN a.dependencies = DOMAIN edges /\ InGroups(a.dependencies)
      /\ \A k \in DOMAIN a.dependencies : \E j \in DOMAIN edges : a.dependencies[k] = edges[j]
  BY <1>2, <1>3, GroupedFacts, GroupsInOrder
<1>5. ModuleVerifies(pipeline, a)
  <2>1. analysis.fusion # <<>> => FusionVerifies(pipeline, analysis.fusion[1])
    BY <1>2, ModuleParts
  <2> QED BY <1>2, <1>3, <1>4, <2>1, ModulesAlike
<1>6. ~proved => \A k \in DOMAIN a.dependencies : a.dependencies[k].domain = NoDomain
  BY <1>1, <1>4 DEF Orderly
<1>7. ASSUME in_order, proved
      PROVE  Fixed(pipeline, a)
  <2>1. Fixed(pipeline, analysis) /\ InGroups(edges)
    BY <1>1, <1>7 DEF Orderly
  <2>2. a.dependencies = edges
    BY <1>2, <1>3, <2>1, GroupedAlready
  <2>3. pipeline.states = Infer(pipeline, analysis).states /\ edges = Infer(pipeline, analysis).dependencies
    BY <2>1 DEF Fixed
  <2> QED BY <1>2, <2>2, <2>3, FixedStays
<1>8. /\ outcome' = "ok" /\ a.grouped /\ a.exists
      /\ in_order /\ ~proved => a.fusion = <<>>
  BY <1>1, <1>3, <1>5 DEF Orderly
<1> QED BY <1>1, <1>4, <1>6, <1>7, <1>8 DEF Orderly

LEMMA OrderlyInference ==
  ASSUME CompilerInv, Ordinary, Orderly, BitstreamFiniteStateInference PROVE Orderly'
<1> DEFINE r == Infer(pipeline, analysis)
           q == [pipeline EXCEPT !.states = r.states, !.notes = r.notes]
           a == [analysis EXCEPT !.dependencies = r.dependencies]
<1>1. /\ outcome = "ok" /\ in_order' = in_order /\ proved' = TRUE
      /\ pipeline' = q /\ analysis' = a /\ analysis.exists /\ (in_order => analysis.grouped)
      /\ outcome' = (IF ModuleVerifies(q, a) THEN "ok" ELSE "invalid")
  BY DEF BitstreamFiniteStateInference, Ends
<1>2. /\ Derived(pipeline) /\ ModuleVerifies(pipeline, analysis)
      /\ EdgesHold(pipeline, analysis.dependencies)
      /\ {"exists", "dependencies", "grouped", "fusion"} \subseteq DOMAIN analysis
  BY <1>1 DEF CompilerInv, Good
<1>3. IsPipeline(pipeline) /\ \A x \in Reads(pipeline) : Single(pipeline, x)
  BY <1>2, OrdinaryPipelines
<1> HIDE DEF r
<1>4. /\ a.exists = analysis.exists /\ a.fusion = analysis.fusion /\ a.grouped = analysis.grouped
      /\ a.dependencies = r.dependencies
      /\ q.stages = pipeline.stages /\ q.states = r.states
  BY <1>2, <1>3 DEF IsPipeline
<1> HIDE DEF q, a
<1>5. Fixed(q, a)
  BY <1>2, <1>3, <1>4, FixedStays DEF r
<1>6. a.grouped => InGroups(a.dependencies)
  BY <1>1, <1>2, <1>3, <1>4, InferKeepsGroups DEF Orderly, r
<1>7. ASSUME in_order, ~Shared(q, a.dependencies)
      PROVE  ModuleVerifies(q, a)
  <2>1. CASE proved
    <3>1. pipeline.states = r.states /\ analysis.dependencies = r.dependencies
      BY <1>1, <1>7, <2>1 DEF Orderly, Fixed, r
    <3>2. analysis.fusion # <<>> => FusionVerifies(pipeline, analysis.fusion[1])
      BY <1>2, ModuleParts
    <3> QED BY <1>2, <1>4, <3>1, <3>2, ModulesAlike
  <2>2. CASE ~proved
    <3>1. a.fusion = <<>>
      BY <1>1, <1>4, <1>7, <2>2 DEF Orderly
    <3>2. ~Shared(pipeline, r.dependencies)
      BY <1>4, <1>7 DEF Shared, IsScan, Stages
    <3>3. \A k \in DOMAIN a.dependencies : DependencyVerifies(q, a.dependencies[k])
      BY <1>2, <1>3, <1>4, <3>2, InferenceVerifies DEF r
    <3>4. BodyVerifies(q)
      BY <1>2, <1>4, ModuleParts, BodiesAlike
    <3> QED BY <3>1, <3>3, <3>4, ModuleParts
  <2> QED BY <2>1, <2>2
<1>8. outcome' = "invalid" /\ in_order => Shared(q, a.dependencies)
  BY <1>1, <1>7
<1> QED BY <1>1, <1>4, <1>5, <1>6, <1>8 DEF Orderly

LEMMA OrderlyFusion ==
  ASSUME CompilerInv, Ordinary, Orderly, BitstreamSpeculativeFusion PROVE Orderly'
<1> DEFINE c == Candidate(pipeline, analysis)
           a == [analysis EXCEPT !.fusion = <<c>>]
<1>1. /\ outcome = "ok" /\ in_order' = in_order /\ proved' = proved
      /\ pipeline' = pipeline /\ analysis' = a /\ analysis.exists /\ (in_order => proved)
      /\ outcome' = (IF ModuleVerifies(pipeline, a) THEN "ok" ELSE "invalid")
  BY DEF BitstreamSpeculativeFusion, Ends
<1>2. /\ Derived(pipeline) /\ ModuleVerifies(pipeline, analysis)
      /\ EdgesHold(pipeline, analysis.dependencies)
      /\ {"exists", "dependencies", "grouped", "fusion"} \subseteq DOMAIN analysis
  BY <1>1 DEF CompilerInv, Good
<1>3. IsPipeline(pipeline) /\ Reads(pipeline) # {}
  BY <1>2, OrdinaryPipelines
<1> HIDE DEF c
<1>4. /\ a.exists = analysis.exists /\ a.fusion = <<c>> /\ a.grouped = analysis.grouped
      /\ a.dependencies = analysis.dependencies
  BY <1>2
<1> HIDE DEF a
<1>5. ASSUME in_order
      PROVE  Fixed(pipeline, a) /\ ModuleVerifies(pipeline, a)
  <2>1. Fixed(pipeline, analysis)
    BY <1>1, <1>5 DEF Orderly
  <2>2. Fixed(pipeline, a)
    BY <1>2, <1>3, <1>4, <2>1, FixedStays DEF Fixed
  <2>3. FusionVerifies(pipeline, c)
    BY <1>2, <1>3, <2>1, CandidateVerifies DEF c
  <2>4. a.fusion[1] = c
    BY <1>4
  <2> QED BY <1>2, <1>4, <2>2, <2>3, <2>4, ModulesAlike
<1>6. outcome' \in {"ok", "failed", "invalid"} /\ (in_order => outcome' = "ok")
  BY <1>1, <1>5
<1> QED BY <1>1, <1>4, <1>5, <1>6 DEF Orderly

LEMMA OrderlyNext ==
  ASSUME CompilerInv, Ordinary, Orderly, [Next]_vars PROVE Orderly'
<1>1. CASE UNCHANGED vars
  BY <1>1 DEF vars, Orderly
<1>2. CASE Next
  BY <1>2, OrderlyAnalysis, OrderlyClassification, OrderlyInference, OrderlyFusion DEF Next
<1> QED BY <1>1, <1>2

\* In the order of the runner the verifiers accept what the passes leave, unless a state of
\* a scan was used for two domains, if the source has reads and no projection twice.
THEOREM RefusalsAreRight == Spec => [](Ordinary => RefusalsAreKnown)
<1>1. Init => (Ordinary => Orderly)
  BY OrderlyInit
<1>2. CompilerInv /\ (Ordinary => Orderly) /\ [Next]_vars => (Ordinary => Orderly)'
  <2>1. [Next]_vars => source' = source
    BY DEF Next, vars, BitstreamDependenceAnalysis, BitstreamDependencyClassification,
           BitstreamFiniteStateInference, BitstreamSpeculativeFusion, Ends
  <2>2. source' = source => (Ordinary' <=> Ordinary)
    BY DEF Ordinary
  <2> QED BY <2>1, <2>2, OrderlyNext
<1>3. CompilerInv /\ (Ordinary => Orderly) => (Ordinary => RefusalsAreKnown)
  <2> SUFFICES ASSUME CompilerInv, Orderly, in_order, outcome = "ok"
               PROVE  /\ ~ScanStateIsShared(analysis.dependencies)
                      /\ \A s \in Stages(pipeline) :
                           /\ ~StatesInitialOnly(pipeline.stages[s])
                           /\ \A r \in DOMAIN pipeline.stages[s].recurrences :
                                ~StatesInitialOnly(pipeline.stages[s].recurrences[r])
    BY DEF RefusalsAreKnown, Orderly, Shared, ScanStateIsShared
  <2>1. ModuleVerifies(pipeline, analysis) /\ IsPipeline(pipeline) /\ Good(pipeline, analysis, proved)
    BY DEF CompilerInv, Good, Derived
  <2>2. \A op : MetadataVerifies(op) => ~StatesInitialOnly(op)
    BY DEF MetadataVerifies, StatesInitialOnly, NoDomain
  <2>3. ~Shared(pipeline, analysis.dependencies)
    <3>1. CASE ~proved
      BY <3>1 DEF Orderly, Shared
    <3>2. CASE proved
      <4>1. Fixed(pipeline, analysis) /\ EdgesHold(pipeline, analysis.dependencies)
        BY <2>1, <3>2 DEF Orderly, Good
      <4>2. \A k \in DOMAIN analysis.dependencies : DependencyVerifies(pipeline, analysis.dependencies[k])
        BY <2>1, VerifiedProjections
      <4> QED BY <2>1, <4>1, <4>2, SharedRefused DEF Fixed
    <3> QED BY <3>1, <3>2
  <2> QED BY <2>1, <2>2, <2>3 DEF ModuleVerifies, Shared, ScanStateIsShared
<1> QED BY <1>1, <1>2, <1>3, CompilerIsInvariant, PTL DEF Spec

=============================================================================
