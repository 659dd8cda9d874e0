---------------------------- MODULE AccessRecovery ----------------------------
(***************************************************************************)
(* bitstream-recover-access-graph (mlir/bitstream/lib/Dialect/Bitstream/   *)
(* Transforms/RecoverSemantics.cpp): the kernels that a driver launches,   *)
(* in order, become a pipeline of bitstream kernels and scans.             *)
(*                                                                         *)
(* A stage is collected as [kind, advance, recurrences, actions]: the      *)
(* carried states found in its loops, and its reads, writes and state      *)
(* projections in the order of the source.  What is optional is a set with *)
(* no or one element.  Indices that are affine maps, aliases of memrefs,   *)
(* the streams of BitGen and the choice of the driver are left out.        *)
(***************************************************************************)
EXTENDS LoopCoordinates, BitstreamIR

-----------------------------------------------------------------------------
(* Carried states *)

\* The lanes of a loop whose update combines the carried value.
LaneMatches(k, l) ==
  LET loop == k.loops[l]
      Lane(a) ==
        LET b == loop.passes[a]
            carried == Carried(l, a, loop.initial[b].width)
        IN  {[initial |-> loop.initial[b], match |-> m,
              roots |-> {carried, loop.update[b], LoopResult(l, a, carried.width)}] :
               m \in matchStateCombiner(loop.update[b], carried)}
  IN  UNION {Lane(a) : a \in {x \in DOMAIN loop.passes : loop.passes[x] # 0}}

\* Neither per thread nor without memory: the serial prefix that the whole stage stands for.
IsGlobalSerialPrefix(k, ctx, l, lanes) ==
  /\ ~recurrenceLoopDependsOnCudaScheduling(k, ctx, l)
  /\ \E lane \in lanes : valueContainsMemoryRead(lane.match.input)

\* addRecoveredRecurrence
RecoveredRecurrence(k, ctx, l, lane) ==
  LET initial == integerConstant(lane.initial)
      direct  == finiteValueDomain(k, lane.match.input)
  IN  [loop |-> l, combiner |-> "xor", input |-> {lane.match.input}, roots |-> lane.roots,
       initial |-> initial, direct |-> direct,
       domain |-> IF lane.match.domain # {} THEN lane.match.domain
                  ELSE {d \in {2} : direct = {2} /\ initial \cap {0, 1} # {}},
       global |-> IsGlobalSerialPrefix(k, ctx, l, {lane})]

\* Mutant: the first of several lanes stands for the tuple.
TupleRecurrence_First(k, ctx, l, lanes) ==
  [RecoveredRecurrence(k, ctx, l, CHOOSE lane \in lanes : TRUE) EXCEPT
     !.roots = UNION {lane.roots : lane \in lanes}]

\* addDomainlessTupleRecurrence: several lanes of one loop, of which nothing is claimed.
TupleRecurrence(k, ctx, l, lanes) ==
  [loop |-> l, combiner |-> "tuple", input |-> {}, roots |-> UNION {lane.roots : lane \in lanes},
   initial |-> {}, direct |-> {}, domain |-> {}, global |-> IsGlobalSerialPrefix(k, ctx, l, lanes)]

\* discoverStructuredRecurrences
Recurrences(k, ctx) ==
  FlattenSeq([l \in DOMAIN k.loops |->
    LET lanes == LaneMatches(k, l)
    IN  IF k.loops[l].kind = "parallel" \/ lanes = {} THEN <<>>
        ELSE IF Cardinality(lanes) = 1
        THEN <<RecoveredRecurrence(k, ctx, l, CHOOSE lane \in lanes : TRUE)>>
        ELSE <<TupleRecurrence(k, ctx, l, lanes)>>])

-----------------------------------------------------------------------------
(* Accesses *)

\* attachRecurrenceFacts: the local recurrences around an access, outermost first, those whose
\* input a load feeds, and those whose state a store holds.
RecurrencePath(k, recurrences, access) ==
  SetToSortSeq({r \in DOMAIN recurrences : ~recurrences[r].global
                                           /\ operationIsWithin(k, access, recurrences[r].loop)},
               LAMBDA a, b : operationNestingDepth(k, recurrences[a].loop)
                               < operationNestingDepth(k, recurrences[b].loop))

RecurrenceInputs(k, recurrences, i) ==
  {r \in DOMAIN recurrences : k.body[i].op = "load"
     /\ \E u \in recurrences[r].input : valueTransitivelyDependsOn(u, Loaded(k.body, i))}

DerivedFromRecurrences(recurrences, access) ==
  {r \in DOMAIN recurrences : access.op = "store"
     /\ \E root \in recurrences[r].roots : sameValueThroughIntegerCasts(access.value, root)}

\* The record of an access, or of the projection of a load.
AccessAction(k, ctx, recurrences, kind, i) ==
  LET access  == k.body[i]
      derived == DerivedFromRecurrences(recurrences, access)
  IN  [kind |-> kind, buffer |-> access.buffer, width |-> access.width, source |-> i,
       name |-> IndexName(k, ctx, access.index), index |-> IndexExpression(k, ctx, access.index),
       unbounded |-> isDataDependentBackwardWalkIndex(k, access.index) /\ access.op = "load",
       path |-> RecurrencePath(k, recurrences, access),
       inputs |-> RecurrenceInputs(k, recurrences, i), derived |-> derived,
       value_domain |-> IF access.op = "store" THEN finiteValueDomain(k, access.value) ELSE {},
       tail |-> \E r \in derived : recurrences[r].global /\ ~operationIsWithin(k, access, recurrences[r].loop),
       domain |-> IF kind = "state_projection" THEN 2 ELSE NoDomain]

\* By this key an access counts as seen. Neither the value nor the use of it is part of it.
AccessKey(action) ==
  <<action.kind, action.buffer, action.name, action.width, action.path, action.inputs, action.derived>>
ProjectionKey(action) == <<action.kind, action.buffer, action.name, action.path>>

ActionKey(action) == IF action.kind = "state_projection" THEN ProjectionKey(action) ELSE AccessKey(action)

IsSeen(actions, action) == \E a \in ToSet(actions) : ActionKey(a) = ActionKey(action)

\* addGenericAccess, addGenericStateProjection
Add(actions, action) == IF IsSeen(actions, action) THEN actions ELSE Append(actions, action)

\* collectGenericAccesses, before boundary writes are marked
Collected(k, ctx, recurrences) ==
  LET Visit(actions, i) ==
        LET Action(kind) == AccessAction(k, ctx, recurrences, kind, i)
        IN  IF k.body[i].op = "store" THEN Add(actions, Action("write"))
            ELSE IF loadHasOnlyFiniteStateProjection(k, Loaded(k.body, i))
            THEN Add(Add(actions, Action("read")), Action("state_projection"))
            ELSE Add(actions, Action("read"))
  IN  FoldLeft(Visit, <<>>, SetToSortSeq(Alive(k), <))

\* An access is nested in a loop other than the one the stage is made of.
NestedInOtherLoop(k, access) ==
  LoopsAround(k, access.loop) \ (IF k.root = "loop" THEN {Len(k.loops)} ELSE {}) # {}

\* markLoopBoundaryWrites: a write after a loop, of something derived from its result, to a
\* buffer that the loop writes.
IsLoopBoundaryWrite(k, actions, n) ==
  /\ actions[n].kind = "write"
  /\ ~NestedInOtherLoop(k, k.body[actions[n].source])
  /\ \E l \in DOMAIN k.loops :
       /\ k.loops[l].kind # "parallel"
       /\ ~operationIsWithin(k, k.body[actions[n].source], l)
       /\ \E a \in DOMAIN k.loops[l].passes :
            k.loops[l].passes[a] # 0 /\
            valueTransitivelyDependsOn(k.body[actions[n].source].value,
                                       LoopResult(l, a, k.loops[l].initial[k.loops[l].passes[a]].width))
       /\ \E m \in DOMAIN actions \ {n} :
            /\ actions[m].kind = "write" /\ actions[m].buffer = actions[n].buffer
            /\ actions[m].width = actions[n].width
            /\ operationIsWithin(k, k.body[actions[m].source], l)

\* raiseScanCall: a scan that is a library call.
LogicalAction(kind, buffer) ==
  [kind |-> kind, buffer |-> buffer, width |-> kWordWidth, source |-> 0, name |-> Leaf("logical"),
   index |-> Leaf("logical"), unbounded |-> FALSE, path |-> <<>>, inputs |-> {}, derived |-> {},
   value_domain |-> {}, tail |-> FALSE, domain |-> NoDomain]

RaisedScanCall(k) ==
  [kind |-> "scan", advance |-> 0, recurrences |-> <<>>,
   actions |-> <<LogicalAction("read", k.body[1].buffer), LogicalAction("write", k.body[2].buffer)>>]

\* raiseGenericDriver, raiseKernelCall: one stage for what the driver does.
RaisedStage(k) ==
  LET ctx == Context(k)
      recurrences == Recurrences(k, ctx)
      actions == Collected(k, ctx, recurrences)
  IN  IF k.root = "scan_call" THEN RaisedScanCall(k)
      ELSE [kind |-> "kernel", advance |-> k.advance, recurrences |-> recurrences,
            actions |-> [n \in DOMAIN actions |->
              [actions[n] EXCEPT !.tail = @ \/ IsLoopBoundaryWrite(k, actions, n)]]]

-----------------------------------------------------------------------------
(* propagateRecurrenceDomains: what the stages before say of a buffer, as pairs with the domain *)

InferredDomain(stage, r, buffer_domains) ==
  LET recurrence == stage.recurrences[r]
      inputs == {a.buffer : a \in {b \in ToSet(stage.actions) : r \in b.inputs}}
  IN  IF recurrence.domain # {} THEN recurrence.domain
      ELSE {d \in {2} : /\ recurrence.combiner = "xor" /\ recurrence.initial \cap {0, 1} # {}
                        /\ recurrence.direct # {} \/ inputs # {}
                        /\ recurrence.direct \subseteq {2}
                        /\ \A b \in inputs : <<b, 2>> \in buffer_domains}

\* The state of the last recurrence that has a domain is what a write is known by.
DerivedDomain(action, recurrences) ==
  LET known == {r \in action.derived : recurrences[r].domain # {}}
  IN  IF action.kind = "write" /\ known # {} THEN recurrences[Max(known)].domain ELSE action.value_domain

WrittenDomains(actions, buffer) ==
  {a.value_domain : a \in {b \in ToSet(actions) : b.kind = "write" /\ b.buffer = buffer}}

\* What is known of the buffers after a stage.
BufferDomains(actions, buffer_domains) ==
  LET written == {a.buffer : a \in {x \in ToSet(actions) : x.kind = "write"}}
      known   == {b \in written :
                    Cardinality(WrittenDomains(actions, b)) = 1 /\ {} \notin WrittenDomains(actions, b)}
  IN  {p \in buffer_domains : p[1] \notin written}
      \cup {<<b, CHOOSE d \in UNION WrittenDomains(actions, b) : TRUE>> : b \in known}

WithDomains(stage, buffer_domains) ==
  LET recurrences == [r \in DOMAIN stage.recurrences |->
                        [stage.recurrences[r] EXCEPT !.domain = InferredDomain(stage, r, buffer_domains)]]
  IN  [stage EXCEPT
         !.kind = IF \E r \in DOMAIN recurrences : recurrences[r].global THEN "scan" ELSE @,
         !.recurrences = recurrences,
         !.actions = [n \in DOMAIN @ |-> [@[n] EXCEPT !.value_domain = DerivedDomain(stage.actions[n], recurrences)]]]

propagateRecurrenceDomains(stages) ==
  FoldLeft(LAMBDA acc, stage :
             LET done == WithDomains(stage, acc.domains)
             IN  [stages |-> Append(acc.stages, done), domains |-> BufferDomains(done.actions, acc.domains)],
           [stages |-> <<>>, domains |-> {}], stages).stages

-----------------------------------------------------------------------------
(* pruneStageLocalSyntheticBuffers *)

isSyntheticBufferName(buffer) == buffer \in {"buf0", "buf1"}
isMemoryAccessAction(action)  == action.kind \in {"read", "write"}

StagesAccessing(stages, buffer) ==
  {s \in DOMAIN stages : \E a \in ToSet(stages[s].actions) : isMemoryAccessAction(a) /\ a.buffer = buffer}

\* What a stage keeps to itself in a buffer of its own is dropped. Projections of it stay.
pruneStageLocalSyntheticBuffers(stages) ==
  LET Stays(a) == ~isMemoryAccessAction(a) \/ ~isSyntheticBufferName(a.buffer)
                    \/ Cardinality(StagesAccessing(stages, a.buffer)) > 1
  IN  [s \in DOMAIN stages |-> [stages[s] EXCEPT !.actions = SelectSeq(@, Stays)]]

-----------------------------------------------------------------------------
(* materializeRecoveredPipeline *)

\* materializeActionRange: where the run of actions begins that shares the first d recurrences of
\* the path with action n. A run is one region.
RunStart(actions, n, d) ==
  Min({m \in 1 .. n : \A x \in m .. n : /\ Len(actions[x].path) >= d
                                        /\ SubSeq(actions[x].path, 1, d) = SubSeq(actions[n].path, 1, d)})

Regions(actions) ==
  SetToSortSeq(UNION {{<<RunStart(actions, n, d), d>> : d \in 1 .. Len(actions[n].path)} : n \in DOMAIN actions},
               LAMBDA a, b : a[1] < b[1] \/ (a[1] = b[1] /\ a[2] < b[2]))

\* The number of the region an action is in, 0 for none.
RegionOf(actions, n) ==
  LET depth == Len(actions[n].path)
  IN  IF depth = 0 THEN 0
      ELSE CHOOSE r \in DOMAIN Regions(actions) : Regions(actions)[r] = <<RunStart(actions, n, depth), depth>>

\* A walk and the projection that follows it share the scf.while made for them.
IsPaired(actions, n) ==
  /\ n > 1 /\ actions[n].kind = "state_projection" /\ actions[n].unbounded
  /\ actions[n - 1].kind = "read" /\ actions[n - 1].unbounded
  /\ actions[n - 1].path = actions[n].path
  /\ actions[n - 1].buffer = actions[n].buffer /\ actions[n - 1].name = actions[n].name

\* The region, the loop made for it and the expression: what sameMaterializedIndex compares.
MaterializedIndex(actions, n) ==
  [region |-> RegionOf(actions, n),
   walk |-> IF IsPaired(actions, n) THEN n - 1 ELSE IF actions[n].unbounded THEN n ELSE 0,
   expression |-> actions[n].index]

Optional(set) == IF set = {} THEN NoDomain ELSE CHOOSE d \in set : TRUE

AccessNumber(actions, n) == Cardinality({m \in 1 .. n - 1 : isMemoryAccessAction(actions[m])})

\* createRead, createWrite
MaterializedAccess(actions, n) ==
  LET action == actions[n]
  IN  [op |-> action.kind, buffer |-> action.buffer, id |-> AccessNumber(actions, n),
       index |-> MaterializedIndex(actions, n),
       affine |-> canonicalizeIndex(action.index).valid, in_while |-> action.unbounded,
       recurrence |-> IF Mentions(action.index, "logical") THEN RegionOf(actions, n) ELSE 0,
       tail_boundary_write |-> action.tail,
       value_domain |-> IF action.kind = "write" THEN Optional(action.value_domain) ELSE NoDomain]

\* assignAccessIds: a projection belongs to the last read of the same index before it in its block.
ReadBefore(actions, n) ==
  LET reads == {m \in 1 .. n - 1 : /\ actions[m].kind = "read" /\ actions[m].buffer = actions[n].buffer
                                   /\ MaterializedIndex(actions, m) = MaterializedIndex(actions, n)}
  IN  IF reads = {} THEN Missing ELSE AccessNumber(actions, Max(reads))

MaterializedProjection(actions, n) ==
  [buffer |-> actions[n].buffer, index |-> MaterializedIndex(actions, n),
   read_access |-> ReadBefore(actions, n), domain |-> actions[n].domain]

Ordered(set) == SetToSortSeq(set, <)

\* createStageShell, createRecurrenceShell
MaterializedStage(stage, first_id) ==
  LET actions   == stage.actions
      accesses  == Ordered({n \in DOMAIN actions : isMemoryAccessAction(actions[n])})
      projected == Ordered({n \in DOMAIN actions : /\ actions[n].kind = "state_projection"
                                                   /\ ~actions[n].unbounded \/ IsPaired(actions, n)})
      global    == {r \in DOMAIN stage.recurrences : stage.recurrences[r].global}
      carried   == IF Cardinality(global) = 1 THEN stage.recurrences[CHOOSE r \in global : TRUE]
                   ELSE [domain |-> {}, initial |-> {}]
      Shell(r)  == [state_domain |-> Optional(r.domain), initial_state |-> r.initial]
      Numbered(id) == IF id = Missing THEN id ELSE first_id + id
  IN  [kind |-> stage.kind, state_domain |-> Optional(carried.domain), initial_state |-> carried.initial,
       recurrences |-> [r \in DOMAIN Regions(actions) |->
         LET region == Regions(actions)[r]
         IN  Shell(stage.recurrences[actions[region[1]].path[region[2]]])],
       advance |-> stage.advance,
       accesses |-> [n \in DOMAIN accesses |->
         [MaterializedAccess(actions, accesses[n]) EXCEPT !.id = Numbered(@)]],
       projections |-> [n \in DOMAIN projected |->
         [MaterializedProjection(actions, projected[n]) EXCEPT !.read_access = Numbered(@)]]]

NoPipeline == [stages |-> <<>>, states |-> {}, notes |-> <<>>]

materializeRecoveredPipeline(stages) ==
  LET emitted == FoldLeft(LAMBDA acc, stage :
                   LET done == MaterializedStage(stage, acc.next)
                   IN  [stages |-> Append(acc.stages, done), next |-> acc.next + Len(done.accesses)],
                   [stages |-> <<>>, next |-> 0], stages).stages
      bare == [NoPipeline EXCEPT !.stages = emitted]
  IN  [bare EXCEPT !.notes = [x \in Reads(bare) |-> NoNote]]

\* recoverFromGenericMlir: stages without any action are dropped.
recoverFromGenericMlir(kernels) ==
  LET raised == SelectSeq([s \in DOMAIN kernels |-> RaisedStage(kernels[s])],
                          LAMBDA stage : stage.actions # <<>>)
  IN  materializeRecoveredPipeline(pruneStageLocalSyntheticBuffers(propagateRecurrenceDomains(raised)))

=============================================================================
