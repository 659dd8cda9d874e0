--------------------------- MODULE LoopCoordinates ---------------------------
(***************************************************************************)
(* Which values of a kernel are the coordinate of the item it works on,    *)
(* and what becomes of the index of an access                              *)
(* (mlir/bitstream/lib/Dialect/Bitstream/Transforms/RecoverSemantics.cpp): *)
(* the scheduling loop of a kernel, the lanes of an scf.while that count   *)
(* up from a coordinate, walks backward from it, and what is spread over   *)
(* blocks and threads.                                                     *)
(*                                                                         *)
(* The leaves "global_thread" and "grid_stride" are the expressions        *)
(* blockIdx * blockDim + threadIdx and blockDim * gridDim.                 *)
(***************************************************************************)
EXTENDS KernelSsa

\* A lane that counts items, before and after the condition of its loop.
WhileCoordinate(loop, before, after) == [loop |-> loop, before |-> before, after |-> after]

-----------------------------------------------------------------------------
(* The scheduling loop *)

isProvenCudaGridStrideLoop(loop) ==
  /\ stripIndexAndIntegerCasts(loop.lower).op = "global_thread"
  /\ stripIndexAndIntegerCasts(loop.step).op = "grid_stride"

isPrimaryCoordinateLoop(loop) ==
  \/ loop.kind \in {"for", "parallel"} /\ 1 \in strippedConstant(loop.step)
  \/ loop.kind = "for" /\ isProvenCudaGridStrideLoop(loop)

\* The loop that selectPrimaryCoordinateLoop or selectUniqueTopLevelCoordinateLoop chooses, or 0.
LogicalLoop(k) ==
  LET top == {l \in DOMAIN k.loops : k.loops[l].outer = 0 /\ isPrimaryCoordinateLoop(k.loops[l])}
  IN  IF k.root \in {"call", "loop"} /\ Cardinality(top) = 1 THEN Max(top) ELSE 0

-----------------------------------------------------------------------------
(* Updates by one *)

sameValueOrIndexCast(v, expected) ==
  v = expected \/ (v.op = "index_cast" /\ stripIndexAndIntegerCasts(v) = expected)

\* v adds the constant to something; `carried' is empty or what it must add to.
AddsConstant(v, constant, carried) ==
  /\ v.op = "addi"
  /\ \E i \in 1 .. 2 :
       /\ constant \in strippedConstant(v.args[i])
       /\ \A c \in carried : sameValueOrIndexCast(v.args[3 - i], stripIndexAndIntegerCasts(c))

isMinusOneUpdate(value, carried) ==
  LET v == stripIndexAndIntegerCasts(value)
  IN  \/ AddsConstant(v, -1, carried)
      \/ /\ v.op = "subi" /\ 1 \in strippedConstant(v.args[2])
         /\ \A c \in carried : sameValueOrIndexCast(v.args[1], stripIndexAndIntegerCasts(c))

isPlusOneUpdate(value, carried) == AddsConstant(stripIndexAndIntegerCasts(value), 1, {carried})

\* An argument of an scf.while that starts one below something and goes down by one. The
\* number of an argument of the after-region is taken for that of an operand.
isDataDependentBackwardWalkIndex(k, value) ==
  LET v == stripIndexAndIntegerCasts(value)
  IN  /\ v.op \in {"before", "after"} /\ k.loops[v.n].kind = "while"
      /\ v.lane \in DOMAIN k.loops[v.n].initial
      /\ isMinusOneUpdate(k.loops[v.n].initial[v.lane], {})
      /\ isMinusOneUpdate(k.loops[v.n].update[v.lane], {v})

-----------------------------------------------------------------------------
(* Coordinates *)

\* The induction variable, as Polygeist writes it out for a grid-stride loop as well:
\* base + ((iv - base) / step) * step.
isGridStrideCanonicalIndex(v, loop) ==
  \/ stripIndexAndIntegerCasts(v) = Induction(loop)
  \/ /\ v.op = "addi" /\ v.args[2].op = "muli" /\ v.args[2].args[1].op = "divui"
     /\ LET quotient == v.args[2].args[1]
        IN  /\ quotient.args[1].op = "subi"
            /\ quotient.args[1].args[1] = Induction(loop)
            /\ quotient.args[1].args[2] = v.args[1]
            /\ quotient.args[2] = v.args[2].args[2]

\* How a value derives from the scheduling coordinate: "scheduler" linearly, "invariant"
\* not at all, "none" if recovery cannot tell.
RECURSIVE analyzeCoordinateDerivation(_, _)
analyzeCoordinateDerivation(value, logical_loop) ==
  LET v == stripIndexAndIntegerCasts(value)
      Left  == analyzeCoordinateDerivation(v.args[1], logical_loop)
      Right == analyzeCoordinateDerivation(v.args[2], logical_loop)
      Either(a, b) == IF "scheduler" \in {a, b} THEN "scheduler" ELSE "invariant"
  IN  IF v = Induction(logical_loop) \/ v.op = "global_thread"
           \/ (logical_loop # 0 /\ isGridStrideCanonicalIndex(v, logical_loop)) THEN "scheduler"
      ELSE IF v.op \in {"constant", "block_dim", "grid_dim", "grid_stride"} \cup BlockArguments THEN "invariant"
      ELSE IF Len(v.args) # 2 \/ "none" \in {Left, Right} THEN "none"
      ELSE CASE v.op \in {"addi", "subi"} -> Either(Left, Right)
             [] v.op = "muli" -> IF Left = "scheduler" /\ Right = "scheduler" THEN "none" ELSE Either(Left, Right)
             [] v.op \in {"divsi", "divui", "remsi", "remui"} ->
                  IF Right = "scheduler"
                     \/ (Left = "scheduler" /\ \A d \in strippedConstant(v.args[2]) : d <= 0)
                  THEN "none" ELSE Left
             [] v.op \in {"shli", "shrsi", "shrui"} ->
                  IF Right = "scheduler" \/ strippedConstant(v.args[2]) = {} THEN "none" ELSE Left
             [] OTHER -> "none"

isCoordinateSeed(v, logical_loop) ==
  strippedConstant(v) # {} \/ analyzeCoordinateDerivation(v, logical_loop) = "scheduler"

\* The one lane of an scf.while that counts up from a coordinate, if there is just one.
findUniqueDataCoordinate(k, l, logical_loop) ==
  LET loop  == k.loops[l]
      found == {c \in {WhileCoordinate(l, b, a) : b \in DOMAIN loop.initial, a \in DOMAIN loop.passes} :
                  /\ isCoordinateSeed(loop.initial[c.before], logical_loop)
                  /\ loop.passes[c.after] = c.before
                  /\ isPlusOneUpdate(loop.update[c.before], Carried(l, c.after, 0))}
  IN  IF Len(loop.initial) = Len(loop.passes) /\ Cardinality(found) = 1 THEN found ELSE {}

\* What recovery knows of a kernel's coordinates (GenericRaisingContext).
Context(k) ==
  LET logical_loop == LogicalLoop(k)
  IN  [loop |-> logical_loop,
       coordinates |-> IF k.root = "gpu_block" THEN {}
                       ELSE UNION {findUniqueDataCoordinate(k, l, logical_loop) :
                              l \in {m \in DOMAIN k.loops : k.loops[m].kind = "while"}}]

isSelectedPrimaryCoordinate(k, ctx, value) ==
  LET v == stripIndexAndIntegerCasts(value)
  IN  \/ \E c \in ctx.coordinates :
           v \in {k.loops[c.loop].initial[c.before], BeforeArg(c.loop, c.before, 0),
                  Carried(c.loop, c.after, 0), LoopResult(c.loop, c.after, 0)}
      \/ ctx.coordinates = {} /\ ctx.loop # 0 /\ isGridStrideCanonicalIndex(v, ctx.loop)

\* The coordinate, or without any loop the thread's own number.
IsLogical(k, ctx, value) ==
  \/ isSelectedPrimaryCoordinate(k, ctx, value)
  \/ ctx.coordinates = {} /\ ctx.loop = 0 /\ stripIndexAndIntegerCasts(value).op = "global_thread"

-----------------------------------------------------------------------------
(* What is spread over blocks and threads *)

LoopOperands(loop) == ToSet(loop.initial) \cup Bounds(loop)

RECURSIVE valueDependsOnCudaScheduling(_, _, _)
valueDependsOnCudaScheduling(k, ctx, value) ==
  LET v == stripIndexAndIntegerCasts(value)
  IN  \/ v.op \in {"global_thread", "block_id", "thread_id"}
      \/ v.op \in BlockArguments /\ isSelectedPrimaryCoordinate(k, ctx, v)
      \/ /\ v.op # "load"
         /\ \E u \in Operands(v) \cup (IF v.op = "result" THEN LoopOperands(k.loops[v.n]) ELSE {}) :
              valueDependsOnCudaScheduling(k, ctx, u)

recurrenceLoopDependsOnCudaScheduling(k, ctx, l) ==
  \/ ctx.loop \in LoopsAround(k, l) \ {0, l}
  \/ k.loops[l].kind = "for" /\ isProvenCudaGridStrideLoop(k.loops[l])
  \/ \E v \in (IF k.loops[l].kind = "for" THEN Bounds(k.loops[l]) ELSE ToSet(k.loops[l].initial)) :
       valueDependsOnCudaScheduling(k, ctx, v)

-----------------------------------------------------------------------------
(* Indices *)

IndexOperations == {"addi", "subi", "muli", "divsi", "divui", "remsi", "remui"}
IndexLeaves     == {"block_id", "block_dim", "thread_id", "grid_dim", "constant", "parameter"}

GlobalThread == Operation("addi", 0, <<Operation("muli", 0, <<Leaf("block_id"), Leaf("block_dim")>>), Leaf("thread_id")>>)

\* fillIndexAttrsFromValue: the expression that is left of an index, over the logical
\* coordinate, known leaves, and "local" for anything else.
RECURSIVE IndexExpression(_, _, _)
IndexExpression(k, ctx, value) ==
  LET v == stripIndexAndIntegerCasts(value)
  IN  IF IsLogical(k, ctx, v) THEN Leaf("logical")
      ELSE IF v.op \in IndexLeaves THEN v
      ELSE IF v.op = "global_thread" THEN GlobalThread
      ELSE IF v.op \in IndexOperations
      THEN Operation(v.op, 0, <<IndexExpression(k, ctx, v.args[1]), IndexExpression(k, ctx, v.args[2])>>)
      ELSE Operation("local", 0, <<v>>)

Mentions(expression, op) == \E v \in Parts(expression) : v.op = op

\* The name an index goes by when accesses are compared (indexTermsName).
IndexName(k, ctx, value) == IF IsLogical(k, ctx, value) THEN Leaf("logical") ELSE value

\* canonicalizeIndex of the dependence analysis: whether an address is a linear expression it
\* can follow, whether it varies, and its value if it is constant.
Invalid == [valid |-> FALSE, varying |-> FALSE, constant |-> {}]
RECURSIVE canonicalizeIndex(_)
canonicalizeIndex(e) ==
  LET Left    == canonicalizeIndex(e.args[1])
      Right   == canonicalizeIndex(e.args[2])
      Both    == IF Left.valid /\ Right.valid
                 THEN [valid |-> TRUE, varying |-> Left.varying \/ Right.varying, constant |-> {}]
                 ELSE Invalid
  IN  CASE e.op = "constant" -> [valid |-> TRUE, varying |-> FALSE, constant |-> integerConstant(e)]
        [] e.op \in {"logical", "thread_id", "block_id"} -> [valid |-> TRUE, varying |-> TRUE, constant |-> {}]
        [] e.op \in {"parameter", "block_dim", "grid_dim"} -> [valid |-> TRUE, varying |-> FALSE, constant |-> {}]
        [] e.op = "addi" -> IF Left.constant = {0} THEN Right ELSE IF Right.constant = {0} THEN Left ELSE Both
        [] e.op = "subi" -> IF Right.constant = {0} THEN Left ELSE Both
        [] e.op = "muli" -> IF ~Both.valid \/ (Left.varying /\ Right.varying) THEN Invalid
                            ELSE IF {0} \in {Left.constant, Right.constant}
                            THEN [valid |-> TRUE, varying |-> FALSE, constant |-> {0}]
                            ELSE IF Left.constant = {1} THEN Right
                            ELSE IF Right.constant = {1} THEN Left ELSE Both
        [] e.op \in {"divsi", "divui", "remsi", "remui"} ->
             IF ~Both.valid \/ Right.varying
                \/ (Left.varying /\ \A d \in Right.constant : d <= 0)
             THEN Invalid ELSE Both
        [] OTHER -> Invalid

=============================================================================
