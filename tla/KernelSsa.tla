------------------------------ MODULE KernelSsa ------------------------------
(***************************************************************************)
(* The functions of a CUDA program as Polygeist hands them to              *)
(* bitstream-opt, and what recovery reads off their SSA values             *)
(* (mlir/bitstream/lib/Dialect/Bitstream/Transforms/RecoverSemantics.cpp): *)
(* constants, known branches, finite domains, the combiner of a carried    *)
(* state, and the projections of a load.                                   *)
(*                                                                         *)
(* A value is the tree of the operations it is computed by, so two values  *)
(* are the same exactly when they are the same expression of the same      *)
(* loads and block arguments, as they are after CSE.  A callee's arguments *)
(* are replaced by what the driver passes.  The bounds on the depth of a   *)
(* search are left out.                                                    *)
(*                                                                         *)
(* A kernel is [root, loops, body, advance]. Its loops are in        *)
(* post-order, each                                                        *)
(*   [kind, outer, lower, upper, step, initial, passes, update]            *)
(* with passes[after-lane] = before-lane, and its body lists the loads     *)
(* and stores in order, each                                               *)
(*   [op, buffer, index, width, loop, guards, value, covers].              *)
(***************************************************************************)
EXTENDS Integers, Sequences, FiniteSets, SequencesExt, FiniteSetsExt

kWordWidth == 2    \* the width of a word; an index has width 0

Value(op, width, n, lane, args) == [op |-> op, width |-> width, n |-> n, lane |-> lane, args |-> args]

Constant(n, width)      == Value("constant", width, n, 0, <<>>)
Leaf(op)                == Value(op, 0, 0, 0, <<>>)
Induction(loop)         == Value("induction", 0, loop, 0, <<>>)
Carried(loop, lane, w)  == Value("after", w, loop, lane, <<>>)
BeforeArg(loop, lane, w) == Value("before", w, loop, lane, <<>>)
LoopResult(loop, lane, w) == Value("result", w, loop, lane, <<>>)
Operation(op, width, args) == Value(op, width, 0, 0, args)

BlockArguments == {"parameter", "induction", "before", "after"}
Casts          == {"index_cast", "extsi", "extui", "trunci"}
Compares       == {"eq", "ne", "slt", "ult", "sge", "uge"}

\* What an access of the body gives.
Loaded(body, i) == Value("load", body[i].width, i, 0, <<body[i].index>>)

\* The operands of the operation that defines a value: the values an scf.if yields are not.
Operands(v) == IF v.op = "if" THEN {v.args[1]} ELSE ToSet(v.args)

RECURSIVE Parts(_)
Parts(v) == {v} \cup UNION {Parts(u) : u \in ToSet(v.args)}

-----------------------------------------------------------------------------
(* Constants and casts *)

RECURSIVE stripIndexAndIntegerCasts(_)
stripIndexAndIntegerCasts(v) ==
  IF v.op \in Casts THEN stripIndexAndIntegerCasts(v.args[1]) ELSE v

isOneConstant(v)     == v.op = "constant" /\ v.n = 1
isAllOnesConstant(v) == v.op = "constant" /\ v.n = (IF v.width = 0 THEN -1 ELSE 2 ^ v.width - 1)

\* A constant as a signed number, none or one.
integerConstant(v) ==
  IF v.op # "constant" THEN {}
  ELSE {IF v.width > 0 /\ v.n >= 2 ^ (v.width - 1) THEN v.n - 2 ^ v.width ELSE v.n}

strippedConstant(v) == integerConstant(stripIndexAndIntegerCasts(v))

sameValueThroughIntegerCasts(u, v) == stripIndexAndIntegerCasts(u) = stripIndexAndIntegerCasts(v)

\* A condition that recovery can decide: none or one.
knownBoolValue(v) ==
  LET stripped == stripIndexAndIntegerCasts(v)
      Decide(a, b) == CASE stripped.op = "eq" -> a = b
                        [] stripped.op = "ne" -> a # b
                        [] stripped.op \in {"slt", "ult"} -> a < b
                        [] OTHER -> a >= b
  IN  IF stripped.op = "constant" THEN {stripped.n # 0}
      ELSE IF stripped.op \notin Compares THEN {}
      ELSE {Decide(a, b) : a \in strippedConstant(stripped.args[1]), b \in strippedConstant(stripped.args[2])}

\* A guard is the condition of an enclosing scf.if and the branch the access is in.
isInsideKnownDeadIf(access) ==
  \E guard \in ToSet(access.guards) : (~guard.branch) \in knownBoolValue(guard.condition)

\* The accesses that recovery looks at.
Alive(k) == {i \in DOMAIN k.body : ~isInsideKnownDeadIf(k.body[i])}

-----------------------------------------------------------------------------
(* Loops *)

\* The loops around a loop, itself included, or around an access.
RECURSIVE LoopsAround(_, _)
LoopsAround(k, loop) == IF loop = 0 THEN {} ELSE {loop} \cup LoopsAround(k, k.loops[loop].outer)

operationIsWithin(k, access, loop) == loop \in LoopsAround(k, access.loop)
operationNestingDepth(k, loop)     == Cardinality(LoopsAround(k, loop))

-----------------------------------------------------------------------------
(* Finite domains *)

\* combineFiniteDomains
Join(a, b) == {Max({x, y}) : x \in a, y \in b}

\* The result of scf.while holds the initial value or an update.
WhileResultDomain(initial, update) == Join(initial, update)

\* finiteValueDomain: none, or the bound recovery gives. `assumed' is what the update of
\* a loop may take for binary.
RECURSIVE FiniteDomain(_, _, _)
FiniteDomain(k, value, assumed) ==
  LET v == stripIndexAndIntegerCasts(value)
  IN  IF v \in assumed \/ v.width = 1 THEN {2}
      ELSE IF v.op = "constant" /\ v.n \in {0, 1} THEN {v.n + 1}
      ELSE IF v.op \in Compares THEN {2}
      ELSE IF v.op = "andi" THEN {d \in {2} : \E u \in Operands(v) : isOneConstant(u)}
      ELSE IF v.op = "xori" /\ isOneConstant(v.args[1]) THEN FiniteDomain(k, v.args[2], assumed)
      ELSE IF v.op = "xori" /\ isOneConstant(v.args[2]) THEN FiniteDomain(k, v.args[1], assumed)
      ELSE IF v.op \in {"select", "if"}
      THEN Join(FiniteDomain(k, v.args[2], assumed), FiniteDomain(k, v.args[3], assumed))
      ELSE IF v.op = "result" /\ k.loops[v.n].kind = "while" /\ k.loops[v.n].passes[v.lane] # 0
      THEN LET loop == k.loops[v.n]
               lane == loop.passes[v.lane]
           IN  WhileResultDomain(FiniteDomain(k, loop.initial[lane], assumed),
                                 FiniteDomain(k, loop.update[lane], {Carried(v.n, v.lane, v.width)}))
      ELSE {}

finiteValueDomain(k, v) == FiniteDomain(k, v, {})

-----------------------------------------------------------------------------
(* Carried state *)

\* The operand that an exclusive or combines with the carried value: none or one.
XoredWith(v, carried) ==
  IF v.op # "xori" THEN {}
  ELSE IF sameValueThroughIntegerCasts(v.args[1], carried) THEN {v.args[2]}
  ELSE IF sameValueThroughIntegerCasts(v.args[2], carried) THEN {v.args[1]}
  ELSE {}

\* A shift by the width less one, of either sign, keeps one bit.
IsSignShift(v) ==
  /\ v.op \in {"shrsi", "shrui"}
  /\ v.args[1].width - 1 \in integerConstant(v.args[2])

\* What is left of the exclusive or under a projection to one bit.
Projected(v) ==
  CASE IsSignShift(v) -> {v.args[1]}
    [] v.op = "andi" /\ isOneConstant(v.args[1]) -> {v.args[2]}
    [] v.op = "andi" /\ isOneConstant(v.args[2]) -> {v.args[1]}
    [] OTHER -> {}

\* The input of the combiner and the domain its form proves: none or one match.
matchStateCombiner(update, carried) ==
  LET v == stripIndexAndIntegerCasts(update)
  IN  {[input |-> u, domain |-> {}] : u \in XoredWith(v, carried)}
      \cup UNION {{[input |-> u, domain |-> {2}] : u \in XoredWith(x, carried)} : x \in Projected(v)}

RECURSIVE valueTransitivelyDependsOn(_, _)
valueTransitivelyDependsOn(v, root) ==
  \/ sameValueThroughIntegerCasts(v, root)
  \/ \E u \in Operands(stripIndexAndIntegerCasts(v)) : valueTransitivelyDependsOn(u, root)

RECURSIVE valueContainsMemoryRead(_)
valueContainsMemoryRead(v) ==
  v.op = "load" \/ \E u \in Operands(v) : valueContainsMemoryRead(u)

-----------------------------------------------------------------------------
(* Projections of a load *)

\* All values of the kernel, and what uses them besides operations: stores, loops and branches.
Bounds(loop) == IF loop.kind = "while" THEN {} ELSE {loop.lower, loop.upper, loop.step}

Consumed(k) ==
  UNION {ToSet(k.loops[l].initial) \cup Bounds(k.loops[l]) : l \in DOMAIN k.loops}
  \cup UNION {{guard.condition : guard \in ToSet(k.body[i].guards)} : i \in DOMAIN k.body}
  \cup UNION {{k.body[i].index, k.body[i].value} : i \in {j \in DOMAIN k.body : k.body[j].op = "store"}}

KernelValues(k) ==
  UNION {Parts(v) : v \in Consumed(k) \cup UNION {ToSet(k.loops[l].update) : l \in DOMAIN k.loops}
                       \cup {Loaded(k.body, i) : i \in {j \in DOMAIN k.body : k.body[j].op = "load"}}}

OperationUsers(values, v) == {u \in values : v \in Operands(u)}

\* The results that a yield of v defines. An scf.while yields to its before-lanes, and the
\* result of the same number is taken.
YieldedAs(k, values, v) ==
  {u \in values : u.op = "if" /\ v \in {u.args[2], u.args[3]}}
  \cup UNION {{LoopResult(l, lane, v.width) : lane \in
                 {n \in DOMAIN k.loops[l].update : k.loops[l].update[n] = v}} : l \in DOMAIN k.loops}

isLowBitAndUser(u)          == u.op = "andi" /\ \E a \in Operands(u) : isOneConstant(a)
isConstantCompareUser(u, v) == u.op \in Compares /\ \E a \in Operands(u) \ {v} : integerConstant(a) # {}
isBitwiseNot(u)             == u.op = "xori" /\ \E a \in Operands(u) : isAllOnesConstant(a)

\* Users that the two searches follow.
IsFollowed(u) == u.op \in Casts \/ isBitwiseNot(u) \/ u.op = "ctlz"

RECURSIVE valueFeedsLowBitProjection(_, _, _)
valueFeedsLowBitProjection(k, values, v) ==
  \/ \E u \in OperationUsers(values, v) :
       \/ isLowBitAndUser(u) \/ isConstantCompareUser(u, v)
       \/ IsFollowed(u) /\ valueFeedsLowBitProjection(k, values, u)
  \/ \E u \in YieldedAs(k, values, v) : valueFeedsLowBitProjection(k, values, u)

RECURSIVE loadFeedsOnlyProjectionSafeOps(_, _, _)
loadFeedsOnlyProjectionSafeOps(k, values, v) ==
  /\ v \notin Consumed(k)
  /\ \A u \in OperationUsers(values, v) :
       \/ isLowBitAndUser(u) \/ u.op \in Compares
       \/ IsFollowed(u) /\ loadFeedsOnlyProjectionSafeOps(k, values, u)
  /\ \A u \in YieldedAs(k, values, v) : loadFeedsOnlyProjectionSafeOps(k, values, u)

loadHasOnlyLowBitProjection(k, values, v) ==
  /\ OperationUsers(values, v) # {} /\ v \notin Consumed(k) /\ YieldedAs(k, values, v) = {}
  /\ \A u \in OperationUsers(values, v) : isLowBitAndUser(u)

loadHasOnlyFiniteStateProjection(k, v) ==
  LET values == KernelValues(k)
  IN  \/ loadHasOnlyLowBitProjection(k, values, v)
      \/ valueFeedsLowBitProjection(k, values, v) /\ loadFeedsOnlyProjectionSafeOps(k, values, v)

-----------------------------------------------------------------------------
(* What kernels compute, to compare with what recovery says of them: the   *)
(* sets of words that the buffers, the carried lanes and the stores of a   *)
(* chain of kernels can hold.  Threads, addresses and the number of rounds *)
(* of a loop are left out: a load gives any word its buffer may hold, and  *)
(* a loop may end after any round.  So the sets err on the large side.     *)

Words(width) == IF width = 0 THEN {0, 1} ELSE 0 .. 2 ^ width - 1

\* What a value is computed from: loads, block arguments, results of loops, coordinates.
RECURSIVE Atoms(_)
Atoms(v) ==
  IF v.op = "constant" THEN {}
  ELSE IF v.op = "load" \/ v.args = <<>> THEN {v}
  ELSE UNION {Atoms(u) : u \in ToSet(v.args)}

Bit(word, i) == (word \div 2 ^ i) % 2
FromBits(width, B(_)) == FoldLeft(LAMBDA sum, i : sum + B(i) * 2 ^ i, 0, [i \in 1 .. width |-> i - 1])
Signed(word, width)   == IF width > 0 /\ word >= 2 ^ (width - 1) THEN word - 2 ^ width ELSE word

\* An integer brought back to the width of a value.
Wrapped(v, number) == IF v.width = 0 THEN number ELSE number % 2 ^ v.width
Truth(b) == IF b THEN 1 ELSE 0

RECURSIVE ValueUnder(_, _)
ValueUnder(v, env) ==
  LET a == ValueUnder(v.args[1], env)
      b == ValueUnder(v.args[2], env)
      width == v.args[1].width
      signed_a == Signed(a, width)
      signed_b == Signed(b, width)
      \* An index is compared as it is, a word without its sign.
      Unsigned(n) == IF width = 0 /\ n < 0 THEN n + 2 ^ 16 ELSE n
  IN  CASE v.op = "constant" -> v.n
        [] v \in DOMAIN env -> env[v]
        [] v.op \in {"extui", "index_cast", "trunci"} -> Wrapped(v, a)
        [] v.op = "extsi"  -> Wrapped(v, signed_a)
        [] v.op = "xori"   -> FromBits(v.width, LAMBDA i : (Bit(a, i) + Bit(b, i)) % 2)
        [] v.op = "andi"   -> FromBits(v.width, LAMBDA i : Bit(a, i) * Bit(b, i))
        [] v.op = "addi"   -> Wrapped(v, a + b)
        [] v.op = "subi"   -> Wrapped(v, a - b)
        [] v.op = "muli"   -> Wrapped(v, a * b)
        [] v.op \in {"divsi", "divui"} -> IF b = 0 THEN 0 ELSE Wrapped(v, a \div b)
        [] v.op = "shrui"  -> a \div 2 ^ b
        [] v.op = "shrsi"  -> Wrapped(v, signed_a \div 2 ^ b)
        [] v.op = "ctlz"   -> Cardinality({i \in 0 .. width - 1 : \A j \in i .. width - 1 : Bit(a, j) = 0})
        [] v.op = "eq"     -> Truth(a = b)
        [] v.op = "ne"     -> Truth(a # b)
        [] v.op = "slt"    -> Truth(signed_a < signed_b)
        [] v.op = "sge"    -> Truth(signed_a >= signed_b)
        [] v.op = "ult"    -> Truth(Unsigned(a) < Unsigned(b))
        [] v.op = "uge"    -> Truth(Unsigned(a) >= Unsigned(b))
        [] v.op \in {"select", "if"} -> IF a = 1 THEN b ELSE ValueUnder(v.args[3], env)

-----------------------------------------------------------------------------
(* A state of knowledge: [memory, carried], the words of each buffer and of each lane *)

AtomWords(k, known, atom) ==
  CASE atom.op = "load" -> known.memory[k.body[atom.n].buffer]
    [] atom.op \in {"after", "result"} /\ atom.width > 0 -> known.carried[<<atom.n, k.loops[atom.n].passes[atom.lane]>>]
    [] atom.op = "before" /\ atom.width > 0 -> known.carried[<<atom.n, atom.lane>>]
    [] OTHER -> Words(atom.width)

Environments(k, known, atoms) ==
  {env \in [atoms -> UNION {AtomWords(k, known, a) : a \in atoms}] :
     \A a \in atoms : env[a] \in AtomWords(k, known, a)}

ValueWords(k, known, v) == {ValueUnder(v, env) : env \in Environments(k, known, Atoms(v))}

Executes(k, known, access) ==
  \A guard \in ToSet(access.guards) : Truth(guard.branch) \in ValueWords(k, known, guard.condition)

ExecutedStores(k, known) ==
  {i \in DOMAIN k.body : k.body[i].op = "store" /\ Executes(k, known, k.body[i])}

StoredWords(k, known, stores) == UNION {ValueWords(k, known, k.body[i].value) : i \in stores}

Lanes(k) == UNION {{<<l, b>> : b \in DOMAIN k.loops[l].initial} : l \in DOMAIN k.loops}

\* One round more of everything the kernel does.
Round(k, known) ==
  [memory |-> [b \in DOMAIN known.memory |->
     known.memory[b] \cup StoredWords(k, known, {i \in ExecutedStores(k, known) : k.body[i].buffer = b})],
   carried |-> [lane \in Lanes(k) |->
     LET loop == k.loops[lane[1]]
     IN  IF loop.initial[lane[2]].width = 0 THEN {}
         ELSE known.carried[lane] \cup ValueWords(k, known, loop.initial[lane[2]])
                                  \cup ValueWords(k, known, loop.update[lane[2]])]]

RECURSIVE Closed(_, _)
Closed(k, known) == LET next == Round(k, known) IN IF next = known THEN known ELSE Closed(k, next)

\* What holds while a kernel runs on a memory.
During(k, memory) == Closed(k, [memory |-> memory, carried |-> [lane \in Lanes(k) |-> {}]])

\* The memory it leaves: a buffer it covers holds nothing that was there before.
MemoryAfter(k, memory) ==
  LET known == During(k, memory)
      stores == ExecutedStores(k, known)
  IN  [b \in DOMAIN memory |->
         LET to == {i \in stores : k.body[i].buffer = b}
         IN  IF \E i \in to : k.body[i].covers THEN StoredWords(k, known, to) ELSE known.memory[b]]

\* The memory that kernel number s of a chain starts from, and what holds while it runs.
BufferWidths(kernels) ==
  UNION {{<<k.body[i].buffer, k.body[i].width>> : i \in DOMAIN k.body} : k \in ToSet(kernels)}

InitialMemory(kernels) ==
  [b \in {pair[1] : pair \in BufferWidths(kernels)} |->
     Words(Max({pair[2] : pair \in {p \in BufferWidths(kernels) : p[1] = b}}))]

KnownDuring(kernels, s) ==
  During(kernels[s], FoldLeft(LAMBDA memory, k : MemoryAfter(k, memory), InitialMemory(kernels),
                              SubSeq(kernels, 1, s - 1)))

-----------------------------------------------------------------------------
\* The number of kinds of words that a kernel tells apart when all the loads in the set give
\* the same word: by what it stores, carries on, branches on, and addresses.
Outputs(k, loads) ==
  {v \in Consumed(k) \cup UNION {ToSet(k.loops[l].update) : l \in DOMAIN k.loops}
         \cup {k.body[i].index : i \in DOMAIN k.body} :
     \E i \in loads : Loaded(k.body, i) \in Parts(v)}

WordKinds(k, known, loads) ==
  LET given   == {Loaded(k.body, i) : i \in loads}
      outputs == Outputs(k, loads)
      Environs(v) == Environments(k, known, Atoms(v) \ given)
      Effect(word) ==
        [v \in outputs |-> [env \in Environs(v) |->
           ValueUnder(v, [a \in Atoms(v) |-> IF a \in given THEN word ELSE env[a]])]]
  IN  Cardinality({Effect(word) : word \in UNION {AtomWords(k, known, a) : a \in given}})

=============================================================================
