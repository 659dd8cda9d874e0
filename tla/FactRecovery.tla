----------------------------- MODULE FactRecovery -----------------------------
(***************************************************************************)
(* The other way into bitstream-recover-access-graph                       *)
(* (mlir/bitstream/lib/Dialect/Bitstream/Transforms/RecoverSemantics.cpp): *)
(* a pipeline of fact groups, in which a frontend lists what it saw in the *)
(* source of each stage.                                                   *)
(*                                                                         *)
(* A stage is [kind, entry, order, args, params, decls, facts].  A fact is *)
(*   [role, target, buffer, index, form, uses, refs, located]:             *)
(* variables are named, the formals of buffers too, "" is an attribute     *)
(* that is not there, and `refs' lists the array elements an expression    *)
(* reads.  What the frontend says of an expression by its text, the calls  *)
(* in it and its low bits follows from its form.  An index is an           *)
(* expression over the coordinates of the GPU and symbols.                 *)
(***************************************************************************)
EXTENDS AccessRecovery

Symbol(n) == Value("symbol", 0, n, 0, <<>>)

\* The last byte of the file, fileSize - 1.
fileSize == Symbol(0)
LastByte == Operation("subi", 0, <<fileSize, Constant(1, 0)>>)

getFactsByRole(stage, role) == SelectSeq(stage.facts, LAMBDA fact : fact.role = role)
Roles(stage, roles) == {fact \in ToSet(stage.facts) : fact.role \in roles}

hasLowBitProjection(fact) == fact.form \in {"low_bit", "parity"}
hasPopcountCall(fact)     == fact.form \in {"popcount", "parity"}
factUsesValue(fact, v)    == v \in ToSet(fact.uses)

-----------------------------------------------------------------------------
(* Buffers and indices *)

\* A formal stands for what the driver passes.
mapBuffer(stage, formal) ==
  LET bound == {n \in DOMAIN stage.params \cap DOMAIN stage.args : stage.params[n] = formal}
  IN  IF bound = {} THEN formal ELSE stage.args[Max(bound)]

\* materializeExprFromAttrs: a symbol without a definition becomes an argument of the stage.
RECURSIVE MaterializedExpression(_, _)
MaterializedExpression(named, e) ==
  IF e.op = "symbol" /\ e.n \in DOMAIN named THEN named[e.n]
  ELSE [e EXCEPT !.args = [n \in DOMAIN @ |-> MaterializedExpression(named, @[n])]]

isCudaLogicalIndex(init) ==
  LET Products == {Operation("muli", 0, p) : p \in {<<Leaf("block_id"), Leaf("block_dim")>>, <<Leaf("block_dim"), Leaf("block_id")>>}}
  IN  init \in UNION {{Operation("addi", 0, <<p, Leaf("thread_id")>>), Operation("addi", 0, <<Leaf("thread_id"), p>>)} :
                        p \in Products}

\* createIndexDef, for each declaration in turn.
NamedIndices(stage) ==
  FoldLeft(LAMBDA named, decl :
             LET value == IF isCudaLogicalIndex(decl.init) THEN Leaf("logical")
                          ELSE MaterializedExpression(named, decl.init)
             IN  [n \in DOMAIN named \cup {decl.symbol} |-> IF n = decl.symbol THEN value ELSE named[n]],
           <<>>, stage.decls)

ElementIndex(stage, index) == MaterializedExpression(NamedIndices(stage), index)

-----------------------------------------------------------------------------
(* What else happens to a value of which a projection is found *)

\* isValueConsumedAfterDefinition
IsConsumed(stage, value) ==
  \E fact \in Roles(stage, {"expr", "call", "store"}) :
    factUsesValue(fact, value) /\ ~(fact.role = "expr" /\ fact.target = value)

\* Mutant: what is stored does not escape.
ScalarEscapes_NotStored(stage, loaded, summary, state) ==
  \E fact \in Roles(stage, {"expr", "call"}) :
    /\ factUsesValue(fact, loaded) \/ factUsesValue(fact, summary)
    /\ fact.target \notin {summary, state}

\* Not scalarProjectionHasNoExactReadEscapes: the word or its summary goes elsewhere than from
\* the one into the other and on into a low bit.
ScalarEscapes(stage, loaded, summary, state) ==
  \E fact \in Roles(stage, {"expr", "call", "store"}) :
    /\ factUsesValue(fact, loaded) \/ factUsesValue(fact, summary)
    /\ ~ /\ fact.role = "expr"
         /\ \/ fact.target = summary /\ factUsesValue(fact, loaded)
            \/ fact.target = state /\ factUsesValue(fact, summary) /\ hasLowBitProjection(fact)

\* Not popcountProjectionHasNoExactReadEscapes
PopcountEscapes(stage, loaded) ==
  \E fact \in Roles(stage, {"expr", "call", "store"}) : factUsesValue(fact, loaded) /\ ~hasPopcountCall(fact)

\* Not arrayProjectionHasNoExactReadEscapes: the element is loaded, or an expression reads more of it.
ElementEscapes(stage, ref) ==
  \/ \E load \in Roles(stage, {"load"}) : <<load.buffer, load.index>> = ref
  \/ \E fact \in Roles(stage, {"expr"}) : ref \in ToSet(fact.refs) /\ fact.form # "low_bit"

-----------------------------------------------------------------------------
(* Actions *)

FactAction(stage, kind, ref, domain) ==
  [kind |-> kind, buffer |-> mapBuffer(stage, ref[1]), width |-> kWordWidth, source |-> 0,
   name |-> ref[2], index |-> ElementIndex(stage, ref[2]), unbounded |-> FALSE, path |-> <<>>,
   inputs |-> {}, derived |-> {}, value_domain |-> {}, tail |-> FALSE, domain |-> domain]

SameAction(a, b) == a.kind = b.kind /\ a.buffer = b.buffer /\ a.name = b.name /\ a.domain = b.domain

\* addUniqueRead, addUniqueStateProjection: `seen' is what the list holds already.
AddUnique(actions, action) ==
  IF \E a \in ToSet(actions) : SameAction(a, action) THEN actions ELSE Append(actions, action)

AddUniqueRead(stage, actions, ref) == AddUnique(actions, FactAction(stage, "read", ref, NoDomain))

AddProjectedRead(stage, actions, ref, domain, escapes) ==
  LET read == AddUniqueRead(stage, actions, ref)
  IN  IF escapes THEN read ELSE AddUnique(read, FactAction(stage, "state_projection", ref, domain))

Element(load) == <<load.buffer, load.index>>

\* addScalarLowBitStateProjections
ScalarLowBits(stage, actions) ==
  LET exprs == getFactsByRole(stage, "expr")
      Found(load, summary, state) ==
        /\ load.target # "" /\ summary.target # load.target /\ factUsesValue(summary, load.target)
        /\ state.target # summary.target /\ hasLowBitProjection(state)
        /\ factUsesValue(state, summary.target) /\ IsConsumed(stage, state.target)
      OfState(acc, load, summary, state) ==
        IF ~Found(load, summary, state) THEN acc
        ELSE AddProjectedRead(stage, acc, Element(load), 2,
                              ScalarEscapes(stage, load.target, summary.target, state.target))
      OfLoad(acc, load) ==
        FoldLeft(LAMBDA b, summary : FoldLeft(LAMBDA c, state : OfState(c, load, summary, state), b, exprs), acc, exprs)
  IN  FoldLeft(OfLoad, actions, getFactsByRole(stage, "load"))

\* addPopcountStateProjections: a domain for the number of bits of a word.
Popcounts(stage, actions) ==
  LET OfLoad(acc, load) ==
        IF /\ load.target # ""
           /\ \E fact \in Roles(stage, {"expr", "store"}) : hasPopcountCall(fact) /\ factUsesValue(fact, load.target)
        THEN AddProjectedRead(stage, acc, Element(load), kWordWidth + 1, PopcountEscapes(stage, load.target))
        ELSE acc
  IN  FoldLeft(OfLoad, actions, getFactsByRole(stage, "load"))

\* The other loads, the elements that expressions read, and the stores the source has.
Loads(stage, actions) ==
  FoldLeft(LAMBDA acc, load : AddUniqueRead(stage, acc, Element(load)), actions, getFactsByRole(stage, "load"))

Elements(stage, actions) ==
  LET OfRef(acc, fact, ref) ==
        IF fact.form = "low_bit" THEN AddProjectedRead(stage, acc, ref, 2, ElementEscapes(stage, ref))
        ELSE AddUniqueRead(stage, acc, ref)
  IN  FoldLeft(LAMBDA acc, fact : FoldLeft(LAMBDA b, ref : OfRef(b, fact, ref), acc, fact.refs),
               actions, getFactsByRole(stage, "expr"))

Stores(stage, actions) ==
  LET Write(store) == [FactAction(stage, "write", Element(store), NoDomain) EXCEPT
                         !.tail = LastByte \in Parts(store.index)]
      located == SelectSeq(getFactsByRole(stage, "store"), LAMBDA store : store.located)
  IN  actions \o [n \in DOMAIN located |-> Write(located[n])]

lowerGenericKernel(stage) ==
  [kind |-> "kernel", advance |-> 0, recurrences |-> <<>>,
   actions |-> Stores(stage, Elements(stage, Loads(stage, Popcounts(stage, ScalarLowBits(stage, <<>>)))))]

\* lowerLibraryScan: a scan in place has one argument.
lowerLibraryScan(stage) ==
  LET input  == IF stage.args = <<>> THEN "scan_input" ELSE stage.args[1]
      output == IF Len(stage.args) < 2 THEN input ELSE stage.args[2]
  IN  [kind |-> "scan", advance |-> 0, recurrences |-> <<>>,
       actions |-> <<LogicalAction("read", input), LogicalAction("write", output)>>]

recoverStage(stage) == IF stage.entry = "library_scan" THEN lowerLibraryScan(stage) ELSE lowerGenericKernel(stage)

\* readFactGroups, and the sort: the stages that the driver enters, in its order.
EnteredStages(groups) ==
  SortSeq(SelectSeq(groups, LAMBDA stage : stage.kind = "clang_ast_facts" /\ stage.entry # "none"),
          LAMBDA a, b : a.order < b.order)

recoverFromFacts(groups) ==
  LET stages == EnteredStages(groups)
  IN  materializeRecoveredPipeline(pruneStageLocalSyntheticBuffers(
        propagateRecurrenceDomains([s \in DOMAIN stages |-> recoverStage(stages[s])])))

-----------------------------------------------------------------------------
(* What a stage of facts computes, to compare with *)

FactWords == 0 .. 2 ^ kWordWidth - 1
BitCount(word) == Cardinality({i \in 0 .. kWordWidth - 1 : (word \div 2 ^ i) % 2 = 1})

FormValue(form, inputs) ==
  CASE form \in {"copy", "call"} -> inputs[1]
    [] form = "low_bit"  -> inputs[1] % 2
    [] form = "popcount" -> BitCount(inputs[1])
    [] form = "parity"   -> BitCount(inputs[1]) % 2
    [] form = "upper"    -> inputs[1] \div 2

\* The places at which the facts read an element: a load, or a reference of an expression.
Places(stage) ==
  {<<n, 0>> : n \in {m \in DOMAIN stage.facts : stage.facts[m].role = "load"}}
  \cup UNION {{<<n, r>> : r \in DOMAIN stage.facts[n].refs} : n \in DOMAIN stage.facts}

IsLoad(place) == place[2] = 0

PlaceRef(stage, place) ==
  LET fact == stage.facts[place[1]] IN IF IsLoad(place) THEN Element(fact) ELSE fact.refs[place[2]]

Location(stage, ref) == <<mapBuffer(stage, ref[1]), ElementIndex(stage, ref[2])>>

\* What a projection of an element may speak of: one variable that is loaded from it, or all the
\* expressions that read it under one name under which it is not loaded.
Readings(stage, location) ==
  LET here  == {place \in Places(stage) : Location(stage, PlaceRef(stage, place)) = location}
      Named(ref) == {place \in here : PlaceRef(stage, place) = ref}
  IN  {{place} : place \in {p \in here : IsLoad(p)}}
      \cup {Named(ref) : ref \in {PlaceRef(stage, place) :
                                  place \in {p \in here : ~\E q \in Named(PlaceRef(stage, p)) : IsLoad(q)}}}

\* What leaves the stage when the places read these words: what it stores, and what it passes to
\* other functions.
Output(stage, words) ==
  LET Step(acc, n) ==
        LET fact   == stage.facts[n]
            inputs == [u \in DOMAIN fact.uses |-> acc.values[fact.uses[u]]]
                        \o [r \in DOMAIN fact.refs |-> words[<<n, r>>]]
            value  == IF fact.role = "load" THEN words[<<n, 0>>] ELSE FormValue(fact.form, inputs)
        IN  IF fact.role \in {"load", "expr"}
            THEN [acc EXCEPT !.values = [v \in DOMAIN @ \cup {fact.target} |-> IF v = fact.target THEN value ELSE @[v]]]
            ELSE [acc EXCEPT !.out = Append(@, value)]
  IN  FoldLeft(Step, [values |-> <<>>, out |-> <<>>], [n \in DOMAIN stage.facts |-> n]).out

\* The number of kinds of words that the stage tells apart when these places read the same word.
KindsAt(stage, places) ==
  LET others == Places(stage) \ places
      Effect(word) == [rest \in [others -> FactWords] |->
                         Output(stage, [p \in Places(stage) |-> IF p \in places THEN word ELSE rest[p]])]
  IN  Cardinality({Effect(word) : word \in FactWords})

\* A projection of an element keeps all that the stage makes of it in the reading it speaks of.
FactProjectionsSuffice(stage, recovered) ==
  \A n \in DOMAIN recovered.projections :
    LET projection == recovered.projections[n]
    IN  \E places \in Readings(stage, <<projection.buffer, projection.index.expression>>) :
          KindsAt(stage, places) <= projection.domain

\* Every element a stage reads has a read, and every store with a place in the source a write.
FactAccessesKept(stage, recovered) ==
  LET Has(op, ref) == \E n \in DOMAIN recovered.accesses :
                        /\ recovered.accesses[n].op = op
                        /\ <<recovered.accesses[n].buffer, recovered.accesses[n].index.expression>> = Location(stage, ref)
  IN  /\ \A place \in Places(stage) : Has("read", PlaceRef(stage, place))
      /\ \A fact \in Roles(stage, {"store"}) : fact.located => Has("write", Element(fact))

=============================================================================
