--------------------------- MODULE MCCompilerPasses ---------------------------
(***************************************************************************)
(* What comes in: small pipelines, chains of small kernels, and fact       *)
(* groups of the form of those in                                          *)
(* mlir/bitstream/test/recover_access_graph.mlir.                          *)
(***************************************************************************)
EXTENDS BitstreamOpt

-----------------------------------------------------------------------------
(* Kernels from one buffer to another, of the shapes that the workloads    *)
(* and the tests of the recovery have (mlir/bitstream/test/recover_*.mlir) *)

W == kWordWidth
Word(n) == Constant(n, W)

For(lower, step, initial, update) ==
  [kind |-> "for", outer |-> 0, lower |-> lower, upper |-> Leaf("parameter"), step |-> step,
   initial |-> initial, passes |-> [lane \in DOMAIN initial |-> lane], update |-> update]
While(outer, initial, passes, update) ==
  [kind |-> "while", outer |-> outer, lower |-> Constant(0, 0), upper |-> Constant(0, 0),
   step |-> Constant(0, 0), initial |-> initial, passes |-> passes, update |-> update]

GridStride == For(Leaf("global_thread"), Leaf("grid_stride"), <<>>, <<>>)

Load(buffer, index, loop) ==
  [op |-> "load", buffer |-> buffer, index |-> index, width |-> W, loop |-> loop, guards |-> <<>>,
   value |-> Word(0), covers |-> FALSE]
Store(buffer, index, loop, value, covers) ==
  [op |-> "store", buffer |-> buffer, index |-> index, width |-> W, loop |-> loop, guards |-> <<>>,
   value |-> value, covers |-> covers]

WordAt(n, index) == Value("load", W, n, 0, <<index>>)

KernelOf(root, loops, body) ==
  [root |-> root, loops |-> loops, body |-> body, advance |-> 0]

\* What a kernel makes of a word.
Made(form, x) ==
  LET low == Operation("andi", W, <<x, Word(1)>>)
      is_zero == Operation("eq", 1, <<x, Word(0)>>)
  IN  CASE form = "copy"    -> x
        [] form = "low_bit" -> low
        [] form = "flag"    -> Operation("extui", W, <<is_zero>>)
        [] form = "parity"  -> Operation("andi", W, <<Operation("ctlz", W, <<Operation("xori", W, <<x, Word(3)>>)>>), Word(1)>>)
        [] form = "choice"  -> Operation("if", W, <<is_zero, Word(1), Word(0)>>)
        [] form = "flipped" -> Operation("xori", W, <<Word(1), low>>)
        [] form = "masked"  -> Operation("select", W, <<is_zero, x, low>>)

\* One store for one load, under the scheduling loop or without any.
Elementwise(from, to, form) ==
  KernelOf("loop", <<GridStride>>,
         <<Load(from, Induction(1), 1), Store(to, Induction(1), 1, Made(form, WordAt(1, Induction(1))), TRUE)>>)
Threads(from, to, form) ==
  LET i == Leaf("global_thread")
  IN  KernelOf("gpu_block", <<>>, <<Load(from, i, 0), Store(to, i, 0, Made(form, WordAt(1, i)), TRUE)>>)

\* The same through a buffer of the kernel's own, and with a store that never happens.
Scratch(from, to, form) ==
  LET i == Induction(1)
  IN  KernelOf("loop", <<GridStride>>,
             <<Load(from, i, 1), Store("buf0", i, 1, WordAt(1, i), FALSE),
               Load("buf0", i, 1), Store(to, i, 1, Made(form, WordAt(3, i)), TRUE)>>)
Guarded(from, to, form, unlikely) ==
  LET i == Induction(1)
      guard == [condition |-> Operation("eq", 1, <<Word(0), Word(1)>>), branch |-> FALSE]
      store == Store(to, i, 1, Made(form, WordAt(1, i)), TRUE)
  IN  KernelOf("loop", <<GridStride>>,
             <<Load(from, i, 1), [store EXCEPT !.guards = <<guard>>],
               [Store(to, Operation("addi", 0, <<i, Constant(1, 0)>>), 1, Made(unlikely, WordAt(1, i)), FALSE)
                  EXCEPT !.guards = <<[guard EXCEPT !.branch = TRUE]>>]>>)

\* Two loads of the same word.
Twice(from, to, form) ==
  LET i == Induction(1)
  IN  KernelOf("loop", <<GridStride>>,
             <<Load(from, i, 1), Load(from, i, 1),
               Store(to, i, 1, Operation("select", W, <<Operation("eq", 1, <<WordAt(1, i), Word(0)>>), Word(0),
                                                        Made(form, WordAt(2, i))>>), TRUE)>>)

\* The next state from a carried one and a word.
Combined(combiner, state, x) ==
  LET xor == Operation("xori", W, <<state, x>>)
  IN  CASE combiner = "xor"  -> xor
        [] combiner = "low"  -> Operation("andi", W, <<Word(1), xor>>)
        [] combiner = "shru" -> Operation("shrui", W, <<xor, Word(W - 1)>>)
        [] combiner = "shrs" -> Operation("shrsi", W, <<xor, Word(W - 1)>>)

\* A sweep of each thread over its words with a carried state; the condition may permute the lanes.
LocalSweep(from, to, combiner, form, initial, passes) ==
  LET item  == CHOOSE a \in 1 .. 2 : passes[a] = 1
      i     == Carried(1, item, 0)
      state == Carried(1, 3 - item, W)
      next  == Combined(combiner, state, Made(form, WordAt(1, i)))
  IN  KernelOf("loop", <<While(2, <<Induction(2), initial>>, passes,
                             <<Operation("addi", 0, <<i, Constant(1, 0)>>), next>>),
                       GridStride>>,
             <<Load(from, i, 1), Store(to, i, 1, next, TRUE)>>)

\* A sweep that carries the parity of the words and of their complements.
TupleSweep(from, to) ==
  LET i == Carried(1, 1, 0)
      next1 == Operation("xori", W, <<Carried(1, 2, W), Made("low_bit", WordAt(1, i))>>)
      next2 == Operation("xori", W, <<Carried(1, 3, W), Made("flipped", WordAt(1, i))>>)
  IN  KernelOf("loop", <<While(2, <<Induction(2), Word(0), Word(0)>>, <<1, 2, 3>>,
                             <<Operation("addi", 0, <<i, Constant(1, 0)>>), next1, next2>>),
                       GridStride>>,
             <<Load(from, i, 1), Store(to, i, 1, next1, TRUE), Store("w", i, 1, next2, TRUE)>>)

\* One thread over all words; the last state is stored behind the others.
GlobalSweep(from, to, form, initial) ==
  LET i     == Induction(1)
      state == Carried(1, 1, W)
      loop  == For(Constant(0, 0), Constant(1, 0), <<initial>>,
                   <<Combined("xor", state, Made(form, WordAt(2, i)))>>)
  IN  KernelOf("call", <<loop>>,
             <<Store(to, i, 1, state, TRUE), Load(from, i, 1),
               Store(to, Leaf("parameter"), 0, LoopResult(1, 1, W), TRUE)>>)

\* A walk back from the item, and what it found.
Walk(from, to, form) ==
  LET j == Carried(1, 1, 0)
      one == Constant(1, 0)
  IN  KernelOf("loop", <<While(2, <<Operation("subi", 0, <<Induction(2), one>>), Word(0)>>, <<1, 2>>,
                             <<Operation("subi", 0, <<j, one>>), Made(form, WordAt(1, j))>>),
                       GridStride>>,
             <<Load(from, j, 1), Store(to, Induction(2), 2, LoopResult(1, 2, W), TRUE)>>)

\* A word and the carry of its chunk.
Rebase(from, carries, to) ==
  LET i     == Induction(1)
      chunk == Operation("divui", 0, <<i, Constant(2, 0)>>)
  IN  KernelOf("loop", <<GridStride>>,
             <<Load(from, i, 1), Load(carries, chunk, 1),
               Store(to, i, 1, Operation("xori", W, <<WordAt(1, i), WordAt(2, chunk)>>), TRUE)>>)

\* A store to one place alone.
Patch(from, to, form) ==
  LET n == Leaf("parameter")
  IN  KernelOf("call", <<>>, <<Load(from, n, 0), Store(to, n, 0, Made(form, WordAt(1, n)), FALSE)>>)

\* A library call.
ScanCall(from, to) ==
  KernelOf("scan_call", <<>>, <<Load(from, Constant(0, 0), 0), Store(to, Constant(0, 0), 0, WordAt(1, Constant(0, 0)), FALSE)>>)

-----------------------------------------------------------------------------
(* Chains *)

BinaryForms == {"low_bit", "flag", "parity", "choice", "flipped"}

BinaryWriters ==
  {Elementwise("in", "t", form) : form \in BinaryForms}
  \cup {Threads("in", "t", "flag"), Guarded("in", "t", "low_bit", "copy"), Twice("in", "t", "low_bit"),
        LocalSweep("in", "t", "shru", "copy", Word(1), <<1, 2>>)}

WordWriters == {Elementwise("in", "t", "copy"), Scratch("in", "t", "masked"), Guarded("in", "t", "copy", "flag")}

Straight == <<1, 2>>
Permuted == <<2, 1>>

\* Kernels from "t" to "u" that carry what they load, and others.
Carriers(form) ==
  {LocalSweep("t", "u", "xor", form, Word(n), passes) : n \in {0, 1}, passes \in {Straight, Permuted}}
  \cup {GlobalSweep("t", "u", form, Word(n)) : n \in {0, 1}}

Transformers ==
  {LocalSweep("t", "u", "low", "copy", Word(1), Straight),
   LocalSweep("t", "u", "shru", "copy", Word(0), Permuted),
   LocalSweep("t", "u", "shrs", "copy", Word(0), Straight),
   TupleSweep("t", "u"), Walk("t", "u", "parity"), Walk("t", "u", "copy"),
   Scratch("t", "u", "copy"), ScanCall("t", "u")}
  \cup {Elementwise("t", "u", form) : form \in {"copy", "masked", "choice"}}
  \cup Carriers("flag")

DistantReaders == {Rebase("t", "u", "v"), Walk("u", "v", "parity")}
Readers == DistantReaders \cup {Elementwise("u", "v", "low_bit")}

Chains ==
  {<<w, c, r>> : w \in BinaryWriters, c \in Carriers("copy"), r \in Readers}
  \cup {<<w, c, r>> : w \in BinaryWriters \cup WordWriters, c \in Transformers, r \in DistantReaders}
  \cup {<<w, Patch("in", "t", "low_bit"), c>> : w \in BinaryWriters, c \in Carriers("copy")}
  \cup {<<w, Patch("in", "t", "copy"), c>> : w \in BinaryWriters, c \in Carriers("flag") \cup Carriers("copy")}
  \cup {<<w, c, GlobalSweep("u", "v", "copy", Word(0))>> : w \in BinaryWriters, c \in Carriers("copy")}

-----------------------------------------------------------------------------
(* Programs of which recovery says what is not so *)

\* A parity of whole words: an integer the loop starts from, and no domain.
WordParity == {<<LocalSweep("in", "t", "xor", "copy", Word(0), Straight)>>}

\* A buffer cleared before it is written.
ClearedFirst ==
  {<<[Elementwise("in", "t", "copy") EXCEPT
        !.body = <<Store("t", Induction(1), 1, Word(0), TRUE), Load("in", Induction(1), 1),
                   Store("t", Induction(1), 1, WordAt(2, Induction(1)), TRUE)>>]>>}

-----------------------------------------------------------------------------
(* Pipelines around one buffer "t": one or two stages that write it, then  *)
(* a stage that reads it once or twice, as the kernels of the workloads    *)
(* and the tests of the passes do                                          *)

Write(id, value_domain, tail) ==
  [op |-> "write", buffer |-> "t", id |-> id, index |-> "i", affine |-> TRUE,
   in_while |-> FALSE, recurrence |-> 0, tail_boundary_write |-> tail, value_domain |-> value_domain]

\* A read of "t" of one of the shapes the passes tell apart.
ReadOf(shape, id) ==
  [op |-> "read", buffer |-> "t", id |-> id,
   index |-> CASE shape.walk = "none" -> "i" [] OTHER -> "j",
   affine |-> shape.walk # "opaque",
   in_while |-> shape.walk = "while",
   recurrence |-> IF shape.walk = "recurrence" THEN 1 ELSE 0,
   tail_boundary_write |-> FALSE, value_domain |-> NoDomain]

Projections(shape, read) ==
  [k \in 1 .. Len(shape.projected) |->
     [buffer |-> "t", index |-> read.index, read_access |-> read.id, domain |-> shape.projected[k]]]

Stage(kind, state_domain, recurrences, advance, accesses, projections) ==
  [kind |-> kind, state_domain |-> state_domain, initial_state |-> {},
   recurrences |-> [r \in DOMAIN recurrences |-> [state_domain |-> recurrences[r], initial_state |-> {}]],
   advance |-> advance, accesses |-> accesses, projections |-> projections]

Pipeline(stages) ==
  LET bare == [stages |-> stages, states |-> {}, notes |-> <<>>]
  IN  [bare EXCEPT !.notes = [x \in Reads(bare) |-> NoNote]]

-----------------------------------------------------------------------------
Shape(walk, projected) == [walk |-> walk, projected |-> projected]

Shapes ==
  {Shape(walk, projected) : walk \in {"none", "while", "recurrence"},
                            projected \in {<<>>, <<1>>, <<2>>, <<34>>}}
  \cup {Shape("opaque", <<>>)}

Kernel(write) == Stage("kernel", NoDomain, <<>>, 0, <<write>>, <<>>)
ScanOf(state_domain, write) ==
  Stage("scan", state_domain, <<>>, 0, <<ReadOf(Shape("none", <<>>), Missing), write>>, <<>>)

\* Writers of "t", the ids missing or numbered as users do.
Writers ==
  {Kernel(Write(id, NoDomain, FALSE)) : id \in {Missing, 1}}
  \cup {ScanOf(d, Write(Missing, v, FALSE)) : d \in {NoDomain, 2, 3}, v \in {NoDomain, 2, 3}}

\* Those that store the carried state if they state a domain of what they store.
SettledWriters ==
  {w \in Writers : w.accesses[Len(w.accesses)].value_domain \in {NoDomain, w.state_domain}}

\* Consumers with two reads. A projection needs the id of its read; the other ids
\* may be missing or the same.
TwoReads(shape1, shape2, id1, id2, domain, advance) ==
  LET read1 == ReadOf(shape1, id1)
      read2 == ReadOf(shape2, id2)
  IN  Stage("kernel", NoDomain, <<domain>>, advance, <<read1, read2>>,
            Projections(shape1, read1) \o Projections(shape2, read2))

OneRead(shape, domain) ==
  LET read == ReadOf(shape, 0)
  IN  Stage("kernel", NoDomain, <<domain>>, 0, <<read>>, Projections(shape, read))

\* The state_domain of the consumer's recurrence, where a read runs through one.
RecurrenceDomains(shapes) ==
  IF \E shape \in shapes : shape.walk = "recurrence" THEN {NoDomain, 2, 34} ELSE {NoDomain}

SimpleConsumers ==
  UNION {{OneRead(shape, d) : d \in RecurrenceDomains({shape})} : shape \in Shapes}
  \cup {ScanOf(2, Write(Missing, 2, FALSE))}

DoubleConsumers ==
  UNION {{TwoReads(s1, s2, 1, id, d, 0) : id \in {0, 1}, d \in RecurrenceDomains({s1, s2})} :
                 s1 \in Shapes, s2 \in {s \in Shapes : s.projected \in {<<>>, <<2>>}}}
  \cup {TwoReads(s, Shape("none", <<>>), 0, Missing, NoDomain, 1) : s \in Shapes}

\* A stage between writer and reader: it writes "t" over, or only its boundary.
TailOnly == Kernel(Write(Missing, NoDomain, TRUE))
Both == Stage("kernel", NoDomain, <<>>, 0, <<Write(7, NoDomain, FALSE), Write(Missing, NoDomain, TRUE)>>, <<>>)

KernelWriter == Kernel(Write(0, NoDomain, FALSE))
ScanWriter   == ScanOf(2, Write(5, 2, FALSE))

MCSources ==
  {Pipeline(<<w, c>>) : w \in Writers, c \in SimpleConsumers}
         \cup {Pipeline(<<w, c>>) : w \in SettledWriters, c \in DoubleConsumers}
         \cup {Pipeline(<<w, m, OneRead(shape, 2)>>) :
                 w \in {KernelWriter, ScanWriter}, m \in Writers \cup {Both}, shape \in Shapes}
         \cup {Pipeline(<<KernelWriter, c1, OneRead(shape, 2)>>) :
                 c1 \in {TailOnly} \cup {OneRead(sh, 2) : sh \in Shapes}, shape \in Shapes}
         \cup {Pipeline(<<OneRead(shape, 2)>>) : shape \in Shapes}
         \cup {Pipeline(<<ScanOf(d, Write(Missing, d, FALSE)), c, ScanOf(e, Write(Missing, e, FALSE)), c>>) :
                 d \in {NoDomain, 2}, e \in {NoDomain, 2, 3},
                 c \in {OneRead(Shape("none", projected), NoDomain) : projected \in {<<>>, <<2>>}}}

-----------------------------------------------------------------------------
(* Fact groups: a stage from "in" to "t", and a kernel that reads "t" as its parameter "a" *)

ThreadIndex  == Symbol(1)
AliasIndex   == Symbol(2)
UnknownIndex == Symbol(3)

Declarations ==
  <<[symbol |-> ThreadIndex.n,
     init |-> Operation("addi", 0, <<Operation("muli", 0, <<Leaf("block_id"), Leaf("block_dim")>>), Leaf("thread_id")>>)],
    [symbol |-> AliasIndex.n, init |-> ThreadIndex]>>

Fact(role, form, target, uses) ==
  [role |-> role, target |-> target, buffer |-> "", index |-> ThreadIndex, form |-> form, uses |-> uses,
   refs |-> <<>>, located |-> TRUE]

FactLoad(target, index)       == [Fact("load", "copy", target, <<>>) EXCEPT !.buffer = "a", !.index = index]
FactExpr(target, form, use)   == Fact("expr", form, target, <<use>>)
RefExpr(target, form, index)  == [Fact("expr", form, target, <<>>) EXCEPT !.refs = <<<<"a", index>>>>]
FactCall(form, use)           == Fact("call", form, "", <<use>>)
FactStore(form, use, index)   == [Fact("store", form, "", <<use>>) EXCEPT !.buffer = "b", !.index = index]

Group(order, args, body) ==
  [kind |-> "clang_ast_facts", entry |-> "kernel_launch", order |-> order, args |-> args, params |-> <<"a", "b">>,
   decls |-> Declarations, facts |-> body]

CopyWriter    == Group(0, <<"in", "t">>, <<FactLoad("v", ThreadIndex), FactStore("copy", "v", ThreadIndex)>>)
LibraryWriter == [Group(0, <<"in", "t">>, <<>>) EXCEPT !.entry = "library_scan"]

\* Of a word v, what c is computed from it and b from that, and which of the three are stored.
StoresOf(stored) ==
  LET names == SetToSeq(DOMAIN stored) IN [n \in DOMAIN names |-> FactStore(stored[names[n]], names[n], ThreadIndex)]

ChainFacts ==
  {<<FactLoad("v", ThreadIndex), FactExpr("c", first, "v"), FactExpr("b", second, "c")>> \o StoresOf(stored) :
     first \in {"copy", "popcount", "upper"}, second \in {"copy", "low_bit", "parity"},
     stored \in {[v \in names |-> IF v = "v" THEN form ELSE "copy"] :
                    names \in (SUBSET {"v", "c", "b"}) \ {{}}, form \in {"copy", "popcount"}}}

\* The low bit of what a word becomes, and a second use of the word or a second read of the element.
LowBitOf(index) == <<FactLoad("v", index), FactExpr("c", "copy", "v"), FactExpr("b", "low_bit", "c"),
                     FactStore("copy", "b", ThreadIndex)>>
CountOf(index)  == <<FactLoad("v", index), FactExpr("c", "popcount", "v"), FactStore("copy", "c", LastByte)>>

SecondUses ==
  {<<FactCall(form, var)>> : form \in {"call", "popcount"}, var \in {"v", "c"}}
  \cup {<<FactLoad("w", index), FactStore(form, "w", UnknownIndex)>> :
           index \in {ThreadIndex, AliasIndex, UnknownIndex}, form \in {"copy", "popcount"}}
  \cup {<<RefExpr("w", form, index), FactStore("copy", "w", UnknownIndex)>> :
           index \in {ThreadIndex, AliasIndex}, form \in {"copy", "low_bit", "popcount"}}
  \cup {<<FactExpr("w", form, var), FactStore("copy", "w", UnknownIndex)>> : form \in {"copy", "low_bit"}, var \in {"v", "c"}}
  \cup {<<[FactStore("copy", "v", ThreadIndex) EXCEPT !.located = FALSE]>>}

RefFacts ==
  {<<RefExpr("b", first, index1), RefExpr("c", second, index2), FactStore("copy", "b", ThreadIndex), FactStore("copy", "c", LastByte)>> :
     first \in {"low_bit", "copy"}, second \in {"low_bit", "parity", "copy"},
     index1 \in {ThreadIndex, AliasIndex}, index2 \in {ThreadIndex, UnknownIndex}}

FactKernels ==
  ChainFacts \cup RefFacts
  \cup {facts1 \o second : facts1 \in {LowBitOf(index) : index \in {ThreadIndex, UnknownIndex}}
                                       \cup {CountOf(index) : index \in {ThreadIndex, AliasIndex}},
                            second \in SecondUses}

\* Groups in any order, next to one that the driver never enters and one of another kind.
MCFactPrograms ==
  {<<CopyWriter, Group(1, <<"t", "u">>, body)>> : body \in FactKernels}
  \cup {<<LibraryWriter, Group(1, <<"t", "u">>, body)>> : body \in RefFacts}
  \cup {<<Group(1, <<"t", "u">>, LowBitOf(ThreadIndex)), [writer EXCEPT !.order = 2, !.entry = "none"],
          [writer EXCEPT !.kind = "summary"], writer>> : writer \in {CopyWriter, LibraryWriter}}

-----------------------------------------------------------------------------
(* Pipelines on which the passes disagree with each other *)

\* A stage that writes only the boundary, after a scan without recovered domains.
HiddenScan == {Pipeline(<<ScanOf(NoDomain, Write(5, NoDomain, FALSE)), TailOnly, OneRead(Shape("none", <<>>), NoDomain)>>)}

=============================================================================
