# Verification of bitstream-compiler in TLA+

This directory holds TLA+ modules that model the program, the TLC
configurations that check them on small instances, and TLAPS proofs of the
properties that matter most, for every value of the constants. The paths in
this document are relative to `src/`.

1. The system · 2. Modules · 3. Modelling decisions · 4. Runs · 5. Bounds ·
6. Fairness · 7. Proofs · 8. What the checks found · 9. Not modelled · 10. Plan

## 1. The system

The repository has two halves that meet in its experiments, and in the programs that
one prepares as inputs of the other.

**The compiler** (`mlir/bitstream/`) is an MLIR dialect and five passes, run by
`bitstream-opt` in the order of `scripts/run-direct-index.sh`:

| part | state it keeps | what it does |
|---|---|---|
| `bitstream-recover-access-graph` (`RecoverSemantics.cpp`) | the module | raises a CUDA driver, or the facts a frontend found in its source, to pipelines of stages with reads, writes, scans, recurrences and state projections |
| `bitstream-dependence-analysis` (`DependenceAnalysis.cpp`) | access ids; one analysis with its edges | gives every access an id of its own, retargets the projections, connects each read with the latest preceding writer of its buffer and derives the window of addresses |
| `bitstream-dependency-classification` | the analysis | renumbers the edges into a bounded and an unbounded group |
| `bitstream-finite-state-inference` | `state` operations, annotations of edges and reads | erases its earlier results, then proves that some unbounded edges carry a value of a finite domain |
| `bitstream-speculative-fusion` | fusion candidate, fused kernel | decides whether the stages may be fused, from the evidence on the edges |
| the dialect (`IR/`) | – | verifiers that must hold after every pass |

The passes are sequential. What makes them hard is that each reads the
annotations others left, that any of them may be run again on its own output,
and that `bitstream-opt` accepts them in any order: stale ids, edges and proofs.
Correct means that what recovery states of a kernel (finite domains of carried
states and stored words, projections that keep all the kernel tells apart) holds
of what the kernel computes, what a pass emits verifies, every read has its edge,
fusion is called legal only if every unbounded dependence has a finite witness, and a
repeated pass changes nothing.

**The kernels** (`benchmarks/`) are the CUDA programs the compiler's plans are
compared with. They tokenize JSON (CSV, XML, FASTQ) text and resolve its two
sequential dependences, the backslash run that may escape a quote and the
parity of the quotes so far, in different parallel ways:

| design | sources | shared state | how threads interact |
|---|---|---|---|
| CPU oracles | `gpjson_reference_common.cuh`, `control_common.cuh`, `cujson/src/enumeration.cu` | – | one sequential loop |
| per-thread enumeration | `{cujson,gpjson}/src/enumeration.cu` | bitmaps, readiness flags with epochs, ticket counter | spin on flags of predecessors, warp votes |
| hierarchical speculation | `{cujson,gpjson}/…/hierarchical_*` | predictions, recovery queue, parity masks, scan | atomics inside a kernel, kernels in stream order |
| GPJSON baseline | `original_gpjson.cuh` | bitmaps rewritten in place, carries | kernels in stream order |
| targeted (stage-major) baselines | `*/bitgen_targeted_baseline.cu` | rows in global memory, carries in shared memory | barriers, one CTA per input, kernels in order |
| fused BitGen kernels | `*/bitgen_fused.cu` | carries and totals in shared memory | barriers and shuffles |
| staged CSV, XML, FASTQ | `csv/`, `xml/`, `fastq/` | chunk summaries | library scan; tree reduction in a CTA |
| controls without validation | `{cujson,gpjson}/src/speculation_no_validation.cu` | predictions | one kernel per launch |
| programs prepared for the compiler (`inputs/`) | `gpjson/gpjson.cpp`, `cujson/cujson.cpp` | rows rewritten in place, some turning from bits into counts and sums | kernels in stream order, grid-stride threads |
| regex kernel of BitGen (`inputs/`) | `bitgen/regex_0.cu` | one shared array for all shifts, a flag for the end of a loop, streams in global memory | barriers; blocks one after the other, overlapping |

Correct means that after every launch the bitmaps and counts are those of the
sequential oracle, whatever the order of the threads and whatever the previous
launch left in the buffers, and that no launch hangs.

## 2. Modules

| module | models | state → code, actions → code |
|---|---|---|
| `JsonText` | word helpers of the JSON kernels | the specified bitmaps by position: which byte is escaped, in a string, structural; operators on words as sets of bit numbers |
| `CpuReference` | both oracles | loop variables; one action per loop iteration |
| `WordAlgorithms` | the same helpers as shift-and-add sequences | one word of a stream per step |
| `PrefixChain` | – | abstract: every word publishes its string bitmap once, after its predecessor, with the specified value |
| `CuEnumeration` | `cujson/src/enumeration.cu` | every buffer, flag, the ticket counter, and `pc`, task and registers of each thread; one action per access to shared memory; `Launch` is the host |
| `GpEnumeration` | `gpjson/src/enumeration.cu` | the same, with blocks that become resident and leave, and the sets of converged lanes |
| `GpSegments`, `XorScan` | segmentation and scan shared by the gpJSON programs | operators |
| `XorScanPasses` | the three scan kernels alone | the array in place; one action per thread and pass |
| `GpHierarchy`, `GpBaseline` | the kernels of the two gpJSON programs | a stage, the threads yet to run in it, every buffer |
| `CuHierarchy` | the five kernels of cuJSON's hierarchy | the same, with the atomics of the recovery as actions |
| `NoValidation` | the two controls | the first kernel of `GpHierarchy` and of `CuHierarchy` and the launches around it |
| `PreparedGpjson` | `inputs/gpjson/gpjson.cpp` | `GpBaseline`, with the words a thread stores and the string stage divided by words |
| `PreparedCujson` | `inputs/cujson/cujson.cpp` | the stage, the next item of each thread, rows of machine words |
| `RegexBlocks` | `inputs/bitgen/regex_0.cu` | place in the body, block and registers of each thread; one action per section between barriers |
| `CtaTiles`, `FusedTiles`, `StageMajor` | the programs that give an input to one CTA | `pc`, tile and registers of each thread, shared and global rows; one action per section between barriers |
| `Utf8Check` | the packed check and `validUtf8` | the error word; one action per thread |
| `ChunkPipelines`, `CtaReduction` | CSV, XML, FASTQ | masks, summaries, prefixes, output; one action per chunk and kernel; the reduction with barriers |
| `BitstreamIR` | the dialect's operations and verifiers | a pipeline and an analysis as records |
| `DependenceAnalysis`, `FiniteStateInference`, `SpeculativeFusion` | the passes | each pass a function from (pipeline, analysis) to the same |
| `CompilerPasses` | `bitstream-opt` behind recovery | one action per pass, verifier included; `outcome` is its exit |
| `KernelSsa` | what `RecoverSemantics.cpp` reads off SSA values: constants, known branches, finite domains, combiners, projections of a load | operators on values, which are expression trees; in its last part the reference: the words each buffer, carried lane and store of a chain may hold |
| `LoopCoordinates` | which value is the item a kernel works on, `scf.while` lanes that count, walks, indices | operators on kernels |
| `AccessRecovery` | `bitstream-recover-access-graph` | a function from a chain of kernels to a pipeline: collection, boundary writes, propagated domains, pruning, materialization |
| `FactRecovery` | the same pass on fact groups | a function from stages with facts to a pipeline |
| `BitstreamOpt` | `bitstream-opt` from kernels or facts on | the variables `kernels` and `facts`; the action `BitstreamRecoverSemantics` beside those of `CompilerPasses` |

`JsonLemmas` (texts, words, tiles and scans), `CuEnumerationProofs`, `GpEnumerationProofs`,
`CtaKernelProofs` (fused kernels), `StageMajorProofs`, `StreamsProofs` (the programs of
`MCStreams`), `AlgorithmsProofs` (those of `MCAlgorithms`) and `CompilerProofs` (the passes behind
recovery) hold the proofs. The `MC…` modules give the
constants their values; `MCCompilerPasses` has the kernels and chains for recovery, in the
shapes of the workloads and of `mlir/bitstream/test/recover_*.mlir`. Three of the `MC…` modules are *sums*: `MCStreams`, `MCCtaKernels` and
`MCAlgorithms` instantiate several modules side by side, and a variable chosen
in the initial state (`benchmark`, `running`, `algorithm`) says which of them
runs. The programs are separate executables, so only the variables of the chosen
one move and the others hold the value "unused" (or an idle initial state, for
the module that is extended). A property of a sum says of each program what it
says in the program's own module, where it is written out and explained.

## 3. Modelling decisions

* **Bytes are classes.** A JSON text is a function from positions to
  {quote, slash, bracket, separator, other}; the kernels test for nothing else.
  `Utf8Check` works on byte values, at both sides of every bound the code tests.
* **A word is a set of bit numbers**, `WordBytes` of them instead of 32 or 64.
  That the shift-and-add sequences compute the operators of `JsonText` is
  checked by `WordAlgorithms`, whose overflow at the top bit is that of the code.
* **Steps.** In the enumeration kernels every load or store another thread can
  see is a step. The last load of a wait loop and the load it guards are one
  step: the flag does not change back within an epoch. Payload and flag stores
  are two steps, in order, because the code stores the flag with release
  semantics and loads it with acquire. In the kernels whose threads share
  nothing but an atomic counter, a thread (or warp, where lanes exchange values)
  is one step, and the threads run in any order. Between `__syncthreads`, every
  section that reads or writes shared memory is a step of each thread on its own.
* **Undefined values.** Shared memory at kernel start, and device buffers the
  host does not clear, start as any of two values that differ in every bit.
* **The UTF-8 check** inside the other kernels is a parameter, `FlaggedWords`: the
  words of a text that it flags. Which they are is the subject of `Utf8Check`; that
  the error word of a program says whether there is one, launch after launch, is that
  of `ErrorWordComplete` and of the output properties.
* **The regex kernel.** Its body has eight expressions with thirty character classes.
  Two short ones stand for it that have each form of statement in it (a chain of
  advances, a loop with a lower bound, one with an upper bound), over three classes,
  with the blocks, overlaps, barriers and shared arrays of the original.
* **Library code.** CUB's and thrust's scans are modelled by what they return;
  `ChunkPipelines` lets the scan associate the summaries in any way.
  Its buffers start with either of two leftovers in every element (`cudaMalloc` clears nothing).
* **The compiler.** Operands and attributes the passes compare are fields. Of
  `canonicalizeIndex` the model keeps what its callers use: whether the address can be
  followed, whether it varies, its constant (`LoopCoordinates`); the text it builds is
  compared nowhere. The window is a function of the read. Diagnostics and printing are left out.
* **Facts.** The frontend that writes facts is not in the repository. What it says of
  an expression (its text, the calls in it, its low bits) is taken to describe the
  whole expression, and an array read outside any expression to be a load fact.
* **Recovery.** An SSA value is the tree of the operations it is computed by,
  which identifies values as CSE does; a kernel is its loops in post-order and its
  loads and stores in order, each with the loop and the guards around it; what may
  be absent is a set with at most one element. The bounds on the depth of the
  searches (64 and more operations) are left out: no kernel here reaches them. The
  reference, the last part of `KernelSsa`, ignores addresses and the number of rounds, so its
  sets err on the large side: a domain it does not exceed is right. For
  projections it groups the words a load may give by what the kernel then does.
  `RECURSIVE` operators occur in these modules only; no theorem is about them.

## 4. Runs

| run | what it shows |
|---|---|
| `cu_enumeration` | In every interleaving of two resident CTAs over two launches: a flag of this epoch certifies a payload of this launch; published string words and the final bitmaps are right; no word has two owners; nobody waits for a task that no CTA holds; and the kernel implements `PrefixChain` under the mapping that takes the words whose flag has the current epoch as published. |
| `cu_enumeration_live` | The benchmark comes to its end: no readiness loop hangs. |
| `gp_enumeration` | The same safety for gpJSON's one-word-per-thread kernel, with every way the lanes of a warp may converge at `__activemask` and every order in which blocks become resident; votes are closed; the kernel implements `PrefixChain` too; if blocks start in order every launch returns, with more blocks than the device has room for. |
| `streams` | The programs made of kernels in stream order, two launches over the same buffers: recovery queues are exactly the mispredictions, concurrent recoveries do not undo each other, the state that enters each word or tile is that of a sequential scan, in-place rewriting reads nothing rewritten, the error word of a launch tells of every flagged word, all gpJSON programs and mappings leave the same bitmap, and outputs are right (in gpJSON outside the case of section 8). Where the escape they predict does no harm, the controls are right or report just the operators inside strings, so that one flip corrects them; in the prepared gpJSON program the division of the string stage by words agrees with that by bytes, and the result is right whenever the assertion it defines away would hold. |
| `cta_kernels` | Fused kernels: no thread sees a carry or a word of another tile, carries are right, words are right, nobody waits at a barrier for ever. FASTQ's reduction keeps the sum in every round. The regex kernel: a block computes its words as if they were shifted over the block alone, all threads leave a loop in one round, no match is reported that is none, and none is lost that no block start cuts. |
| `algorithms` | The oracles, word operations, XOR scan, UTF-8 check and chunk summaries against their reference definitions over all small inputs; the rows of the prepared cuJSON program, in place, with threads that run at different speeds. |
| `compiler_passes` | Recovery on 786 chains of two or three kernels and on 233 fact programs; the other passes on what it recovers and on some 3300 pipelines beside, in the runner's order with repetitions, and in any order: see section 1 for what is required. `DomainsBoundValues` and `ProjectionsSuffice` compare what recovery states with the words the kernels can compute and with what the statements of the facts compute. `SourceReadsHaveEdges` asks it of the source: each element a fact group reads has a read, and each read its edge. `RefusalsAreKnown`: in the runner's order a verifier refuses in the two cases of section 8 and in no other. |
| `gp_hierarchy_slash_segment`, `utf8_stray_continuation`, `recovered_word_xor`, `recovered_second_write`, `compiler_hidden_scan` | Each shows one disagreement between the code and what the repository says of it (section 8). |

Deadlock checking is off in every run because every program stops; the liveness
properties say that it stops where it should.

## 5. Bounds

Everything that matters here happens at a boundary, so every bound is the
smallest that has each kind of boundary and one element on both of its sides.

* *Enumeration (cuJSON):* words of 2 bytes, CTAs of 2 threads, 2 resident CTAs,
  inputs of up to 3 words (two chunks) next to one of a single chunk. The texts
  have a backslash run that fills a word, an escaped quote on a word boundary
  and a string that is open across chunks. One warmup and one run (epochs 1 and
  3), so that the second launch meets the flags of the first.
* *Enumeration (gpJSON):* 2 threads per block, room for 2 blocks, texts of up to
  5 words = 3 blocks, so that a block can be missing; 2 launches.
* *Streams:* 4 segments, scans by 2 threads, warps of 2, cuJSON blocks of 4, a
  recovery grid of one block that is smaller than the longest queue; targeted
  CTAs of 4 threads, texts of one to three tiles; every text of up to 3 bytes
  and families of backslash runs of 1 to 7 (15 for the tiles) bytes behind and
  in front of quotes. Two launches on the same buffers.
* *CTA kernels:* 6 threads in warps of 2 (a warp that depends on two others),
  one to three tiles with a tile of nothing but backslashes; the reduction with
  4 threads and chunks that leave threads idle, fill them, and wrap around.
  The regex kernel with 5 threads and units of 3 characters: texts of 20 with a
  match in each place relative to the block starts, and a repetition that spans blocks.
* *Algorithms:* every text of 4 bytes over 5 classes; every word of 6 bits after
  runs of up to 12 backslashes (two words); every vector of up to 9 parities over
  3 threads; every UTF-8 text of up to 4 boundary bytes in 4 alignments; CSV and
  FASTQ texts over two classes and up to three chunks; XML chunks that take every
  state to every state.
* *Compiler:* one buffer, one or two writing stages (kernel, scan, boundary
  flush), a reader with one or two reads of each shape the passes distinguish
  (same index, byte walk, `scf.while`, recurrence, opaque address), domains
  absent, 2 and 3, ids present, missing or clashing. The passes look at one edge
  at a time and compare it with its two ends, so two reads of one buffer are
  enough for every case in which one edge's result meets another's.
* *Recovery:* words of 2 bits, so that a domain of 2 is neither trivial nor the
  whole; chains writer, carrier, reader, because a domain is stated by the first,
  propagated through the second and used by the third. Writers make a bit in each
  way the pass recognizes (`andi` with 1, `extui` of a comparison, parity by
  `ctlz`, `scf.if`, masked, guarded, through a scratch buffer, by a sweep);
  carriers combine it by each recognized combiner, per thread with straight or
  permuted lanes, over all items with boundary store, as a tuple, in a backward
  walk or in a library scan; readers rebase by a chunk's carry, walk back, or read
  the item. Some stages write part of what the one before wrote.
* *Facts:* a load, two expressions of any form behind it, and stores of any of the
  three variables; a low bit or a count next to a second use or a second read of the
  element under the same, an aliased or an unknown index; two expressions that read
  elements without a load; groups out of order, not entered, or of another kind.
* `Warmups`, `Runs`, `Launches`, `MaxRun`, `MaxItems` and `MaxBytes` cap what
  the program or its input leaves open; nothing else is capped.

## 6. Fairness

* `CuEnumeration`: weak fairness of every thread and of the host. The launch is
  cooperative, so all CTAs are resident, and the target has independent thread
  scheduling, which gives every thread of a resident block progress.
* `GpEnumeration`: weak fairness of every resident thread, of a free slot being
  given to a block, and of the host. The launch is ordinary: nothing in CUDA
  promises the order in which blocks become resident, so termination is claimed
  only for runs in which they start in the order of their index (what devices do),
  and `Orders` contains both cases for the safety properties.
* Programs in which no thread spins (`streams`, `cta_kernels`): weak fairness of
  the next-state relation as a whole. A barrier disables a thread until the others
  arrive, so nothing can be starved by a loop, and a kernel ends if steps go on.
* The compiler and the algorithms need none: only safety is claimed.

## 7. Proofs

| theorem | for every … |
|---|---|
| `CountOracleIsCorrect`, `ToggleOracleIsCorrect` | text: both oracles compute the bitmaps of `JsonText` |
| `EnumerationTypeOK` | geometry, batch and number of launches of `CuEnumeration` |
| `EachWordHasOneOwner` | … no word is worked on by two threads |
| `FlagsCertifyPayloads` | … a flag with the current epoch certifies a payload of the current launch, though flags are never cleared |
| `SpeculationIsValidated` | … every published in-string word is the specified one |
| `OutputIsCorrect` | … when a launch has returned, the bitmaps are right for every word of every input |
| `WaitsAreAnswered` | … a thread in a readiness loop waits for a word that some CTA is working on or that is ready |
| `EnumerationImplementsChain` | … the kernel implements `PrefixChain`: the initial states map to initial states, every step to a step or a stutter |
| `GpEnumerationTypeOK` | geometry, batch, number of launches, room for blocks and set of start orders of `GpEnumeration` |
| `VotesAreClosed` | … of the lanes that vote together, each sees the set of its voters in the same way, however the warp converged |
| `GpFlagsCertifyPayloads`, `GpOutputIsCorrect` | … as for cuJSON: flags certify payloads, and a launch that has returned leaves the right bitmap |
| `GpEnumerationImplementsChain` | … gpJSON's kernel implements `PrefixChain` as well |
| `FusedSnapshotsOfOneTile` | text and number of threads and lanes of `FusedTiles`: what a thread copies out of shared memory is of its own tile |
| `FusedCarriesEnterTile` | … the carries a thread combines with its tile are the escape and the parity that enter it |
| `FusedResultsCorrect` | … every word that is emitted is the specified one, and every flagged word is counted |
| `GpInvariant`, `GpHierarchyIsRight` | text, grid, warp, mapping and number of launches of `GpHierarchy`: the inductive invariant, and all that `MCStreams` says of this program |
| `StreamsQueuesExact` | … and block, recovery grid and flagged words of `CuHierarchy`: the queue of either hierarchy holds the mispredicted items, each once |
| `HierarchyParityRecovered` | … a parity mask is right for every lane that has left the queue, in any order of recovery |
| `StreamsIncomingStates` | … what an item of either hierarchy is told, and what a thread of the targeted baseline combines with its tile, are the states of a sequential scan |
| `HierarchyOutputCorrect` | … all that cuJSON's `main()` compares is right after every launch |
| `ControlIsRightWherePredicted` | … the control is right, up to one flip, where it predicts the quotes right; its summaries of the backslashes compose to the escape that enters a word |
| `StreamsErrorsComplete` | … and of threads in a CTA of `StageMajor`: the error word of hierarchy, control and targeted baseline |
| `StageInvariant`, `StagesScanInclusively` | program, text and number of threads of `StageMajor`: the inductive invariant; the scan in place is the inclusive XOR of the tile |
| `BaselineInvariant`, `PreparedOutput` | text, grid and number of launches of `GpBaseline` and `PreparedGpjson`: the inductive invariant; right where the assertion holds |
| `GpControlIsRightWherePredicted` | … gpJSON's control is right, up to one flip, in every segment whose quotes it predicts right |
| `StreamsStringsReplaceQuotes` | … and threads of `StageMajor`: the row used in place holds what the threads and stages have left of it |
| `StreamsOutputsAreLookback` | … the gpJSON baseline and all mappings of the hierarchy leave the same bitmap |
| `StreamsOutputsCorrect` | text and geometry: what each program of `MCStreams` leaves is right in the sense of the property, and all buffers have their types |
| `ScanComputesPrefixXor` | number of entries, threads and parities: the three kernels leave the inclusive prefix XOR in place, in any order of the threads of each |
| `PrefixesAreStates` | program (CSV, FASTQ, XML), size of chunk and text: the prefix of the summaries applied to the initial state is the state of a sequential scan, in whatever association it was computed |
| `AppliedChunksAreCorrect` | … a chunk that has been applied keeps the count, or the whole words, of a sequential scan |
| `Utf8FlagsAreRight` | sequence of bytes: no thread flags what `validUtf8` accepts, and what none flags has third and fourth bytes exactly where its leads ask for them |
| `CompilerIsInvariant` | set of pipelines, in any order of the passes: `CompilerInv`, the inductive invariant |
| `FusionIsSound` | … what fusion calls legal is so for the source the compiler was given, as long as no scan hides behind a read |
| `DecisionIsRight` | … fusion is legal exactly if each edge of the source stays in one item or has finitely many states, where the projections of a read agree |
| `PassesAreIdempotent` | set of pipelines, in any order of the passes: a pass that is run twice in a row changes nothing the second time |
| `RefusalsAreRight` | … in the runner's order the verifiers refuse what a pass leaves exactly if a state of a scan was used for two domains, where the source has reads and none has two projections of one domain |

*Assumptions.* Only those named in the modules: positive geometry with warps
that divide the block, inputs that are texts, the epoch arithmetic that
`main()` enforces (`RUNS <= MAX_EPOCH - 100`, fewer than 100 warmups), and of the compiler
that what comes in is a pipeline (`SourcesAssumption`): lists of stages, accesses and
recurrences whose fields have their types.

*Oracles.* `OracleInv` says that the loop variables are the length of the maximal
backslash run before the position, whether the current byte is escaped, and
whether it is in a string, and that the output is right up to the position.
`JsonLemmas` supplies how these move by one byte. Cardinalities enter only
through the parity of the number of quotes. Kernels and oracles are both compared with `JsonText`,
hence with each other. The theorems speak of `AlgorithmsSpec`, when an oracle runs, as do the next
three paragraphs.

*Scan.* `ScanInv` gives each entry of the array its value between the three kernels: its own
parity, the prefix of its run, the prefix of the array, each for the threads that have run and
for those that have not.

*Staged baselines.* A summary stands for what a chunk does to the state (`Acts`): for CSV a parity, for FASTQ
a rotation, for XML a function of the state. `MergeMeans` says that the merge of two summaries
stands for doing one after the other, and `AssociationsMean` that therefore every association of
the summaries of adjacent chunks does, by the least length of one that does not. That prefix and reference are
defined at all, for every length, is shown the same way (`StatesExist`, `MergedExist`).
`ChunkInv` says of each chunk that has been read that its masks and its summary are its own, and of
each that has been applied that its words are those of the scan; that chunks end where words do
(`WordsWhole`) keeps them apart.

*UTF-8.* A thread checks four bytes against those before them. `LaneErrors` reduces the tables to a
condition on the bytes near one lane (`AsAsked`), `ValidExists` and `CharactersCover` take a text that
the reference accepts apart into characters, and `ValidAsAsked` compares the two.

*Enumeration.* The invariant is built in four layers, each using those before.
`TypeInv` adds to the types that the task list is a row-major enumeration of all
chunks (`Layout`). `OwnInv` says that a ticket held by a CTA is smaller than
the counter, that two CTAs never hold one ticket, and that a working thread's
word is that of its CTA's ticket; `OneOwner` alone is not inductive because it
does not say where the words come from. `FreshInv` says that a thread between
storing a payload and its flag has stored it in this launch, that registers hold
what their definition says (the lookback cursor has passed only words of
backslashes; the filtered quotes are the real ones), and that flags with this
epoch certify specified payloads; `FlagsMeanFresh` alone is not inductive because
a thread may stand between the payload and the flag. `OutInv` says that the
words of all tasks given out are finished or held by a working thread, so that at
the end all words are. `WaitsAreAnswered` follows from it: the predecessor of a
word lies in the same chunk or in an earlier task of the list, whose ticket is out.
For the refinement `ChainInv` adds that a thread selects its string word only
behind a published predecessor, which stays published within a launch; the only steps
that move the chain are the store of a string flag and `Launch`. `JsonLemmas` proves the word-level facts the steps
need: where the lookback stops, what the filter finds, that the selected candidate
is the specified string word.

*gpJSON's enumeration* has the same layers, without an owner per word (a thread has
its word for life). `VotersAgree` alone is not inductive: it does not say that a
voter is among its own voters, without which the masks of two groups could overlap,
nor that a block which has not started has no lane in a vote; `VoteInv` adds both.
`FreshInv` also says that a thread which has returned has left a current flag and its part
of the output, which is the output's correctness once all have. `ChainInv` is as above.

*Fused kernels.* The theorems speak of the specification of the run,
`CtaSpec`, when the fused kernel runs. `FusedInv` has three parts. `Place` says how far the
threads are apart between two barriers, a lane that has only to emit counting as one of
the next tile, and which sections exclude each other. `Carried` says
what shared memory and registers hold meanwhile: until when the counts of backslashes
and the totals of the warps are those of this tile (and, of the totals, whether they are scanned
yet), which carries are of this tile and which of the next, and what
each register was computed from. `Produced` says that the words written so
far are right and exactly which flagged words have been counted. None of the three properties is
inductive by itself, since each rests on a barrier that was passed two
sections before. Two facts about texts carry the argument: that an escape passes through
words of backslashes only (`EscapePasses`), and that the parity of the quotes of a tile is the
exclusive or of the parities of its words (`ParityOverWords`), which a scan over lanes
and warps computes in pieces (`OddCountSplit`, `OddCountOfRuns`).

*cuJSON's hierarchy.* The theorems speak of `StreamsSpec`, when the hierarchy runs.
`CuInv` follows a launch from kernel to kernel. `ClassesHold` and `QuotesHold` say on which
quotes the mask and the bitmap of a word stand: those predicted as long as the word is
*awaited* (the first two kernels, and during recovery as long as it has a position in the
queue that is pending), the real ones afterwards, and of the bitmap only until the last kernel has
corrected it. `Queued` says that the queue enumerates the mispredicted words of the
warps that have looked back. `QueueIsMispredictions` and `ParityRecovered` are not inductive: they
speak of the recovery alone, and that a bit is toggled once, from the right value, needs both the
queue that the second kernel built and the masks the first one left. `ScanHolds` says that
what the scan gave to each warp is the parity of all quotes before it. The lemmas: a lookback that
stops at the nearest word with another byte finds the escape that enters (`LookbackFinds`,
from `EscapeLeaves` and `EscapeOver`); that escape changes a quote exactly if a quote
follows the leading backslashes (`EscapeMatters`), so that a word is queued if and
only if its prediction is wrong (`RecoveryIsNeeded`); words appended by rank keep the queue free
of gaps and of duplicates (`AppendedInOrder`).

*Its control* runs the same first kernel, so `TokenizeWrites` serves both. `ControlHolds` says that
the words of the warps that have run are as predicted and that each summary of backslashes is that
of its word; `TransitionsCompose` reads the escape off the last word that has another byte, and
`PredictionUpToFlip` is the reason why one flip corrects a word.

*gpJSON's hierarchy.* For the three mappings, of `GpHierarchy`'s own `Spec` and, since every
step of `StreamsSpec` in this benchmark is one of it, of `StreamsSpec`. The byte loop is taken apart
first: a state that arrives at a byte depends on the run of backslashes before it (`LoopRunIsTheRun`),
loops over adjacent ranges compose (`LoopsCompose`, `RangesFollow`), and an incoming escape
changes at most the first quote that follows backslashes only (`EscapeChangesOne`). From these, the summaries that a warp
composes out of two words per segment are those of the loop over the segment (`SegmentOfTwoWords`). `GpInv` then follows a launch
like `CuInv`: `SummariesHold` for the items the first kernel has read, `GpQueued` for the
warps that have validated, `BitmapsHold` and `ParitiesHold` with the quotes *counted* for
an item, which are the predicted ones as long as its position in the queue is pending, and
`GpScanHolds`, which gives each entry of the scanned array its value between the three
kernels of the scan: its own parity, the prefix of its run, the prefix of the array
(`RunScans`, `TotalsScan`, `RunRebased`). None of `QueueExact`, `PrefixIsIncomingString` and
`OutputIsLookback` is inductive: each speaks of one kernel and rests on what all earlier ones
left. That items write whole words without touching each other's is `PutFacts`. `LookbackExact` is about texts alone: a lookback of one segment is enough as long as no
segment of backslashes other than the first lies before another one (`HidingSegment`).

*Its control* runs the first kernel alone, without clearing the counter that `GpQueued`
speaks of. `PassInv` is the part of `GpInv` which that kernel keeps by itself; the lemmas on
the kernel (`PassFirst`, `PassFirstByWarp`) are stated of it and serve both programs.
`GpPredictionUpToFlip` compares the operators outside the predicted strings of a segment
with those outside all of them (`RangeOutside`): they differ by the state that enters.

*gpJSON's baseline and prepared program.* One invariant serves both, because the steps of both
are steps of the same kernels on segments (`BaselineTakesSteps`, `GpjsonTakesSteps`); of the second this
includes that words dealt to threads are the words of the segments dealt to them
(`PreparedWords`). `BaseInv` says of each buffer what the threads that have run have left of
it: `CarriesHold` and `EscapesHold` (the escape that leaves a segment and the bytes escaped in
it), `RowHolds` (quotes in the segments that the string kernel has not reached, strings in the
others), `ScansHold` (the parities between the three kernels of the scan), `StructuralsHold` and
`BaseOutput`. `StringsReplaceQuotes` alone is not inductive: what a thread writes over its
quotes rests on the scanned parities and on the quotes of its own segment still being there. That an
assertion which holds in every segment excludes a hiding segment is `AssertionsExclude`.

*Stage-major kernels.* `StageInv` has four parts. `Place` says how the threads of a CTA lie apart:
those between two barriers are in phases that may meet, and in the kernels that carry a state they are
in one tile, one that has only to carry counting as one of the next. `Memory` says what shared
memory holds meanwhile: the backslashes of this tile, the carry until the thread that changes it
has passed, and in the scan that a lane which has done the rounds up to a distance d holds the
exclusive or of the d parities up to its own, so that a lane which reads before the barrier and one that
writes behind it do not meet in one round. `RowsRight` says for each word of each row which kernel
has passed it and what that kernel left: without it no kernel could take anything from the one before.
`ErrorsHold` counts the words flagged so far. `QuoteRowFollowsStages` and `CarryEntersTile` are not
inductive: what a stage finds rests on where all threads were when the kernel before it ended. `StreamsProofs` carries
the invariant over to `StreamsSpec`: it instantiates `StageMajorProofs` as `MCStreams` does
`StageMajor` and shows that the definitions of the two instances agree (`TargetedIsStage`).

*Compiler.* The passes run in any order, any number of times, and each may run on what others left. `CompilerInv`
says that the pipeline at hand is *derived* from the source: the same stages, accesses and recurrences up to
the ids, references, states and notes that passes fill in, and projections, repaired or not,
which stand for the same reads. Of the analysis it says that every read
of the source has an edge and every edge is of a read (`EdgesHold`, from `RawEdges` and
`GroupedFacts`: the grouping of edges by their ends loses none); of the inference, what an edge
of which it has proved something may rely on (`WellProven`), and that it has left none undecided (`Settled`). The loop of
the inference is a recursive function whose existence is shown first (`AfterExists`, `InferDone`).
`LegalIsSound` and `DecisionIsExact` are not inductive: they compare the decision of the last pass with the
source, which four passes have rewritten since. In the invariant the decision is
therefore stated of the source alone (`SoundEdge`, `ExactEdge`), so that it survives whatever pass runs
after it. Each of these two theorems (`FusionIsSound`, `DecisionIsRight`) has one hypothesis. `NothingHidden` excludes the case of section 8 in which a scan
hides behind a read. `ProjectionsAgree` says that projections of one read name one
domain: fusion passes over those of domain 1 while the inference takes the first.
`PassesAreIdempotent` adds `Stable` to the invariant: run again, the pass that ran last would change nothing. The ids
it gave are unique and so are kept (`RepairTwice`); the groups are in order already (`GroupTwice`); and the
inference reads of an edge only its ends and of the pipeline not the states it made, so it makes the same ones
whatever it finds (`InferTwice`).
`RefusalsAreRight` needs what the loop of the inference keeps about its states (`Tracks`): names are
unique, a proven edge refers to states of its own domain or to the one its scan shares, and that one has the domain of
the first edge that asked for it. So all references of an edge are to its domain exactly if the edges of
a scan agree (`InferenceVerifies`, `SharedRefused`). `Orderly` says where the passes stand: before the
inference no edge has a domain; after it the states and edges are `Fixed`, which a further inference, grouping
or fusion leaves as they are. Its hypothesis `Ordinary` excludes two refusals the property does not list:
a pipeline without reads (`FusionCandidateOp::verify` wants a stage) and two equal projections of a
read (section 8); no source of the run has either, before recovery or behind it. The other case of the property, an initial
state without a domain, comes from recovery: `Init` of the passes takes no such source. The theorems
speak of `CompilerPasses`' own `Spec`; the run checks the same definitions with recovery in front.

*Only model-checked.* Liveness (the prover does not do `ENABLED` and fairness).
`ResultsCorrect` of `MCCtaKernels`, which is about sums and matches that are defined by recursion over the
text; of the fused kernels alone `FusedResultsCorrect` states it. `ShiftsAndAddition` and
`PreparedRowsCorrect`: they compare a number with its bits, of which none of the
installed provers has a theory. Of the compiler what
`BitstreamOpt` says of recovery, whose values are trees: what a recursive operator computes for every tree is
out of reach (induction over data).

## 8. What the checks found

Each of these is reproduced by a run or described here with its line.

* `gp_hierarchy_slash_segment`: gpJSON's hierarchy takes the escape that enters
  a segment from the preceding segment alone (`hierarchical_common.cuh:309`). If
  that segment is all backslashes behind an odd run, the quote after it is
  wrong. The baseline has the same one-segment lookback
  (`original_gpjson.cuh:38`), so the programs agree with each other and differ
  from the oracle. `OutputsAreLookback` says exactly what they compute, and
  `OutputsCorrect` that it is right without such a segment. With
  the repository's grid a segment is hundreds of bytes on large inputs, a word on
  small ones.
* `utf8_stray_continuation`: the packed check overwrites `first_byte`
  (`cujson/include/hierarchical_common.cuh:43`), so a continuation byte behind an
  ASCII byte is accepted. The expression is that of the upstream program this
  code derives from. No valid text is flagged, and every accepted one has its
  third and fourth bytes in place (`Utf8FlagsAgree`).
* `recovered_word_xor`: a carried exclusive or keeps its constant initial value
  also when nothing bounds the words (`RecoverSemantics.cpp:3472`), and the verifier
  refuses an initial state without a domain. `mlir/bitstream/README.md:129` says an
  unproven update gets no claim. It is one of the two cases of `RefusalsAreKnown`.
* `recovered_second_write`: a second store to the same index is dropped as a
  duplicate although the value differs (`RecoverSemantics.cpp:3850`), and the write
  keeps the domain of the first.
* `compiler_hidden_scan`: a later stage that writes only the boundary of a buffer
  becomes its producer (`DependenceAnalysis.cpp:636`) and hides the scan that
  wrote the rest; fusion is then called legal with nothing proven about the scan.
* Without a run of their own, in the other passes: the inference caches states by
  scan and buffer and not by domain (`FiniteStateInference.cpp:463`), so that reads
  of one scan with two domains get an output the verifier of the edge refuses (the
  other case of `RefusalsAreKnown`); two
  equal projections of one read are accepted by
  their verifier and by the inference (`FiniteStateInference.cpp:226`), but
  refused by the verifier of the edge (`BitstreamOps.cpp:540`); a pipeline that
  reads nothing becomes a legal candidate without stages
  (`SpeculativeFusion.cpp:618`), which its verifier refuses
  (`BitstreamOps.cpp:576`). The sources of the passing run have neither of the last two.
* Without a run of their own, in `RecoverSemantics.cpp`, and kept out of the chains
  of the passing run: a store of bits to part of a buffer of words replaces the buffer's
  domain (3796); a projected recurrence may start outside its outcomes; the sign
  extension of a bit counts as {0, 1}; two uses of one index that each keep a
  single bit are recovered as one projection of domain 2 (3082, 3834, where
  `noExactReadEscapes` is computed and not used); the projection of a scratch buffer
  that is pruned stays without its read; an unsigned comparison of a negative
  constant is folded as a signed one (1797); a `scf.while` coordinate that starts at
  a constant makes constant indices "logical" (2378); the number of an after-lane is
  taken for that of an operand in the search for walks (2095).
* Without a run of their own, on the way from facts: whether a projected value escapes
  is asked of a variable and not of the element (401), so that of two loads of one
  element one keeps its projection though the other's word is used in full
  (`Readings` says what a projection may speak of); a low bit is recognized by the text
  `& 1`, which `& 15` contains; a variable is taken for its first definition when it
  is assigned again; an element of `int64_t` counts four bytes; the stages are sorted by an unstable
  sort; stores without a place in the source are dropped; backward walks are not recognized.
  Only the first is within the programs of the run.
* Prepared inputs: the cuJSON program has no word of padding, so that a sequence cut off at the
  end of an input whose size is a multiple of four raises no error
  (`inputs/cujson/cujson.cpp`); in the regex kernel most streams keep what the later of two
  overlapping blocks stored, whose first thread has no neighbour, so that a match
  across a block's start can be lost although it lies inside the overlap
  (`regex_0.cu:1108`); `UncutMatchesReported` says which are not.

No data race on shared memory was found in the fused and targeted kernels, though
they use fewer barriers than a line by line reading suggests: the mutants that
remove one show which barrier protects what.

## 9. Not modelled

* Of `RecoverSemantics.cpp`: accesses through affine maps (and the composition of
  their expressions), aliases and pointer slots of memrefs (a load from a slot takes
  the last store in walk order, whatever loops and branches are between), the linearized streams of
  BitGen, the choice of the driver function, the depth bounds of the searches, and dead
  branches around whole loops. Of the facts: `source_loop` and assignments, which
  recovery ignores, and the frontend, which is not in the repository.
* Parsing, printing and folding in the dialect; which operation wrote the text behind
  `canonicalByteAddress`.
* Of `regex_0.cu`: the tables of its character classes and the other six expressions.
* Timing, file reading, argument parsing, host allocation failures.
* Vendored, recorded and data files: `benchmarks/cujson/upstream`, the regex
  submodule, snapshots, analyses and measurement tables.

## 10. Plan

1. The rest of recovery: affine accesses, memref aliases and slots, BitGen's
   linearized streams, and kernels whose addresses the reference follows.
2. Theorems: the tree reduction of FASTQ; the regex kernel.
