---------------------------- MODULE GpHierarchy -----------------------------
(***************************************************************************)
(* gpJSON hierarchical speculation                                         *)
(* (benchmarks/gpjson/include/hierarchical_common.cuh): a first pass       *)
(* predicts, in every segment, that no escape and an open string enter it; *)
(* a validation pass queues the segments whose quotes a wrong escape       *)
(* changes; a recovery pass recomputes the queued ones; a prefix XOR of    *)
(* the quote parities gives the string state that enters each segment, and *)
(* a last pass flips the segments it was predicted wrong for.              *)
(*                                                                         *)
(* The kernels of a launch run one after the other on one stream.  Inside  *)
(* a kernel, the threads -- or the warps, where the threads of a warp      *)
(* exchange values -- run in any order: none writes what another reads,    *)
(* except through the recovery counter.  The buffers are those of the      *)
(* previous launch on the same input.                                      *)
(***************************************************************************)
EXTENDS GpSegments

CONSTANTS
  Texts,         \* inputs
  Mappings,      \* a subset of AllMappings
  WarpSize,
  ScanThreads,
  Launches       \* warmups and measured runs

\* gpLaunchCorrectedHierarchyOriginalMapping, ...CoalescedFirst, ...WordMapping
AllMappings == {"original", "coalesced", "word"}

ASSUME HierarchyAssumption ==
  /\ \A text \in Texts : IsText(text)
  /\ Mappings \subseteq AllMappings
  /\ WarpSize \in Nat \ {0} /\ WarpSize % 2 = 0 /\ Segments % WarpSize = 0
  /\ ScanThreads \in Nat \ {0} /\ Segments % ScanThreads = 0
  /\ Launches \in Nat \ {0}

VARIABLES
  text, mapping,
  launch,
  stage,                 \* the kernel that is running, or "idle"
  pending,               \* its threads or warps that have not run yet
  raw_structural, structural_out,
  escape_carry, escape_changes_quote,
  quote_parity,          \* quote_parity_or_prefix
  recovery_items, recovery_count,
  xor_bases

problem   == <<text, mapping, launch>>
schedule  == <<stage, pending>>
bitmaps   == <<raw_structural, structural_out>>
escapes   == <<escape_carry, escape_changes_quote>>
recovery  == <<recovery_items, recovery_count>>
scan      == <<quote_parity, xor_bases>>
vars      == <<problem, schedule, bitmaps, escapes, recovery, scan>>

Scan == INSTANCE XorScan WITH values <- quote_parity, bases <- xor_bases

(***************************************************************************)
(* Items: the segments, or in the word mapping the words.                  *)
(***************************************************************************)
ItemBytes == IF mapping = "word" THEN WordBytes ELSE SegmentBytes(text)

Active == CeilDiv(Size(text), ItemBytes)

\* The entries the three scan kernels are given.
ScanCount == IF mapping = "word" THEN Scan!PaddedScanCount(WordCount(text)) ELSE Segments

\* The threads of a kernel that takes one item per thread.
Items == 0 .. (IF mapping = "word" THEN Active ELSE Segments) - 1

ItemStart(i) == i * ItemBytes
ItemEnd(i)   == (i + 1) * ItemBytes

WordsPerSegment == SegmentBytes(text) \div WordBytes

\* gpHierarchyCoalescedSegmentFirstKernel on segments of two words: the words of
\* 32 segments are dealt to a warp.
ByWarp == mapping = "coalesced" /\ WordsPerSegment = 2

WarpItems(n) == (n * WarpSize) .. ((n + 1) * WarpSize - 1)

\* Whole warps cover the items: the grid in the segment mappings, blocks of
\* whole warps in the word mapping.
Warps == 0 .. (IF mapping = "word" THEN CeilDiv(Active, WarpSize) ELSE Segments \div WarpSize) - 1

\* The bit positions of the words of a byte range that exist.
WordsOf(from, to) ==
  {p \in 0 .. WordCount(text) * WordBytes - 1 : from <= p /\ p < to}

-----------------------------------------------------------------------------
(***************************************************************************)
(* The stream: memsets and kernels in the order they are launched.         *)
(***************************************************************************)
Units(next) ==
  CASE next = "first" /\ ByWarp -> Warps
    [] next = "first" /\ ~ByWarp -> Items
    [] next = "apply"    -> Items
    [] next = "collect"  -> Warps
    [] next = "recover"  -> 0 .. recovery_count - 1
    [] next \in {"prescan", "rebase"} -> Scan!ScanLanes
    [] next = "postscan" -> {0}

Following ==
  [first |-> "collect", collect |-> "recover", recover |-> "prescan",
   prescan |-> "postscan", postscan |-> "rebase", rebase |-> "apply"]

Init ==
  /\ text \in Texts /\ mapping \in Mappings
  /\ launch = 0 /\ stage = "idle" /\ pending = {}
  \* cudaMalloc leaves every buffer undefined
  /\ \E garbage \in {0, 1} :
       /\ raw_structural = {p \in 0 .. WordCount(text) * WordBytes - 1 : garbage = 1}
       /\ structural_out = {p \in 0 .. WordCount(text) * WordBytes - 1 : garbage = 1}
       /\ LET entries == 0 .. (IF mapping = "word" THEN ScanCount ELSE Segments) - 1
          IN /\ escape_carry = [i \in entries |-> garbage]
             /\ escape_changes_quote = [i \in entries |-> garbage]
             /\ quote_parity = [i \in entries |-> garbage]
       /\ recovery_items = [i \in 0 .. Active - 1 |-> 0]
       /\ recovery_count = garbage
       /\ xor_bases = [t \in Scan!ScanLanes |-> garbage]

\* cudaMemsetAsync(recovery_count, 0)
CountAtLaunch == 0

\* The word mapping clears the entries between its words and the scan count.
PaddingCleared == IF mapping = "word" THEN WordCount(text) .. ScanCount - 1 ELSE {}

Launch ==
  /\ stage = "idle" /\ launch < Launches
  \* gpLaunchCorrectedHierarchyWordMapping returns before its memset
  /\ mapping = "word" => WordCount(text) > 0
  /\ launch' = launch + 1
  /\ stage' = "first" /\ pending' = Units("first")
  /\ recovery_count' = CountAtLaunch
  /\ quote_parity' = [i \in DOMAIN quote_parity |->
                        IF i \in PaddingCleared THEN 0 ELSE quote_parity[i]]
  /\ UNCHANGED <<text, mapping, bitmaps, escapes, recovery_items, xor_bases>>

NextKernel ==
  /\ stage # "idle" /\ pending = {}
  /\ IF stage = "apply"
     THEN stage' = "idle" /\ pending' = {}
     ELSE stage' = Following[stage] /\ pending' = Units(Following[stage])
  /\ UNCHANGED <<problem, bitmaps, escapes, recovery, scan>>

\* Some part of a kernel that has not run yet runs.
Runs(kernel, unit) ==
  /\ stage = kernel /\ unit \in pending
  /\ pending' = pending \ {unit}
  /\ UNCHANGED <<problem, stage>>

-----------------------------------------------------------------------------
(***************************************************************************)
(* F1: one pass over the bytes, predicting escape 0 and string state 1.    *)
(***************************************************************************)
PredictedEscape == 0
PredictedString == 1

FlagOf(condition) == IF condition THEN 1 ELSE 0

Put(bitmap, range, bits) == (bitmap \ range) \cup bits

OperatorsIn(from, to) == {p \in ByteRange(text, from, to) : IsOperator(text[p])}

ParityOf(quotes) == Cardinality(quotes) % 2

\* gpHierarchyOriginalFirstKernel, gpHierarchyWordFirstKernel, and the coalesced
\* kernel on segments of one word; a thread past the input writes zeros.
First(i) ==
  LET from   == ItemStart(i)
      to     == ItemEnd(i)
      quotes == QuotesFrom(text, from, to, PredictedEscape)
  IN
  /\ ~ByWarp /\ Runs("first", i)
  /\ raw_structural' = Put(raw_structural, WordsOf(from, to), OperatorsIn(from, to))
  /\ structural_out' = Put(structural_out, WordsOf(from, to),
                           OutsideStrings(OperatorsIn(from, to), quotes, PredictedString))
  /\ escape_carry' = [escape_carry EXCEPT
                        ![i] = OutgoingEscape(text, from, to, PredictedEscape)]
  /\ quote_parity' = [quote_parity EXCEPT ![i] = ParityOf(quotes)]
  /\ escape_changes_quote' = [escape_changes_quote EXCEPT
                                ![i] = FlagOf(FirstNonSlashQuote(text, from, to) # {})]
  /\ UNCHANGED <<recovery, xor_bases>>

\* gpHierarchyClassifyCoalescedWord: a word entered with escape 0, and the one
\* quote that escape 1 would change.
ClassifiedWord(w) ==
  LET from == w * WordBytes
      to   == (w + 1) * WordBytes
  IN [quotes   |-> QuotesFrom(text, from, to, PredictedEscape),
      changed  |-> FirstNonSlashQuote(text, from, to),
      outgoing |-> OutgoingEscape(text, from, to, PredictedEscape),
      slashes  |-> AllSlashes(text, from, to)]

\* outgoing ^ (first_outgoing & all_slashes)
ComposedEscape(first, second) ==
  Scan!Xor(second.outgoing, IF second.slashes THEN first.outgoing ELSE 0)

\* The odd lane composes its word with the word of the even lane below it.
SecondQuotes(first, second) ==
  IF first.outgoing = 1 THEN SymDiff(second.quotes, second.changed) ELSE second.quotes

FirstByWarp(n) ==
  LET segments  == WarpItems(n)
      first(s)  == ClassifiedWord(2 * s)
      second(s) == ClassifiedWord(2 * s + 1)
      middle(s) == ItemStart(s) + WordBytes
      from      == ItemStart(n * WarpSize)
      to        == ItemEnd((n + 1) * WarpSize - 1)
  IN
  /\ ByWarp /\ Runs("first", n)
  /\ raw_structural' = Put(raw_structural, WordsOf(from, to), OperatorsIn(from, to))
  /\ structural_out' =
       Put(structural_out, WordsOf(from, to),
           UNION {OutsideStrings(OperatorsIn(ItemStart(s), middle(s)),
                                 first(s).quotes, PredictedString)
                  \cup
                  OutsideStrings(OperatorsIn(middle(s), ItemEnd(s)),
                                 SecondQuotes(first(s), second(s)),
                                 Scan!Xor(PredictedString, ParityOf(first(s).quotes)))
                  : s \in segments})
  /\ escape_carry' = [s \in DOMAIN escape_carry |->
       IF s \in segments THEN ComposedEscape(first(s), second(s)) ELSE escape_carry[s]]
  /\ quote_parity' = [s \in DOMAIN quote_parity |->
       IF s \in segments
       THEN Scan!Xor(ParityOf(first(s).quotes), ParityOf(SecondQuotes(first(s), second(s))))
       ELSE quote_parity[s]]
  /\ escape_changes_quote' = [s \in DOMAIN escape_changes_quote |->
       IF s \in segments
       THEN FlagOf((IF first(s).slashes THEN second(s) ELSE first(s)).changed # {})
       ELSE escape_changes_quote[s]]
  /\ UNCHANGED <<recovery, xor_bases>>

(***************************************************************************)
(* Validation: an escape state predicted wrong is a miss only where it     *)
(* changes a quote.  The misses of a warp are appended together.           *)
(***************************************************************************)
IncomingEscape(i) == IF i = 0 THEN 0 ELSE escape_carry[i - 1]

NeedsRecovery(i) ==
  IncomingEscape(i) # PredictedEscape /\ escape_changes_quote[i] # 0

\* The leader's atomicAdd reserves a slot for every miss of the warp.
Collect(n) ==
  LET misses  == {i \in WarpItems(n) : i < Active /\ NeedsRecovery(i)}
      slot(i) == recovery_count + Cardinality({j \in misses : j < i})
  IN
  /\ Runs("collect", n)
  /\ recovery_count' = recovery_count + Cardinality(misses)
  /\ recovery_items' = [k \in DOMAIN recovery_items |->
                          IF \E i \in misses : slot(i) = k
                          THEN CHOOSE i \in misses : slot(i) = k
                          ELSE recovery_items[k]]
  /\ UNCHANGED <<bitmaps, escapes, scan>>

(***************************************************************************)
(* F2: the persistent threads walk the queue; an item is read again with   *)
(* escape 1, and its operators come from the first pass.                   *)
(***************************************************************************)
\* Mutant: the recovery starts from the state it has just found wrong.
RecoveredEscape_Predicted == 0

RecoveredEscape == 1

Recover(position) ==
  LET i      == recovery_items[position]
      quotes == QuotesFrom(text, ItemStart(i), ItemEnd(i), RecoveredEscape)
      words  == WordsOf(ItemStart(i), ItemEnd(i))
  IN
  /\ Runs("recover", position)
  /\ structural_out' = Put(structural_out, words,
                           OutsideStrings(raw_structural \cap words, quotes, PredictedString))
  /\ quote_parity' = [quote_parity EXCEPT ![i] = ParityOf(quotes)]
  /\ UNCHANGED <<raw_structural, escapes, recovery, xor_bases>>

(***************************************************************************)
(* The prefix XOR of the parities, and the final correction.               *)
(***************************************************************************)
PreScan(t) ==
  /\ Runs("prescan", t)
  /\ Scan!PreScan(t, ScanCount)
  /\ UNCHANGED <<bitmaps, escapes, recovery>>

PostScan ==
  /\ Runs("postscan", 0)
  /\ Scan!PostScan(ScanCount)
  /\ UNCHANGED <<bitmaps, escapes, recovery>>

Rebase(t) ==
  /\ Runs("rebase", t)
  /\ Scan!Rebase(t, ScanCount)
  /\ UNCHANGED <<bitmaps, escapes, recovery>>

\* Mutant: the prefix is taken to be exclusive.
StringPrefix_Exclusive(i) == quote_parity[i]

\* inclusive_quote_prefix[segment_id - 1]
StringPrefix(i) == IF i = 0 THEN 0 ELSE quote_parity[i - 1]

ApplyString(i) ==
  LET words == WordsOf(ItemStart(i), ItemEnd(i)) IN
  /\ Runs("apply", i)
  /\ structural_out' =
       IF ItemStart(i) < Size(text) /\ StringPrefix(i) # PredictedString
       THEN SymDiff(structural_out, raw_structural \cap words)
       ELSE structural_out
  /\ UNCHANGED <<raw_structural, escapes, recovery, scan>>

-----------------------------------------------------------------------------
Next ==
  \/ Launch \/ NextKernel
  \/ \E i \in Items : First(i) \/ ApplyString(i)
  \/ \E n \in Warps : FirstByWarp(n) \/ Collect(n)
  \/ \E position \in pending : Recover(position)
  \/ \E t \in Scan!ScanLanes : PreScan(t) \/ Rebase(t)
  \/ PostScan

Spec == Init /\ [][Next]_vars

-----------------------------------------------------------------------------
Stages == DOMAIN Following \cup {"idle", "apply"}

TypeOK ==
  /\ text \in Texts /\ mapping \in Mappings
  /\ launch \in 0 .. Launches
  /\ stage \in Stages
  /\ pending \subseteq Nat
  /\ raw_structural \subseteq Nat /\ structural_out \subseteq Nat
  /\ escape_carry \in [DOMAIN quote_parity -> {0, 1}]
  /\ escape_changes_quote \in [DOMAIN quote_parity -> {0, 1}]
  /\ quote_parity \in [DOMAIN quote_parity -> {0, 1}]
  /\ recovery_items \in [0 .. Active - 1 -> Items \cup {0}]
  /\ recovery_count \in Nat
  /\ xor_bases \in [Scan!ScanLanes -> {0, 1}]

\* Whichever kernel has run the first pass, in whatever order, validation finds
\* the summaries of the segments entered with escape 0.
FirstPassSummaries ==
  stage \in {"collect", "recover"} =>
    \A i \in 0 .. Active - 1 :
      /\ escape_carry[i] = OutgoingEscape(text, ItemStart(i), ItemEnd(i), 0)
      /\ escape_changes_quote[i] = 1 <=>
           QuotesFrom(text, ItemStart(i), ItemEnd(i), 0)
             # QuotesFrom(text, ItemStart(i), ItemEnd(i), 1)

\* The queue that the warps append to concurrently holds every missed segment
\* exactly once, and nothing of an earlier launch.
QueueExact ==
  stage = "recover" =>
    /\ recovery_count <= Active
    /\ \A j, k \in 0 .. recovery_count - 1 :
         j # k => recovery_items[j] # recovery_items[k]
    /\ {recovery_items[k] : k \in 0 .. recovery_count - 1} =
         {i \in 0 .. Active - 1 : NeedsRecovery(i)}

\* After the scan each segment reads the string state that enters it, for the
\* quotes that the one-segment lookback finds.
PrefixIsIncomingString ==
  stage = "apply" =>
    \A i \in 0 .. Active - 1 :
      StringPrefix(i) = ParityOf({q \in LookbackQuotes(text, ItemBytes) : q < ItemStart(i)})

LaunchComplete == launch > 0 /\ stage = "idle"

\* What is left in structural_out does not depend on the mapping, the order of
\* the threads or the launch before: it is the tokenization with the escape
\* that enters a segment taken from the previous segment alone.
OutputIsLookback ==
  LaunchComplete => structural_out = LookbackStructural(text, ItemBytes)

\* The output is right for every input without a whole segment of backslashes.
CorrectWithoutSlashSegments ==
  LaunchComplete /\ ~SlashSegment(text, ItemBytes) => structural_out = Structural(text)

\* What gpSinglePrint expects of the driver for every input.
OutputCorrect == LaunchComplete => structural_out = Structural(text)

=============================================================================
