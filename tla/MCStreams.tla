----------------------------- MODULE MCStreams ------------------------------
(***************************************************************************)
(* The benchmarks that launch kernels one after the other on a stream: one *)
(* is run, on one input, and the buffers of the others stay unused.  Words *)
(* of two bytes, warps of two lanes.                                       *)
(*                                                                         *)
(* gpJSON: a grid of four threads, so that texts of up to eight bytes have *)
(* segments of one word, and the longer ones segments of two, which the    *)
(* coalesced mapping deals to warps.  cuJSON: blocks of four threads, so   *)
(* that texts of up to three words fit one block, the longer ones take     *)
(* two; and fewer threads in the recovery kernel than the longest queue,   *)
(* so that a thread recovers more than one word.  Targeted baselines: CTAs *)
(* of four threads, two rounds of the scan, inputs of one to three tiles.  *)
(* The gpJSON program prepared for the compiler: as the baseline.          *)
(***************************************************************************)
EXTENDS NoValidation, Sequences

CONSTANTS
  Benchmarks,
  BaselineTexts, TargetedTexts,
  TileThreads, Programs                \* of StageMajor

VARIABLES
  benchmark,
  \* buffers of GpBaseline
  escape_bitmap, quote_or_string_bitmap, quote_carry, structural_bitmap,
  \* variables of StageMajor
  program, kernel, pc, tile, local,
  shared_slashes, shared_quote_parity, shared_utf_error, previous_tile,
  slash_bitmap, quote_bitmap, real_quote_bitmap, in_string_bitmap,
  operator_bitmap, open_close_bitmap

Baseline == INSTANCE GpBaseline WITH Texts <- BaselineTexts
Targeted == INSTANCE StageMajor WITH Texts <- TargetedTexts, Threads <- TileThreads
Gpjson   == INSTANCE PreparedGpjson WITH Texts <- BaselineTexts

ASSUME BaselineAssumed == Baseline!BaselineAssumption
ASSUME CuAssumed == Cu!CuHierarchyAssumption
ASSUME TargetedAssumed == Targeted!TilesAssumption
ASSUME Benchmarks \subseteq {"gp_hierarchy", "gp_control", "gp_baseline", "gp_input",
                             "cu_hierarchy", "cu_control", "targeted"}

OfHierarchy ==
  <<mapping, bitmaps, escape_changes_quote, quote_parity, recovery_items>>
OfBaseline ==
  <<escape_bitmap, quote_or_string_bitmap, quote_carry, structural_bitmap>>
OfCu ==
  <<operators, raw_open_close, structural, filtered_open_close, structural_counts,
    open_close_counts, trailing_slashes, quote_parity_masks, quote_warp_prefix, recovery_words>>
OfTargeted ==
  <<program, kernel, pc, tile, local, shared_slashes, shared_quote_parity,
    shared_utf_error, previous_tile, slash_bitmap, quote_bitmap, real_quote_bitmap,
    in_string_bitmap, operator_bitmap, open_close_bitmap>>

\* What several benchmarks have.
OfLaunches == <<launch, stage, pending>>
OfSegments == <<escape_carry, xor_bases>>
OfErrors   == <<utf_error>>

allVars == <<benchmark, vars, OfBaseline, OfCu, slash_transitions, OfErrors, OfTargeted>>

Unused(v) == v = "unused"

UnusedHierarchy ==
  /\ Unused(mapping) /\ Unused(raw_structural) /\ Unused(structural_out)
  /\ Unused(escape_changes_quote) /\ Unused(quote_parity) /\ Unused(recovery_items)

UnusedBaseline ==
  /\ Unused(escape_bitmap) /\ Unused(quote_or_string_bitmap)
  /\ Unused(quote_carry) /\ Unused(structural_bitmap)

UnusedCu ==
  /\ Unused(operators) /\ Unused(raw_open_close) /\ Unused(structural)
  /\ Unused(filtered_open_close) /\ Unused(structural_counts) /\ Unused(open_close_counts)
  /\ Unused(trailing_slashes) /\ Unused(quote_parity_masks) /\ Unused(quote_warp_prefix)
  /\ Unused(recovery_words)

UnusedTargeted ==
  /\ Unused(program) /\ Unused(kernel) /\ Unused(pc) /\ Unused(tile)
  /\ Unused(local) /\ Unused(shared_slashes) /\ Unused(shared_quote_parity)
  /\ Unused(shared_utf_error) /\ Unused(previous_tile) /\ Unused(slash_bitmap)
  /\ Unused(quote_bitmap) /\ Unused(real_quote_bitmap) /\ Unused(in_string_bitmap)
  /\ Unused(operator_bitmap) /\ Unused(open_close_bitmap)

UnusedLaunches == Unused(launch) /\ Unused(stage) /\ Unused(pending)
UnusedSegments == Unused(escape_carry) /\ Unused(xor_bases)

StreamsInit ==
  /\ benchmark \in Benchmarks
  /\ benchmark # "cu_control" => Unused(slash_transitions)
  /\ \/ /\ \/ benchmark = "gp_hierarchy" /\ Init
           \/ benchmark = "gp_control" /\ GpControlInit
        /\ UnusedBaseline /\ UnusedCu /\ UnusedTargeted /\ Unused(utf_error)
     \/ /\ \/ benchmark = "gp_baseline" /\ Baseline!Init
           \/ benchmark = "gp_input" /\ Gpjson!Init
        /\ UnusedHierarchy /\ UnusedCu /\ UnusedTargeted
        /\ Unused(recovery_count) /\ Unused(utf_error)
     \/ /\ \/ benchmark = "cu_hierarchy" /\ Cu!Init
           \/ benchmark = "cu_control" /\ CuControlInit
        /\ UnusedHierarchy /\ UnusedBaseline /\ UnusedTargeted /\ UnusedSegments
     \/ /\ benchmark = "targeted" /\ Targeted!Init
        /\ UnusedHierarchy /\ UnusedBaseline /\ UnusedCu
        /\ UnusedLaunches /\ UnusedSegments /\ Unused(recovery_count)

StreamsNext ==
  \/ /\ \/ benchmark = "gp_hierarchy" /\ Next
        \/ benchmark = "gp_control" /\ GpControlNext
     /\ UNCHANGED <<benchmark, OfBaseline, OfCu, slash_transitions, OfErrors, OfTargeted>>
  \/ /\ \/ benchmark = "gp_baseline" /\ Baseline!Next
        \/ benchmark = "gp_input" /\ Gpjson!gpjson_driver
     /\ UNCHANGED <<benchmark, OfHierarchy, OfCu, slash_transitions, OfErrors, OfTargeted,
                    recovery_count>>
  \/ /\ \/ benchmark = "cu_hierarchy" /\ Cu!Next /\ UNCHANGED slash_transitions
        \/ benchmark = "cu_control" /\ CuControlNext
     /\ UNCHANGED <<benchmark, OfHierarchy, OfBaseline, OfTargeted, OfSegments>>
  \/ /\ benchmark = "targeted" /\ Targeted!Next
     /\ UNCHANGED <<benchmark, OfHierarchy, OfBaseline, OfCu, slash_transitions, OfLaunches,
                    OfSegments, recovery_count>>

\* The stream of the benchmark goes on, with a step of one thread or another.
StreamsSpec == StreamsInit /\ [][StreamsNext]_allVars /\ WF_allVars(StreamsNext)

-----------------------------------------------------------------------------
\* Every buffer of the benchmark that runs has its type.
StreamsTypeOK ==
  /\ benchmark \in {"gp_hierarchy", "gp_control"} => TypeOK
  /\ benchmark \in {"gp_baseline", "gp_input"} => Baseline!TypeOK
  /\ benchmark \in {"cu_hierarchy", "cu_control"} => Cu!TypeOK
  /\ benchmark = "targeted" => Targeted!TypeOK

\* In both hierarchies the queue that the warps fill concurrently holds what the
\* prediction of the escape missed, each item once, and nothing of the launch before;
\* gpJSON decides it from summaries that describe one and the same prediction.
QueuesExact ==
  /\ benchmark = "gp_hierarchy" => FirstPassSummaries /\ QueueExact
  /\ benchmark = "cu_hierarchy" => Cu!QueueIsMispredictions

\* While cuJSON recovers words in any order, no recovery undoes the parity bit that
\* another one of the same warp has corrected.
ParityRecovered == benchmark = "cu_hierarchy" => Cu!ParityRecovered

\* What each item of both hierarchies is told by the scan is the string state that
\* enters it; what a thread of the targeted baseline is about to combine with its tile
\* are the escape and the parity with which a sequential scan arrives there, and the
\* inclusive XOR of the parities of the tile.
IncomingStates ==
  /\ benchmark = "gp_hierarchy" => PrefixIsIncomingString
  /\ benchmark = "cu_hierarchy" => Cu!IncomingIsStringState
  /\ benchmark = "targeted" => Targeted!CarryEntersTile /\ Targeted!ScanIsInclusive

\* The threads of the gpJSON baseline that overwrite the quotes with strings in place
\* do not read each other's words, also when they divide words instead of bytes.  In the
\* targeted baseline, word by word, each stage finds what the one before it left in the
\* row that gpJSON overwrites.
StringsReplaceQuotes ==
  /\ benchmark \in {"gp_baseline", "gp_input"} => Baseline!StringsReplaceQuotes
  /\ benchmark = "gp_input" => Gpjson!DivisionsAgree
  /\ benchmark = "targeted" => Targeted!QuoteRowFollowsStages

\* The error word of a cuJSON input counts all its threads: in the hierarchy and the
\* control it is collected in global memory, launch after launch, in the targeted
\* baseline a thread publishes it for the others.
ErrorWordComplete ==
  /\ benchmark \in {"cu_hierarchy", "cu_control"} => Cu!ErrorWordComplete
  /\ benchmark = "targeted" => Targeted!ErrorWordComplete

\* The gpJSON baseline and all mappings of the hierarchy leave the same bitmap,
\* whatever the order of the threads and the launch before: the tokenization with
\* the escape that enters a segment taken from the segment before it alone.
OutputsAreLookback ==
  /\ benchmark = "gp_hierarchy" => OutputIsLookback
  /\ benchmark = "gp_baseline" => Baseline!OutputIsLookback

\* What the harness compares with its oracle is right after every launch: in cuJSON
\* for every input, in gpJSON for every one without a whole segment of backslashes; the
\* controls are right exactly where their predictions are; and at every moment the
\* buffers have their types.
OutputsCorrect ==
  /\ StreamsTypeOK
  /\ benchmark = "gp_hierarchy" => CorrectWithoutSlashSegments
  /\ benchmark = "gp_baseline" => Baseline!CorrectWithoutSlashSegments
  /\ benchmark = "cu_hierarchy" => Cu!OutputCorrect
  /\ benchmark = "targeted" => Targeted!OutputCorrect
  /\ benchmark = "gp_control" => GpControlRight
  /\ benchmark = "cu_control" => CuControlRight
  /\ benchmark = "gp_input" => Gpjson!RightIfAsserted

\* No thread of the targeted baseline waits for ever at a barrier, and every kernel of
\* a batch is launched; the hierarchies, their controls and the gpJSON baseline finish what they launch.
StreamsDrain ==
  <>[](IF benchmark = "targeted" THEN Targeted!BatchDone ELSE stage = "idle")

-----------------------------------------------------------------------------
T(bytes) == [p \in 0 .. Len(bytes) - 1 |-> bytes[p + 1]]

Slashes(n) == [k \in 1 .. n |-> "slash"]

TextsOf(sizes) == UNION {[0 .. n - 1 -> {"slash", "quote", "bracket"}] : n \in sizes}

\* a bracket first, a run of n backslashes, the end of a string
Run(before, n, after) == T(<<"bracket">> \o before \o Slashes(n) \o after)

MCTexts ==
  TextsOf({0, 1, 3})
  \cup
  {Run(before, n, after) :
     before \in {<<>>, <<"quote">>, <<"quote", "other">>},
     n \in {1, 2, 3},
     after \in {<<"quote", "bracket">>, <<"quote", "quote", "bracket", "slash", "quote">>}}
  \cup
  {Run(before, n, after) :
     before \in {<<"quote">>, <<"quote", "other">>},
     n \in {1, 4, 5, 7},
     after \in {<<"quote", "bracket", "slash", "quote", "bracket", "quote">>}}

MCBaselineTexts ==
  TextsOf({0, 3})
  \cup
  {Run(before, n, after) :
     before \in {<<>>, <<"quote">>, <<"quote", "quote">>}, n \in 0 .. 5,
     after \in {<<"quote", "bracket", "slash", "quote", "bracket">>,
                <<"quote", "bracket", "quote", "bracket", "quote">>}}

\* a misprediction in every word
Mispredicted ==
  T(<<"other", "slash", "quote", "slash", "quote", "slash", "quote", "slash",
      "quote", "slash", "quote", "bracket">>)

MCCuTexts ==
  TextsOf(0 .. 3)
  \cup
  {T(before \o Slashes(n) \o <<"quote", "bracket", "separator", "quote">>) :
     before \in {<<"bracket">>, <<"quote", "bracket">>}, n \in 1 .. 5}
  \cup
  {Mispredicted, T(<<"bracket", "quote", "other", "bracket", "quote", "other">>)}

\* a string that is open between two tiles
OpenString == T(<<"quote", "bracket", "other", "quote", "quote", "bracket", "separator", "bracket",
                  "bracket", "quote", "bracket", "other">>)

\* a run that ends where a tile ends, and one that covers a whole tile
MCTargetedTexts ==
  {T(<<>>), OpenString,
   T(<<"other", "bracket", "quote">> \o Slashes(5) \o <<"quote", "bracket">>),
   T(<<"quote">> \o Slashes(15) \o <<"quote", "bracket">>)}

\* A byte that is not ASCII and stands alone at the beginning or at the end of a text is
\* an error, at the end of the word after it when it is the last byte of its own.
MCFlaggedWords(t) ==
  LET alone(p) == p \in DOMAIN t /\ t[p] = "other" IN
  {w \in {0} : alone(0)} \cup {w \in {Size(t) \div WordBytes} : alone(Size(t) - 1)}

\* An odd run, a whole segment of backslashes, a quote it escapes.
SlashSegmentTexts ==
  {T(<<"quote", "slash", "slash", "slash", "quote", "bracket">>)}

=============================================================================
