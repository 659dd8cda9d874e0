---------------------------- MODULE MCCtaKernels ----------------------------
(***************************************************************************)
(* The kernels that one CTA runs alone, with barriers: a fused kernel, the *)
(* count of one FASTQ chunk or BitGen's regular expressions.  One of them  *)
(* is launched; the variables of the others stay unused.  Words of two     *)
(* bytes.                                                                  *)
(*                                                                         *)
(* Fused: six threads in warps of two, so that the last warp depends on    *)
(* the totals of two others; inputs of up to 12 bytes take one tile -- in  *)
(* cuJSON, where one more word flushes the UTF-8 state, 12 bytes take two  *)
(* -- and the longest one, whose second tile is all backslashes, three.    *)
(* Reduction: four threads, two rounds, and every mask of one, six or      *)
(* seven bytes.                                                            *)
(* Regex: five threads and units of three characters, so that the blocks   *)
(* of the first loop start at 0, 9 and 18 and those of the others at 0 and *)
(* 12; matches with and without a block start inside, in each of their     *)
(* parts.                                                                  *)
(***************************************************************************)
EXTENDS FusedTiles, Sequences

CONSTANTS
  Launchable, BlockSize, Chunks,
  RegexTexts, UnitBits, BlockDim, FirstOverlap, Overlap    \* of RegexBlocks

VARIABLES
  running,
  newline, stride, sh, newline_count, chunk_mod,   \* of CtaReduction
  garbage, loop, block, step, regs, flip, advance_memory, any_bit,  \* of RegexBlocks
  alt, at_2_in_a_row, within, accum, test, bs_result

Reduction == INSTANCE CtaReduction
Regex     == INSTANCE RegexBlocks WITH Texts <- RegexTexts

ASSUME Reduction!ReductionAssumption
ASSUME Regex!RegexAssumption
ASSUME Launchable \subseteq {"fused", "reduction", "regex"}

OfFused == <<program, tile, shared, local, output>>
OfReduction == <<newline, stride, sh, newline_count, chunk_mod>>
OfRegex == <<garbage, loop, block, step, regs, flip, advance_memory, any_bit,
             alt, at_2_in_a_row, within, accum, test, bs_result>>

allVars == <<running, pc, text, OfFused, OfReduction, OfRegex>>

Unused(v) == v = "unused"

UnusedFused ==
  /\ Unused(program) /\ Unused(tile) /\ Unused(local)
  /\ Unused(shared_slashes) /\ Unused(shared_warp_quote_parity)
  /\ Unused(previous_tile_escape) /\ Unused(previous_tile_quote_parity)
  /\ Unused(structural) /\ Unused(open_close)
  /\ Unused(input_utf_error) /\ Unused(utf_error)

UnusedReduction ==
  /\ Unused(newline) /\ Unused(stride) /\ Unused(sh)
  /\ Unused(newline_count) /\ Unused(chunk_mod)

UnusedRegex ==
  /\ Unused(garbage) /\ Unused(loop) /\ Unused(block) /\ Unused(step) /\ Unused(regs)
  /\ Unused(flip) /\ Unused(advance_memory) /\ Unused(any_bit) /\ Unused(alt)
  /\ Unused(at_2_in_a_row) /\ Unused(within) /\ Unused(accum) /\ Unused(test)
  /\ Unused(bs_result)

CtaInit ==
  /\ running \in Launchable
  /\ \/ running = "fused" /\ Init /\ UnusedReduction /\ UnusedRegex
     \/ running = "reduction" /\ Reduction!Init /\ UnusedFused /\ UnusedRegex /\ Unused(text)
     \/ running = "regex" /\ Regex!Init /\ UnusedFused /\ UnusedReduction

CtaNext ==
  \/ running = "fused" /\ Next /\ UNCHANGED <<running, OfReduction, OfRegex>>
  \/ running = "reduction" /\ Reduction!Next /\ UNCHANGED <<running, text, OfFused, OfRegex>>
  \/ running = "regex" /\ Regex!Next /\ UNCHANGED <<running, OfFused, OfReduction>>

\* The fairness of the kernel that is launched.
CtaSpec == CtaInit /\ [][CtaNext]_allVars /\ WF_allVars(CtaNext)

-----------------------------------------------------------------------------
\* However far the threads of a fused CTA are apart, the registers of a thread that has
\* looked back are those of its own tile.
FusedSnapshots == running = "fused" => SnapshotsOfOneTile

\* When the threads of a fused CTA take their snapshots, the carries are the escape and
\* the parity with which a sequential scan arrives at the tile.
FusedCarries == running = "fused" => CarriesEnterTile

\* What is left in global memory is right: every word a fused thread has left behind,
\* also while others are at work, the error word of the input, and the count of the
\* chunk, of which no newline is lost or counted twice between two rounds.  Of the regular
\* expressions only matches are reported, and every match that no block start cuts: what
\* crosses from thread to thread is never a word of another advance, a round of the
\* repetition is judged by all threads alike, and lanes behind the input disturb nothing.
ResultsCorrect ==
  /\ running = "fused" => TypeOK /\ EmittedWordsCorrect /\ StoredErrorComplete
  /\ running = "reduction" => Reduction!TypeOK /\ Reduction!RoundsKeepTheSum /\ Reduction!PublishedCount
  /\ running = "regex" =>
       /\ Regex!TypeOK /\ Regex!BlockWordsCorrect /\ Regex!RoundsAgree
       /\ Regex!NoFalseMatch /\ Regex!UncutMatchesReported

\* No thread waits for ever at a barrier, and the repetition comes to an end.
KernelsEnd ==
  <>(/\ running = "fused" => Exited
     /\ running = "reduction" => Reduction!Counted
     /\ running = "regex" => Regex!Exited)

-----------------------------------------------------------------------------
T(bytes) == [p \in 0 .. Len(bytes) - 1 |-> bytes[p + 1]]

RunAcross(before, n, after) == T(before \o [k \in 1 .. n |-> "slash"] \o after)

\* a string in every warp, and one that is open at the end of the tile
Strings == T(<<"quote", "bracket", "other", "quote", "quote", "bracket", "separator", "quote",
               "bracket", "quote", "bracket", "other", "bracket", "quote", "bracket">>)

MCTexts ==
  {T(<<>>), T(<<"slash", "quote", "bracket">>), Strings}
  \cup
  {RunAcross(<<"bracket", "quote">>, n, <<"quote", "bracket", "quote", "bracket">>) : n \in {6, 9, 10}}
  \cup
  {RunAcross(<<"quote">>, 23, <<"quote", "bracket">>)}

\* an error that only the padding reveals, one in the middle of the last tile
MCFlaggedWords(t) ==
  CASE t = Strings   -> {WordCount(t)}
    [] Size(t) > 20  -> {Threads + 1}
    [] OTHER         -> {}

\* n characters, all c but the body from position k on
Placed(body, k, n, c) ==
  T([i \in 1 .. k |-> c] \o body \o [i \in 1 .. n - k - Len(body) |-> c])

Bounded(n) == <<"b">> \o [i \in 1 .. n |-> "a"] \o <<"a", "a", "a", "b">>

\* cut in the repetition; repeated up to a start of the second loop; a match of either
\* expression, the second cut in its tail by the last loop alone; one long repetition
MCRegexTexts ==
  {Placed(Bounded(2), k, 20, "newline") : k \in {8, 9}}
  \cup {Placed(<<"b", "a", "a", "b">> \o Bounded(0), 5, 14, "newline"),
        Placed(Bounded(1), 3, 12, "a")}

MCChunks == UNION {[0 .. n - 1 -> BOOLEAN] : n \in {1, 6, 7}}

=============================================================================
