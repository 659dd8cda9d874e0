---------------------------- MODULE NoValidation ----------------------------
(***************************************************************************)
(* The controls of the two hierarchies (speculation_no_validation.cu of    *)
(* gpJSON and of cuJSON): the first kernel alone, launch after launch,     *)
(* without validation, recovery or correction.  They measure what the      *)
(* predictions are worth: the drivers count the words they get right.      *)
(***************************************************************************)
EXTENDS GpHierarchy

CONSTANTS
  CuTexts, BlockThreads, RecoveryBlocks, FlaggedWords(_)     \* of CuHierarchy

VARIABLES
  operators, raw_open_close, structural, filtered_open_close,
  structural_counts, open_close_counts, trailing_slashes,
  quote_parity_masks, quote_warp_prefix, recovery_words, utf_error,
  slash_transitions       \* what the control of cuJSON leaves instead of trailing_slashes

Cu == INSTANCE CuHierarchy WITH Texts <- CuTexts

\* What only the validation and recovery kernels of cuJSON use.
CuUnused == <<trailing_slashes, structural_counts, open_close_counts, quote_warp_prefix,
              recovery_words, recovery_count>>

-----------------------------------------------------------------------------
(***************************************************************************)
(* gpJSON: the kernel of the coalesced mapping.                            *)
(***************************************************************************)
GpControlInit == Init /\ mapping = "coalesced"

GpControlLaunch ==
  /\ stage = "idle" /\ launch < Launches
  /\ launch' = launch + 1
  /\ stage' = "first" /\ pending' = Units("first")
  /\ UNCHANGED <<text, mapping, bitmaps, escapes, recovery, scan>>

GpControlEnds ==
  /\ stage = "first" /\ pending = {}
  /\ stage' = "idle"
  /\ UNCHANGED <<problem, pending, bitmaps, escapes, recovery, scan>>

GpControlNext ==
  \/ GpControlLaunch \/ GpControlEnds
  \/ \E i \in Items : First(i)
  \/ \E n \in Warps : FirstByWarp(n)

-----------------------------------------------------------------------------
(***************************************************************************)
(* cuJSON: the kernel noValidationRecoveryKernel.                          *)
(***************************************************************************)
CuControlInit == Cu!Init /\ slash_transitions = [w \in Cu!Words |-> 0]

CuControlLaunch ==
  /\ stage = "idle" /\ launch < Launches
  /\ launch' = launch + 1
  /\ stage' = "speculate" /\ pending' = Cu!Warps
  /\ UNCHANGED <<text, operators, raw_open_close, structural, filtered_open_close,
                 quote_parity_masks, utf_error, slash_transitions, CuUnused>>

CuControlEnds ==
  /\ stage = "speculate" /\ pending = {}
  /\ stage' = "idle"
  /\ UNCHANGED <<text, launch, pending, operators, raw_open_close, structural,
                 filtered_open_close, quote_parity_masks, utf_error, slash_transitions, CuUnused>>

\* What a word does with the escape that enters it: 1 hands it on, 0 ends it, 2
\* lets one out.
SlashTransition(w) ==
  LET trailing == TrailingOnes(SlashWord(text, w)) IN
  IF trailing = WordBytes THEN 1 ELSE 2 * (trailing % 2)

CuPredict(n) ==
  LET filtered    == [w \in Cu!Words |-> structural'[w] \cap raw_open_close'[w]]
      transitions == [w \in Cu!Words |-> SlashTransition(w)]
  IN
  /\ Cu!Tokenize(n)
  /\ filtered_open_close' = Cu!OfWarp(n, filtered_open_close, filtered)
  /\ slash_transitions'   = Cu!OfWarp(n, slash_transitions, transitions)
  /\ UNCHANGED CuUnused

CuControlNext ==
  \/ CuControlLaunch \/ CuControlEnds
  \/ \E n \in Cu!Warps : CuPredict(n)

-----------------------------------------------------------------------------
\* The escape with which a range is entered changes none of its quotes.
GpEscapeHarmless(i) ==
  QuotesFrom(text, ItemStart(i), ItemEnd(i), PredictedEscape)
    = RealQuotes(text) \cap ByteRange(text, ItemStart(i), ItemEnd(i))

\* gpJSON's control is right in the segments that an open string enters, and in those
\* that none enters it reports exactly the operators inside strings, as long as the
\* escape predicted is harmless: what the hierarchy needs to correct it by one flip.
GpControlRight ==
  LaunchComplete =>
    \A i \in 0 .. Active - 1 :
      LET words    == WordsOf(ItemStart(i), ItemEnd(i))
          entered  == IncomingString(text, ItemStart(i))
          reported == structural_out \cap words
      IN  GpEscapeHarmless(i) =>
            reported = IF entered THEN Structural(text) \cap words
                       ELSE (Operators(text) \ Structural(text)) \cap words

\* The same of cuJSON's, which predicts that no string enters; and its summaries of the
\* backslashes, composed word after word, say which escape enters a word.
CuControlRight ==
  Cu!LaunchComplete =>
    \A w \in Cu!Words :
      LET entered == IncomingString(text, w * WordBytes)
          ends    == {p \in 0 .. w - 1 : slash_transitions[p] # 1}
      IN
      /\ w < WordCount(text) /\ Cu!QuotesGiven(w, 0) = Cu!TrueQuotes(w) =>
           /\ structural[w] = IF entered THEN OperatorWord(text, w) \ StructuralWord(text, w)
                              ELSE StructuralWord(text, w)
           /\ filtered_open_close[w] = structural[w] \cap OpenCloseWord(text, w)
      /\ LET escape == IF ends = {} THEN 0
                       ELSE slash_transitions[CHOOSE p \in ends : \A q \in ends : q <= p] \div 2
         IN  w < WordCount(text) => Cu!TrueQuotes(w) = Cu!QuotesGiven(w, escape)

=============================================================================
