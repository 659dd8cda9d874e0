---------------------------- MODULE CuHierarchy -----------------------------
(***************************************************************************)
(* cuJSON hierarchical speculation                                         *)
(* (benchmarks/cujson/src/hierarchical_speculation.cu), on one input: a    *)
(* first kernel tokenizes every word as if no escape and no string entered *)
(* it; a second one looks back for the escape that does and queues the     *)
(* words where it changes a quote; a third one recomputes the queued       *)
(* words; a scan of the quote parities and a last kernel correct the words *)
(* that a string enters.                                                   *)
(*                                                                         *)
(* Every input has buffers and a stream of its own, on which its kernels   *)
(* run one after the other, launch after launch.  Inside a kernel the      *)
(* warps, or the threads of a kernel whose lanes exchange nothing, run in  *)
(* any order.                                                              *)
(***************************************************************************)
EXTENDS JsonText

CONSTANTS
  Texts,
  BlockThreads,      \* FULL_THREADS
  WarpSize,
  RecoveryBlocks,    \* the most blocks of the recovery kernel, 192 in the code
  Launches,          \* warmups and measured runs
  FlaggedWords(_)    \* the words of an input that the UTF-8 check finds in error

CuHierarchyAssumption ==
  /\ \A t \in Texts : IsText(t)
  /\ WarpSize \in Nat \ {0}
  /\ BlockThreads \in Nat \ {0} /\ BlockThreads % WarpSize = 0
  /\ RecoveryBlocks \in Nat \ {0}
  /\ Launches \in Nat \ {0}

VARIABLES
  text,
  launch,
  stage,                   \* the kernel that is running, or "idle"
  pending,                 \* its warps, threads or queue positions still to run
  operators, raw_open_close, structural, filtered_open_close,
  structural_counts, open_close_counts,
  trailing_slashes,
  quote_parity_masks,      \* of every warp, the lanes with an odd number of quotes
  quote_warp_prefix,
  recovery_words, recovery_count,
  utf_error

problem  == <<text, launch>>
schedule == <<stage, pending>>
raw      == <<operators, raw_open_close, trailing_slashes>>
outputs  == <<filtered_open_close, structural_counts, open_close_counts>>
recovery == <<recovery_words, recovery_count>>
vars     == <<problem, schedule, raw, structural, outputs,
              quote_parity_masks, quote_warp_prefix, recovery, utf_error>>

-----------------------------------------------------------------------------
(***************************************************************************)
(* The layout of main(): one padding word at least, whole blocks.          *)
(***************************************************************************)
Blocks      == (WordCount(text) + 1 + BlockThreads - 1) \div BlockThreads
PaddedWords == Blocks * BlockThreads
PaddedWarps == PaddedWords \div WarpSize

Words == 0 .. PaddedWords - 1
Warps == 0 .. PaddedWarps - 1
WarpWords(n) == (n * WarpSize) .. ((n + 1) * WarpSize - 1)
Lane(w) == w % WarpSize

\* The distance between two queue positions of a thread of the recovery kernel.
RecoveryStride ==
  BlockThreads * (IF Blocks < RecoveryBlocks THEN Blocks ELSE RecoveryBlocks)

Units(kernel) ==
  CASE kernel \in {"speculate", "lookback"} -> Warps
    [] kernel = "recover"  -> 0 .. recovery_count - 1
    [] kernel = "scan"     -> {0}
    [] kernel = "validate" -> Words

Following ==
  [speculate |-> "lookback", lookback |-> "recover", recover |-> "scan", scan |-> "validate"]

Init ==
  /\ text \in Texts
  /\ launch = 0 /\ stage = "idle" /\ pending = {}
  /\ utf_error = FALSE                    \* cleared once, before the first launch
  \* cudaMalloc leaves every other buffer undefined
  /\ \E garbage \in {0, 1} :
       LET bits == {b \in Bits : garbage = 1} IN
       /\ operators           = [w \in Words |-> bits]
       /\ raw_open_close      = [w \in Words |-> bits]
       /\ structural          = [w \in Words |-> bits]
       /\ filtered_open_close = [w \in Words |-> bits]
       /\ structural_counts   = [w \in Words |-> garbage]
       /\ open_close_counts   = [w \in Words |-> garbage]
       /\ trailing_slashes    = [w \in Words |-> garbage]
       /\ quote_parity_masks  = [n \in Warps |-> {l \in 0 .. WarpSize - 1 : garbage = 1}]
       /\ quote_warp_prefix   = [n \in Warps |-> garbage]
       /\ recovery_words      = [k \in Words |-> 0]
       /\ recovery_count      = garbage

\* cudaMemsetAsync(recovery_count, 0)
CountAtLaunch == 0

\* launchHierarchical
Launch ==
  /\ stage = "idle" /\ launch < Launches
  /\ launch' = launch + 1
  /\ stage' = "speculate" /\ pending' = Units("speculate")
  /\ recovery_count' = CountAtLaunch
  /\ UNCHANGED <<text, raw, structural, outputs, quote_parity_masks, quote_warp_prefix,
                 recovery_words, utf_error>>

NextKernel ==
  /\ stage # "idle" /\ pending = {}
  /\ IF stage = "validate"
     THEN stage' = "idle" /\ pending' = {}
     ELSE stage' = Following[stage] /\ pending' = Units(Following[stage])
  /\ UNCHANGED <<problem, raw, structural, outputs, quote_parity_masks, quote_warp_prefix,
                 recovery, utf_error>>

Runs(kernel, unit) ==
  /\ stage = kernel /\ unit \in pending
  /\ pending' = pending \ {unit}
  /\ UNCHANGED <<problem, stage>>

-----------------------------------------------------------------------------
(***************************************************************************)
(* F1: every word is tokenized for incoming escape 0 and string state 0.   *)
(***************************************************************************)

\* The quotes of a word entered with this escape; the filter is skipped where no
\* quote follows a backslash.
QuotesGiven(w, escape) ==
  LET quote    == QuoteWord(text, w)
      slash    == SlashWord(text, w)
      possible == IF escape = 1 THEN PossibleEscaped(quote, slash)
                  ELSE {b \in quote : b - 1 \in slash}
  IN IF possible = {} THEN quote ELSE FilterEscapedQuotes(quote, slash, escape)

\* The operators of a word outside its strings, if no string enters it.
Outside(w, quotes, operator) == Invert(PrefixXor(quotes)) \cap operator

\* The old values of a buffer, and the new ones for the words of warp n.
OfWarp(n, old, new) == [w \in Words |-> IF w \in WarpWords(n) THEN new[w] ELSE old[w]]

\* atomicOr of what cujsonValidateUtf8FourBytes (Utf8Check) finds in each word
UtfErrorAfter(n) == utf_error \/ WarpWords(n) \cap FlaggedWords(text) # {}

\* What the first kernel and the control without validation do alike.
Tokenize(n) ==
  LET operatorWord  == [w \in Words |-> OperatorWord(text, w)]
      openCloseWord == [w \in Words |-> OpenCloseWord(text, w)]
      predicted     == [w \in Words |-> Outside(w, QuotesGiven(w, 0), OperatorWord(text, w))]
  IN
  /\ Runs("speculate", n)
  /\ operators'        = OfWarp(n, operators, operatorWord)
  /\ raw_open_close'   = OfWarp(n, raw_open_close, openCloseWord)
  /\ structural'       = OfWarp(n, structural, predicted)
  /\ quote_parity_masks' = [quote_parity_masks EXCEPT
       ![n] = {Lane(w) : w \in {v \in WarpWords(n) : Parity(QuotesGiven(v, 0)) = 1}}]
  /\ utf_error' = UtfErrorAfter(n)

Speculate(n) ==
  LET trailing == [w \in Words |-> TrailingOnes(SlashWord(text, w))] IN
  /\ Tokenize(n)
  /\ trailing_slashes' = OfWarp(n, trailing_slashes, trailing)
  /\ UNCHANGED <<outputs, quote_warp_prefix, recovery>>

(***************************************************************************)
(* Validation of the escape: a word of backslashes only is looked through. *)
(***************************************************************************)
\* Mutant: the word just before is always the one that counts.
LookbackWord_One(w) == w - 1

LookbackWord(w) ==
  CHOOSE p \in 0 .. w - 1 :
    /\ p = 0 \/ trailing_slashes[p] # WordBytes
    /\ \A q \in p + 1 .. w - 1 : trailing_slashes[q] = WordBytes

\* input[byte_start + leading_slashes] is a quote, still in the word.
FirstNonSlashIsQuote(w) ==
  \E b \in QuoteWord(text, w) : \A a \in 0 .. b - 1 : a \in SlashWord(text, w)

NeedsRecovery(w) ==
  /\ w < WordCount(text) /\ w # 0
  /\ trailing_slashes[LookbackWord(w)] % 2 = 1
  /\ FirstNonSlashIsQuote(w)

\* The misses of a warp are appended together, in lane order.
LookbackAndValidate(n) ==
  LET misses  == {w \in WarpWords(n) : NeedsRecovery(w)}
      slot(w) == recovery_count + Cardinality({v \in misses : v < w})
  IN
  /\ Runs("lookback", n)
  /\ recovery_count' = recovery_count + Cardinality(misses)
  /\ recovery_words' = [k \in Words |->
                          IF \E w \in misses : slot(w) = k
                          THEN CHOOSE w \in misses : slot(w) = k
                          ELSE recovery_words[k]]
  /\ UNCHANGED <<raw, structural, outputs, quote_parity_masks, quote_warp_prefix, utf_error>>

(***************************************************************************)
(* Recovery of the queued words; a thread takes its positions in order.    *)
(***************************************************************************)
\* Mutant: the parity of the recovered word is left as predicted.
ParityChanges_Never(w) == FALSE

ParityChanges(w) == Parity(QuotesGiven(w, 0)) # Parity(QuotesGiven(w, 1))

RecoverEscapedQuotes(position) ==
  LET w == recovery_words[position] IN
  /\ position - RecoveryStride \notin pending
  /\ Runs("recover", position)
  /\ quote_parity_masks' =
       IF ParityChanges(w)
       THEN [quote_parity_masks EXCEPT ![w \div WarpSize] = SymDiff(@, {Lane(w)})]
       ELSE quote_parity_masks
  /\ structural' = [structural EXCEPT ![w] = Outside(w, QuotesGiven(w, 1), operators[w])]
  /\ UNCHANGED <<raw, outputs, quote_warp_prefix, recovery, utf_error>>

(***************************************************************************)
(* cub::DeviceScan::ExclusiveScan over the parities of the warps.          *)
(***************************************************************************)
QuoteWarpParity(n) == Cardinality(quote_parity_masks[n]) % 2

ScannedBefore(n) == 0 .. n - 1

ExclusiveScan ==
  /\ Runs("scan", 0)
  /\ quote_warp_prefix' = [n \in Warps |->
       Cardinality({m \in ScannedBefore(n) : QuoteWarpParity(m) = 1}) % 2]
  /\ UNCHANGED <<raw, structural, outputs, quote_parity_masks, recovery, utf_error>>

(***************************************************************************)
(* Validation of the string state: a wrong prediction flips the operators. *)
(***************************************************************************)
\* Mutant: the lanes up to the thread's own.
LowerLanes_Inclusive(w) == 0 .. Lane(w)

LowerLanes(w) == 0 .. Lane(w) - 1

Incoming(w) ==
  (quote_warp_prefix[w \div WarpSize]
     + Cardinality(quote_parity_masks[w \div WarpSize] \cap LowerLanes(w))) % 2

ValidateAndRecoverInString(w) ==
  LET corrected == SymDiff(structural[w], IF Incoming(w) = 1 THEN operators[w] ELSE {})
      filtered  == corrected \cap raw_open_close[w]
  IN
  /\ Runs("validate", w)
  /\ structural'          = [structural EXCEPT ![w] = corrected]
  /\ filtered_open_close' = [filtered_open_close EXCEPT ![w] = filtered]
  /\ structural_counts'   = [structural_counts EXCEPT ![w] = Cardinality(corrected)]
  /\ open_close_counts'   = [open_close_counts EXCEPT ![w] = Cardinality(filtered)]
  /\ UNCHANGED <<raw, quote_parity_masks, quote_warp_prefix, recovery, utf_error>>

-----------------------------------------------------------------------------
Next ==
  \/ Launch \/ NextKernel \/ ExclusiveScan
  \/ \E n \in Warps : Speculate(n) \/ LookbackAndValidate(n)
  \/ \E position \in pending : RecoverEscapedQuotes(position)
  \/ \E w \in Words : ValidateAndRecoverInString(w)

Spec == Init /\ [][Next]_vars

-----------------------------------------------------------------------------
\* The type of every buffer.
TypeOK ==
  /\ text \in Texts /\ launch \in 0 .. Launches
  /\ stage \in DOMAIN Following \cup {"idle", "validate"}
  /\ pending \subseteq Words
  /\ \A bitmap \in {operators, raw_open_close, structural, filtered_open_close} :
       bitmap \in [Words -> SUBSET Bits]
  /\ \A counts \in {structural_counts, open_close_counts, trailing_slashes} :
       counts \in [Words -> 0 .. WordBytes]
  /\ quote_parity_masks \in [Warps -> SUBSET (0 .. WarpSize - 1)]
  /\ quote_warp_prefix \in [Warps -> {0, 1}]
  /\ recovery_words \in [Words -> Words]
  /\ recovery_count \in 0 .. PaddedWords
  /\ utf_error \in BOOLEAN

\* The quotes of word w that no odd run of backslashes escapes, however far back
\* the run begins.
TrueQuotes(w) == WordOf(RealQuotes(text), w)

\* The queue the warps fill concurrently holds every word predicted wrong exactly
\* once: words of backslashes are looked through all the way, and nothing of the
\* launch before is left.
QueueIsMispredictions ==
  stage = "recover" =>
    /\ \A j, k \in 0 .. recovery_count - 1 : j # k => recovery_words[j] # recovery_words[k]
    /\ {recovery_words[k] : k \in 0 .. recovery_count - 1} =
         {w \in Words : TrueQuotes(w) # QuotesGiven(w, 0)}

\* While words are recovered in any order, the parity mask of a warp is right for
\* every lane except those still in the queue: no recovery undoes another one's bit.
ParityRecovered ==
  stage = "recover" =>
    \A w \in Words :
      (\A k \in pending : recovery_words[k] # w) =>
        (Lane(w) \in quote_parity_masks[w \div WarpSize] <=> Parity(TrueQuotes(w)) = 1)

\* The scan over warps and the lanes below a thread give the string state that
\* enters its word.
IncomingIsStringState ==
  stage = "validate" =>
    \A w \in Words : w < WordCount(text) =>
      (Incoming(w) = 1 <=> IncomingString(text, w * WordBytes))

\* From the end of the first kernel on, launch after launch, the error word says
\* whether some word of the input, the padding included, is in error.
ErrorWordComplete ==
  launch > 0 /\ stage # "speculate" =>
    (utf_error <=> Words \cap FlaggedWords(text) # {})

LaunchComplete == launch > 0 /\ stage = "idle"

\* What main() compares with its oracle is right after every launch, for every
\* input, and the counts are those of the bitmaps.
OutputCorrect ==
  LaunchComplete =>
    \A w \in Words :
      /\ structural[w] = StructuralWord(text, w)
      /\ filtered_open_close[w] = OpenCloseResult(text, w)
      /\ structural_counts[w] = Cardinality(StructuralWord(text, w))
      /\ open_close_counts[w] = Cardinality(OpenCloseResult(text, w))

=============================================================================
