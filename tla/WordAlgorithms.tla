--------------------------- MODULE WordAlgorithms ----------------------------
(***************************************************************************)
(* The shift-and-add sequences by which the kernels compute the word       *)
(* operations of module JsonText                                           *)
(* (benchmarks/cujson/include/hierarchical_common.cuh,                     *)
(* benchmarks/gpjson/include/control_common.cuh), run over a stream of     *)
(* words: the escape out of a word is the escape into the next one.        *)
(***************************************************************************)
EXTENDS JsonText

Sets == INSTANCE FiniteSetsExt

CONSTANT MaxRun     \* bound: backslashes in front of a word

MaxRunAssumption == MaxRun \in Nat

VARIABLES
  slash, quote,     \* the bitmaps of the current word
  escape,           \* the escape state that enters it
  run               \* history: the backslashes just before it

vars == <<slash, quote, escape, run>>

-----------------------------------------------------------------------------
Shl(word, n) == {b \in Bits : b - n \in word}

NumberOf(word) == Sets!MapThenSumSet(LAMBDA b : 2^b, word)

\* Addition of machine words: the carry out of the top bit is lost.
Add(a, b) ==
  LET sum == (NumberOf(a) + NumberOf(b)) % 2^WordBytes
  IN  {k \in Bits : (sum \div 2^k) % 2 = 1}

BitIf(flag) == IF flag = 1 THEN {0} ELSE {}

even_bits == {b \in Bits : b % 2 = 0}
odd_bits  == Bits \ even_bits

\* Mutant: a backslash that is itself escaped starts a run.
EscapedByShiftAdd_Unmasked(slash_word, incoming_escape) ==
  LET possible_escaped    == Shl(slash_word, 1) \cup BitIf(incoming_escape)
      odd_sequence        == (slash_word \cap odd_bits) \ possible_escaped
      sequence_start_even == Add(odd_sequence, slash_word)
  IN  SymDiff(even_bits, Shl(sequence_start_even, 1)) \cap possible_escaped

\* gpFilterEscapedQuotes64, fullFilterEscapedQuotesWord up to the last line.
EscapedByShiftAdd(slash_word, incoming_escape) ==
  LET slashes             == slash_word \ BitIf(incoming_escape)
      possible_escaped    == Shl(slashes, 1) \cup BitIf(incoming_escape)
      odd_sequence        == (slashes \cap odd_bits) \ possible_escaped
      sequence_start_even == Add(odd_sequence, slashes)
  IN  SymDiff(even_bits, Shl(sequence_start_even, 1)) \cap possible_escaped

\* The shifts 1, 2, 4, ... of the prefix XOR.
Doublings(k) == 2^k < WordBytes

\* gpPrefixXor64, fullPrefixXorWord
PrefixXorByShifts(word) ==
  LET after[k \in 0 .. WordBytes] ==
        IF k = 0 THEN word
        ELSE IF Doublings(k - 1)
             THEN SymDiff(after[k - 1], Shl(after[k - 1], 2^(k - 1)))
             ELSE after[k - 1]
  IN  after[WordBytes]

\* gpOutgoingEscape
OutgoingEscape(slash_word, incoming_escape) ==
  LET trailing == TrailingOnes(slash_word)
  IN  IF trailing = WordBytes THEN incoming_escape ELSE trailing % 2

\* quote & ((slash << 1) | 1), the test that saves cuJSON the lookback.
MayBeEscaped(quotes, slashes) == quotes \cap (Shl(slashes, 1) \cup {0})

-----------------------------------------------------------------------------
IsWord(s, q) == s \subseteq Bits /\ q \subseteq Bits /\ s \cap q = {}

Init ==
  /\ escape = 0 /\ run = 0
  /\ \E s \in SUBSET Bits : \E q \in SUBSET (Bits \ s) : slash = s /\ quote = q

\* The next word of the stream.
Step ==
  /\ escape' = OutgoingEscape(slash, escape)
  /\ run' = IF slash = AllOnes THEN run + WordBytes ELSE TrailingOnes(slash)
  /\ run' <= MaxRun
  /\ \E s \in SUBSET Bits : \E q \in SUBSET (Bits \ s) : slash' = s /\ quote' = q

Spec == Init /\ [][Step]_vars

-----------------------------------------------------------------------------
TypeOK ==
  /\ IsWord(slash, quote)
  /\ escape \in {0, 1} /\ run \in 0 .. MaxRun

\* The escape handed from word to word is the parity of the run that reaches the
\* word, however many words it spans: a word has an even number of bytes.
EscapeIsRunParity == escape = run % 2

\* The addition lets a carry ripple through the runs that begin on odd bits, and
\* the escaped bytes that come out are those after an odd run, in both states.
ShiftAddFindsEscaped ==
  \A incoming \in {0, 1} :
    quote \ EscapedByShiftAdd(slash, incoming) = FilterEscapedQuotes(quote, slash, incoming)

\* The doubling shifts compute the inclusive prefix XOR.
ShiftsComputePrefix == PrefixXorByShifts(quote) = PrefixXor(quote)

\* Where the test of cuJSON finds nothing, both states select the same quotes, so
\* that skipping the lookback is sound.
SkipIsSound ==
  MayBeEscaped(quote, slash) = {} =>
    FilterEscapedQuotes(quote, slash, 0) = FilterEscapedQuotes(quote, slash, 1)

=============================================================================
