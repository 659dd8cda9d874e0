------------------------------ MODULE CtaTiles ------------------------------
(***************************************************************************)
(* What the kernels that give a whole input to one CTA share (the fused    *)
(* and the targeted BitGen programs of benchmarks/gpjson/src and           *)
(* benchmarks/cujson/src): the input is cut into tiles of one word per     *)
(* thread, the threads pass from tile to tile together, and the escape and *)
(* the quote parity that leave a tile are carried in shared memory.        *)
(***************************************************************************)
EXTENDS JsonText

CONSTANTS
  Texts,
  Threads,          \* of the CTA = words of a tile
  Programs,         \* a subset of AllPrograms
  FlaggedWords(_)   \* the words of an input that the UTF-8 check finds in error

AllPrograms == {"gpjson", "cujson"}

ASSUME TilesAssumption ==
  /\ \A t \in Texts : IsText(t)
  /\ Threads \in Nat \ {0}
  /\ Programs \subseteq AllPrograms

Lanes == 0 .. Threads - 1
LastLane == Threads - 1

\* cuJSON adds a word that flushes the UTF-8 state; gpJSON has no tile for an
\* empty input.
Tiles(program, text) ==
  (WordCount(text) + (IF program = "cujson" THEN 1 ELSE 0) + Threads - 1) \div Threads

WordAt(tile, lane) == tile * Threads + lane

PaddedWords(program, text) == 0 .. Tiles(program, text) * Threads - 1

\* cujsonValidateUtf8FourBytes (Utf8Check) finds an error in the word.
Flagged(program, text, w) == program = "cujson" /\ w \in FlaggedWords(text)

\* What the error word of the input is to say: padding words count.
HasFlagged(program, text) ==
  \E w \in PaddedWords(program, text) : Flagged(program, text, w)

\* The nearest word below the lane that is not all backslashes says whether an
\* escape enters it; if there is none, the tile before says.
TileEscape(lane, slashes, carried) ==
  LET ends == {k \in 0 .. lane - 1 : TrailingOnes(slashes[k]) # WordBytes}
  IN IF ends = {} THEN carried
     ELSE TrailingOnes(slashes[CHOOSE k \in ends : \A j \in ends : j <= k]) % 2

\* cuJSON looks back only for a word with a quote an escape may reach, and in the
\* last lane for a word that hands the escape on.
LooksBack(program, lane, quote, slash) ==
  \/ program = "gpjson"
  \/ PossibleEscaped(quote, slash) # {}
  \/ lane = LastLane /\ slash = Bits

IncomingEscape(program, lane, quote, slash, slashes, carried) ==
  IF LooksBack(program, lane, quote, slash) THEN TileEscape(lane, slashes, carried) ELSE carried

SelectedQuotes(program, quote, slash, incoming) ==
  IF program = "cujson" /\ PossibleEscaped(quote, slash) = {} THEN quote
  ELSE FilterEscapedQuotes(quote, slash, incoming)

OutgoingEscape(slash, incoming) ==
  IF slash = Bits THEN incoming ELSE TrailingOnes(slash) % 2

\* The in-string bits of a word with an odd or even number of quotes before it.
InStringBits(quotes, parity_before) == InStringCandidate(quotes, parity_before = 1)

Xor(a, b) == (a + b) % 2

\* values[i] ^ ... ^ values[j]
XorOf(values, i, j) == Cardinality({k \in i .. j : values[k] = 1}) % 2

-----------------------------------------------------------------------------
\* What the kernels are to compute: the quotes no odd run of backslashes escapes,
\* and the states in which a sequential scan arrives at a tile.
TrueQuotes(text, w) == WordOf(RealQuotes(text), w)

EscapeEnters(text, tile) ==
  IF \E k \in 0 .. Size(text) :
       /\ k % 2 = 1 /\ tile * Threads * WordBytes \in k .. Size(text)
       /\ MaximalSlashRun(text, tile * Threads * WordBytes, k)
  THEN 1 ELSE 0

ParityEnters(text, tile) ==
  Cardinality(QuotesBefore(text, tile * Threads * WordBytes)) % 2

=============================================================================
