---------------------------- MODULE MCAlgorithms ----------------------------
(***************************************************************************)
(* The pure algorithms of the benchmarks, each against its definition: one *)
(* is run, the variables of the others stay unused.                        *)
(*                                                                         *)
(*   oracle   the sequential oracles, on every text of at most MaxBytes    *)
(*   word     the shift-and-add word operations, on words of six bits and  *)
(*            runs of at most MaxRun backslashes                           *)
(*   scan     GPJSON's prefix XOR, on all parities of at most MaxItems     *)
(*            segments; three threads, three values each at most           *)
(*   utf8     the UTF-8 check, on byte values at both sides of every       *)
(*            boundary it tests, in every alignment to the groups of four  *)
(*   chunks   the CSV, FASTQ and XML baselines, chunks of four bytes       *)
(*   cujson   the cuJSON program prepared for the compiler, words of three *)
(*            groups of two bytes, two words per item, three threads       *)
(***************************************************************************)
EXTENDS CpuReference, Sequences

CONSTANTS
  Algorithms,
  MaxBytes, MaxRun, ScanThreads, MaxItems,
  Utf8Texts, PartsPerWord,
  ChunkTexts, ChunkBytes, OutputWordBytes,
  InputTexts, GroupBytes, bitmap_words_per_thread, Threads, NonAscii(_), FlaggedWords(_)

VARIABLES
  algorithm,
  slash, quote, escape, run,                               \* of WordAlgorithms
  values, bases, parities,                                 \* of XorScanPasses
  utf_error,                                               \* of Utf8Check
  format, masks, summary, newline_count, prefix, counts, out,  \* of ChunkPipelines
  has_non_ascii_GPU, utf8_error_GPU, backslashes_GPU, quote_GPU,
  real_quote_GPU, in_string_GPU, op_GPU, open_close_GPU,
  structural_count_GPU,                                    \* of PreparedCujson
  kernel, pending,                                         \* of the last four
  bytes                                                    \* text of the last three

Word  == INSTANCE WordAlgorithms
Scan  == INSTANCE XorScanPasses
Utf8  == INSTANCE Utf8Check WITH Texts <- Utf8Texts, text <- bytes
Chunk == INSTANCE ChunkPipelines WITH Texts <- ChunkTexts, text <- bytes
Input == INSTANCE PreparedCujson WITH Texts <- InputTexts, text <- bytes, stage <- kernel,
                                      next_item <- pending

ASSUME WordsAssumed  == Word!MaxRunAssumption
ASSUME ScanAssumed   == Scan!ScanThreadsAssumption /\ Scan!MaxItemsAssumption
ASSUME Utf8Assumed   == Utf8!Utf8Assumption
ASSUME ChunksAssumed == Chunk!ChunkAssumption
ASSUME InputAssumed  == Input!CujsonInputAssumption
ASSUME Algorithms \subseteq {"oracle", "word", "scan", "utf8", "chunks", "cujson"}

OfOracle == <<text, toggle, count>>
OfWord   == <<slash, quote, escape, run>>
OfScan   == <<values, bases, parities>>
OfChunk  == <<format, masks, summary, newline_count, prefix, counts, out>>
OfInput  == <<has_non_ascii_GPU, utf8_error_GPU, backslashes_GPU, quote_GPU, real_quote_GPU,
              in_string_GPU, op_GPU, open_close_GPU, structural_count_GPU>>

allVars == <<algorithm, bytes, kernel, pending, utf_error, OfOracle, OfWord, OfScan, OfChunk,
             OfInput>>

Unused(v) == v = "unused"

\* The oracles at the start of an empty text.
IdleOracle   == text = <<>> /\ Init
UnusedWord   == Unused(slash) /\ Unused(quote) /\ Unused(escape) /\ Unused(run)
UnusedScan   == Unused(values) /\ Unused(bases) /\ Unused(parities)
UnusedChunk  ==
  /\ Unused(format) /\ Unused(masks) /\ Unused(summary) /\ Unused(newline_count)
  /\ Unused(prefix) /\ Unused(counts) /\ Unused(out)
UnusedInput  ==
  /\ Unused(has_non_ascii_GPU) /\ Unused(utf8_error_GPU) /\ Unused(backslashes_GPU)
  /\ Unused(quote_GPU) /\ Unused(real_quote_GPU) /\ Unused(in_string_GPU) /\ Unused(op_GPU)
  /\ Unused(open_close_GPU) /\ Unused(structural_count_GPU)

AlgorithmsInit ==
  /\ algorithm \in Algorithms
  /\ algorithm # "cujson" => UnusedInput
  /\ \/ /\ algorithm = "oracle" /\ Init
        /\ UnusedWord /\ UnusedScan /\ UnusedChunk
        /\ Unused(bytes) /\ Unused(utf_error) /\ Unused(kernel) /\ Unused(pending)
     \/ /\ algorithm = "word" /\ Word!Init
        /\ IdleOracle /\ UnusedScan /\ UnusedChunk
        /\ Unused(bytes) /\ Unused(utf_error) /\ Unused(kernel) /\ Unused(pending)
     \/ /\ algorithm = "scan" /\ Scan!Init
        /\ IdleOracle /\ UnusedWord /\ UnusedChunk /\ Unused(bytes) /\ Unused(utf_error)
     \/ /\ algorithm = "utf8" /\ Utf8!Init
        /\ IdleOracle /\ UnusedWord /\ UnusedScan /\ UnusedChunk /\ Unused(kernel)
     \/ /\ algorithm = "chunks" /\ Chunk!Init
        /\ IdleOracle /\ UnusedWord /\ UnusedScan /\ Unused(utf_error)
     \/ /\ algorithm = "cujson" /\ Input!Init
        /\ IdleOracle /\ UnusedWord /\ UnusedScan /\ UnusedChunk /\ Unused(utf_error)

AlgorithmsNext ==
  \/ /\ algorithm = "oracle" /\ Next
     /\ UNCHANGED <<algorithm, bytes, utf_error, kernel, pending, OfWord, OfScan, OfChunk,
                    OfInput>>
  \/ /\ algorithm = "word" /\ Word!Step
     /\ UNCHANGED <<algorithm, bytes, utf_error, kernel, pending, OfOracle, OfScan, OfChunk,
                    OfInput>>
  \/ /\ algorithm = "scan" /\ Scan!Next
     /\ UNCHANGED <<algorithm, bytes, utf_error, OfOracle, OfWord, OfChunk, OfInput>>
  \/ /\ algorithm = "utf8" /\ Utf8!Next
     /\ UNCHANGED <<algorithm, kernel, OfOracle, OfWord, OfScan, OfChunk, OfInput>>
  \/ /\ algorithm = "chunks" /\ Chunk!Next
     /\ UNCHANGED <<algorithm, utf_error, OfOracle, OfWord, OfScan, OfInput>>
  \/ /\ algorithm = "cujson" /\ Input!Next
     /\ UNCHANGED <<algorithm, utf_error, OfOracle, OfWord, OfScan, OfChunk>>

AlgorithmsSpec == AlgorithmsInit /\ [][AlgorithmsNext]_allVars

-----------------------------------------------------------------------------
\* The escape handed from word to word is the parity of the run that reaches the word,
\* however many words it spans; with it, carries of the addition and doubling shifts
\* compute, in every word, what a byte by byte definition says: the escaped bytes, and
\* the inclusive prefix XOR.  Where cuJSON's test finds nothing, skipping the lookback does
\* not change a quote.
ShiftsAndAddition ==
  algorithm = "word" =>
    /\ Word!TypeOK /\ Word!EscapeIsRunParity /\ Word!ShiftAddFindsEscaped
    /\ Word!ShiftsComputePrefix /\ Word!SkipIsSound

\* The three kernels leave the inclusive prefix XOR; between them no thread has touched
\* the run of another, and the run ends that are read without a check exist.
ScanIsPrefixXor ==
  algorithm = "scan" => Scan!TypeOK /\ Scan!RunEndsExist /\ Scan!PartialScan /\ Scan!ScanIsPrefixXor

\* No thread flags a text that validUtf8 accepts, and a text that no thread flags has
\* third and fourth bytes exactly where its leads ask for them.
Utf8FlagsAgree ==
  algorithm = "utf8" => Utf8!TypeOK /\ Utf8!NeverFlagsValid /\ Utf8!AcceptedContinuations

\* The state handed to a chunk is the one in which the sequential reference arrives
\* there, however the scan associates the summaries.
PrefixIsState == algorithm = "chunks" => Chunk!PrefixIsState

\* A chunk that has been applied keeps what the sequential reference finds in it.
AppliedChunksCorrect == algorithm = "chunks" => Chunk!TypeOK /\ Chunk!AppliedChunksCorrect

\* The prepared cuJSON turns its rows of bits into counts, sums and other bits in place,
\* its threads at different speeds: an item finds what the stage before left in its words,
\* a sum tells whether a string enters the word, the checks lose nothing of what several
\* threads store, and the call leaves the structural bitmap and its counts.
PreparedRowsCorrect ==
  algorithm = "cujson" =>
    /\ Input!TypeOK /\ Input!RowsFollowStages /\ Input!SumsAreStates /\ Input!ChecksComplete
    /\ Input!OutputCorrect

\* The drivers compare the error word with validUtf8, for every text.
FlagsInvalid == algorithm = "utf8" => Utf8!FlagsInvalid

-----------------------------------------------------------------------------
MCTexts == UNION {[0 .. n - 1 -> ByteClass] : n \in 0 .. MaxBytes}

\* A, and bytes of the ranges 80-8f, a0-bf, c2-df, e0, e1-ef, ed, f0, f4 and above
MCBytes == {65, 128, 160, 194, 224, 225, 237, 240, 244, 245}

Aligned(k, body) ==
  [p \in 0 .. k + Len(body) - 1 |-> IF p < k THEN 65 ELSE body[p - k + 1]]

MCUtf8Texts == {Aligned(k, body) : k \in 0 .. 3, body \in UNION {[1 .. n -> MCBytes] : n \in 0 .. 4}}

\* a continuation byte with no lead
StrayTexts == {Aligned(1, <<128>>)}

T(classes) == [p \in 0 .. Len(classes) - 1 |-> classes[p + 1]]

\* runs over the border of words and a word of backslashes between, the last group cut off
MCInputTexts ==
  LET Run(b, n, a) == T(b \o [k \in 1 .. n |-> "slash"] \o a) IN
  UNION {[0 .. n - 1 -> {"slash", "quote", "bracket"}] : n \in 0 .. 2}
  \cup {Run(before, n, <<"quote", "bracket", "separator">>) :
          before \in {<<"quote">>, <<"quote", "bracket", "other">>}, n \in 1 .. 11}
  \cup {Run(<<"quote", "separator", "other", "bracket", "quote", "bracket", "quote", "quote">>, n,
               <<"separator", "bracket", "quote", "bracket", "quote", "other">>) : n \in 0 .. 1}

\* Input words of a byte: "other" is not ASCII, and an error at the beginning of a text.
MCNonAscii(t) == {p \in DOMAIN t : t[p] = "other"}

MCFlaggedWords(t) == MCNonAscii(t) \cap {0, 7}

\* CSV and FASTQ: up to three chunks, the last one a byte.
TextsOver(classes, sizes) == UNION {[0 .. n - 1 -> classes] : n \in sizes}

\* XML: chunks that between them take every state to every other.
XmlChunks ==
  {<<"lt", "other", "eq", "dquote">>, <<"squote", "gt", "dquote", "slash">>,
   <<"dquote", "lt", "squote", "gt">>, <<"other", "lt", "slash", "other">>,
   <<"gt", "lt", "eq", "squote">>}

MCChunkTexts ==
  [csv   |-> TextsOver({"dquote", "comma"}, {1, 4, 5, 8, 9}),
   fastq |-> TextsOver({"newline", "other"}, {1, 4, 8, 9}),
   xml   |-> {T(a \o b \o c) : a \in XmlChunks, b \in XmlChunks,
                               c \in XmlChunks \cup {<<"squote">>, <<"gt", "dquote", "lt">>}}]

=============================================================================
