-------------------------- MODULE StageMajorProofs --------------------------
(***************************************************************************)
(* Proofs about the targeted stage-major baselines (StageMajor), for every *)
(* program, text, number of threads and set of words in error, and for     *)
(* every order of the threads between two barriers.                        *)
(***************************************************************************)
EXTENDS StageMajor, JsonLemmas

-----------------------------------------------------------------------------
(***************************************************************************)
(* Tiles: JsonLemmas about groups of words, said of lanes and tiles.       *)
(***************************************************************************)
LEMMA ThreadFacts ==
  /\ Threads \in Nat \ {0}
  /\ 0 \in Lanes /\ LastLane \in Lanes /\ Lanes \subseteq Nat
BY TilesAssumption DEF Lanes, LastLane

LEMMA WordAtFacts ==
  ASSUME NEW k \in Nat, NEW t \in Lanes
  PROVE  /\ WordAt(k, t) \in Nat
         /\ WordAt(k, 0) = k * Threads /\ k * Threads \in Nat
         /\ WordAt(k, LastLane) + 1 = (k + 1) * Threads
         /\ WordAt(k, t) < (k + 1) * Threads
BY ThreadFacts DEF WordAt, Lanes, LastLane

LEMMA WordAtUnique ==
  ASSUME NEW k \in Nat, NEW j \in Nat, NEW t \in Lanes, NEW u \in Lanes,
         WordAt(k, t) = WordAt(j, u)
  PROVE  k = j /\ t = u
BY ThreadFacts, QuotientUnique DEF WordAt, Lanes

LEMMA TilesFacts ==
  ASSUME NEW p, NEW t, IsText(t)
  PROVE  /\ Tiles(p, t) \in Nat
         /\ \A k \in 0 .. Tiles(p, t) - 1, l \in Lanes : WordAt(k, l) \in PaddedWords(p, t)
         /\ \A w \in PaddedWords(p, t) :
              \E l \in Lanes, k \in 0 .. Tiles(p, t) - 1 : w = WordAt(k, l)
<1>1. WordCount(t) \in Nat
  BY TextDomain, WordBytesAssumption DEF WordCount
<1>2. Tiles(p, t) \in Nat
  BY <1>1, ThreadFacts DEF Tiles
<1> QED BY <1>2, ThreadFacts, GroupsCover DEF WordAt, Lanes, PaddedWords

LEMMA EscapeEntersTile ==
  ASSUME NEW t, IsText(t), NEW k \in Nat
  PROVE  /\ EscapeEnters(t, k) = EscapeAt(t, k * Threads)
         /\ EscapeEnters(t, 0) = 0
<1>1. \A j \in Nat : EscapeEnters(t, j) = EscapeAt(t, j * Threads)
  BY ThreadFacts, EscapeReaches DEF EscapeEnters
<1>2. 0 * Threads = 0
  BY ThreadFacts
<1> QED BY <1>1, <1>2, FirstWordUnescaped

LEMMA TileEscapeFinds ==
  ASSUME NEW t, IsText(t), NEW k \in Nat, NEW lane \in Lanes, NEW slashes,
         \A j \in 0 .. lane - 1 : slashes[j] = SlashWord(t, WordAt(k, j))
  PROVE  TileEscape(lane, slashes, EscapeEnters(t, k)) = EscapeAt(t, WordAt(k, lane))
<1>1. k * Threads \in Nat /\ lane \in Nat
  BY ThreadFacts
<1>2. NearestEscape(lane, slashes, EscapeAt(t, k * Threads)) = EscapeAt(t, k * Threads + lane)
  BY <1>1, NearestEscapeFinds DEF WordAt
<1>3. TileEscape(lane, slashes, EscapeEnters(t, k)) = NearestEscape(lane, slashes, EscapeEnters(t, k))
  BY DEF TileEscape, NearestEscape
<1> QED BY <1>2, <1>3, EscapeEntersTile DEF WordAt

\* What a thread selects are the real quotes of its word: a thread of cuJSON that has
\* not looked back has no quote an escape could reach.
LEMMA SelectedAreReal ==
  ASSUME NEW p \in Programs, NEW t, IsText(t), NEW w \in Nat, NEW lane, NEW incoming,
         LooksBack(p, lane, QuoteWord(t, w), SlashWord(t, w)) => incoming = EscapeAt(t, w)
  PROVE  SelectedQuotes(p, QuoteWord(t, w), SlashWord(t, w), incoming) = RealQuoteWord(t, w)
<1>1. p \in {"gpjson", "cujson"}
  BY TilesAssumption DEF AllPrograms
<1>2. CASE p = "cujson" /\ PossibleEscaped(QuoteWord(t, w), SlashWord(t, w)) = {}
  BY <1>2, NothingToFilter DEF SelectedQuotes
<1>3. CASE ~(p = "cujson" /\ PossibleEscaped(QuoteWord(t, w), SlashWord(t, w)) = {})
  <2>1. incoming = EscapeAt(t, w)
    BY <1>1, <1>3 DEF LooksBack
  <2> QED BY <1>3, <2>1, FilterAtWord DEF SelectedQuotes
<1> QED BY <1>2, <1>3

\* What the last lane hands on is the escape that enters the next tile: cuJSON looks
\* back there for a word of backslashes.
LEMMA LastLaneHandsOn ==
  ASSUME NEW p \in Programs, NEW t, IsText(t), NEW k \in Nat, NEW incoming,
         LooksBack(p, LastLane, QuoteWord(t, WordAt(k, LastLane)), SlashWord(t, WordAt(k, LastLane)))
           => incoming = EscapeAt(t, WordAt(k, LastLane))
  PROVE  OutgoingEscape(SlashWord(t, WordAt(k, LastLane)), incoming) = EscapeEnters(t, k + 1)
<1> DEFINE w == WordAt(k, LastLane)
<1>1. w \in Nat /\ w + 1 = (k + 1) * Threads
  BY ThreadFacts, WordAtFacts
<1>2. p \in {"gpjson", "cujson"}
  BY TilesAssumption DEF AllPrograms
<1>3. SlashWord(t, w) = Bits => incoming = EscapeAt(t, w)
  BY <1>2 DEF LooksBack
<1> HIDE DEF w
<1>4. OutgoingEscape(SlashWord(t, w), incoming) = EscapeAt(t, w + 1)
  BY <1>1, <1>3, EscapeHandedOn DEF OutgoingEscape
<1> QED BY <1>1, <1>4, EscapeEntersTile DEF w

-----------------------------------------------------------------------------
(***************************************************************************)
(* The quote parities of a tile and their scan.                            *)
(***************************************************************************)
TileParity(t, k) == [lane \in Lanes |-> Parity(RealQuoteWord(t, WordAt(k, lane)))]

LEMMA XorOfIsOddCount ==
  ASSUME NEW values, NEW i, NEW j
  PROVE  XorOf(values, i, j) = OddCount(values, i, j)
BY DEF XorOf, OddCount

LEMMA XorFacts ==
  /\ \A a, b \in {0, 1} : Xor(a, b) \in {0, 1}
  /\ \A values : \A i, j \in Int : XorOf(values, i, j) \in {0, 1}
<1>1. ASSUME NEW values, NEW i \in Int, NEW j \in Int PROVE XorOf(values, i, j) \in {0, 1}
  BY XorOfIsOddCount, OddCountFacts
<1> QED BY <1>1 DEF Xor

LEMMA TileParityFacts ==
  ASSUME NEW t, NEW k \in Nat, NEW lane \in Lanes, IsText(t)
  PROVE  /\ TileParity(t, k)[lane] = Parity(RealQuoteWord(t, WordAt(k, lane)))
         /\ TileParity(t, k)[lane] \in {0, 1}
<1>1. RealQuoteWord(t, WordAt(k, lane)) \in SUBSET Bits
  BY DEF RealQuoteWord, WordOf
<1> QED BY <1>1, ParityTypes DEF TileParity

LEMMA ParityEntersWord ==
  ASSUME NEW t, NEW k
  PROVE  ParityEnters(t, k) = ParityBeforeWord(t, k * Threads)
BY DEF ParityEnters, ParityBeforeWord

LEMMA ParityStart ==
  ASSUME NEW t, IsText(t)
  PROVE  ParityEnters(t, 0) = 0
<1>1. 0 * Threads * WordBytes = 0
  BY ThreadFacts, WordBytesAssumption
<1>2. QuotesBefore(t, 0) = {}
  BY TextDomain DEF QuotesBefore, RealQuotes
<1> QED BY <1>1, <1>2, FS_EmptySet DEF ParityEnters

\* The parity that enters the word of a lane, from the one that enters the tile.
LEMMA ParityInTile ==
  ASSUME NEW t, IsText(t), NEW k \in Nat, NEW n \in 0 .. Threads
  PROVE  ParityBeforeWord(t, k * Threads + n)
           = Xor(ParityEnters(t, k), XorOf(TileParity(t, k), 0, n - 1))
<1>1. k * Threads \in Nat /\ n \in Nat
  BY ThreadFacts
<1>2. ASSUME NEW i \in 0 .. n - 1
      PROVE  TileParity(t, k)[i] = Parity(RealQuoteWord(t, k * Threads + i))
  <2>1. i \in Lanes
    BY <1>1, ThreadFacts DEF Lanes
  <2> QED BY <2>1 DEF TileParity, WordAt
<1>3. ParityBeforeWord(t, k * Threads + n)
        = (ParityBeforeWord(t, k * Threads) + OddCount(TileParity(t, k), 0, n - 1)) % 2
  BY <1>1, <1>2, ParityOverWords
<1> QED BY <1>3, ParityEntersWord, XorOfIsOddCount DEF Xor

LEMMA TileParityLeaves ==
  ASSUME NEW t, IsText(t), NEW k \in Nat
  PROVE  Xor(ParityEnters(t, k), XorOf(TileParity(t, k), 0, LastLane)) = ParityEnters(t, k + 1)
<1>1. ParityBeforeWord(t, k * Threads + Threads)
        = Xor(ParityEnters(t, k), XorOf(TileParity(t, k), 0, Threads - 1))
  <2>1. Threads \in 0 .. Threads
    BY ThreadFacts
  <2> QED BY <2>1, ParityInTile
<1>2. k * Threads + Threads = (k + 1) * Threads
  BY ThreadFacts
<1> QED BY <1>1, <1>2, ParityEntersWord DEF LastLane

-----------------------------------------------------------------------------
(***************************************************************************)
(* The inductive invariant.  Where the threads are: those between the same *)
(* two barriers are in one phase; in the kernels that carry a state from   *)
(* tile to tile they also belong to one tile.                              *)
(***************************************************************************)
Carrying == {"carry_escape", "carry_parity"}
Scanning == {"read_round", "combined", "write_round", "written"}
Heads    == {"classify", "share", "load", "filter", "flagged", "exit"}

PcValues ==
  Barriers \cup
    {"start", "classify", "publish", "share", "resolve", "carry_escape", "load", "read_round",
     "write_round", "emit", "carry_parity", "filter", "exit", "done"}

\* Before the first barrier of a tile, behind the last one, and in between.
Phase(t) ==
  IF pc[t] \in {"start", "cleared"}
  THEN IF kernel \in ClearsTogether THEN "turning" ELSE "entering"
  ELSE IF pc[t] \in Carrying \cup {"carried"}
       THEN IF program = "gpjson" THEN "turning" ELSE "entering"
  ELSE IF pc[t] \in {"resolve", "resolved"} THEN "resolving"
  ELSE IF pc[t] \in {"read_round", "combined"} THEN "reading"
  ELSE IF pc[t] \in {"write_round", "written"} THEN "writing"
  ELSE IF pc[t] \in {"emit", "emitted"} THEN "emitting"
  ELSE IF pc[t] = "publish" \/ (pc[t] = "exit" /\ kernel = 1 /\ program = "cujson") THEN "publishing"
  ELSE IF pc[t] = "done" THEN "done" ELSE "entering"

\* A thread that only has to carry already counts as one of the next tile.
Round(t) == IF pc[t] \in Carrying THEN tile[t] + 1 ELSE tile[t]

\* The distance of the next round of the scan.
Distance(t) == IF pc[t] = "write_round" THEN 2 * local[t].offset ELSE local[t].offset

InStep ==
  \A t, u \in Lanes :
    /\ Phase(t) = Phase(u)
    /\ kernel \in {2, 3} => Round(t) = Round(u)
    /\ pc[t] \in Scanning => Distance(t) = Distance(u)

\* The kernel has the step the thread is at.
OfTheKernel(t) ==
  \/ pc[t] \in {"start", "exit"} /\ kernel \in 1 .. 4
  \/ pc[t] = "cleared" /\ kernel \in ClearsTogether
  \/ pc[t] = "classify" /\ kernel = 1
  \/ pc[t] \in {"flagged", "publish"} /\ kernel = 1 /\ program = "cujson"
  \/ pc[t] \in {"share", "shared", "resolve", "resolved", "carry_escape"} /\ kernel = 2
  \/ pc[t] = "carried" /\ kernel \in {2, 3} /\ program = "gpjson"
  \/ pc[t] \in {"load", "loaded", "emit", "emitted", "carry_parity"} \cup Scanning /\ kernel = 3
  \/ pc[t] = "filter" /\ kernel = 4
  \/ pc[t] = "done" /\ kernel = 5

OfATile ==
  {"classify", "share", "shared", "resolve", "resolved", "load", "loaded", "emit", "emitted", "filter"}
  \cup Carrying \cup Scanning

AtPlace(t) ==
  /\ OfTheKernel(t)
  /\ pc[t] \in {"start", "cleared", "done"} => tile[t] = 0
  /\ pc[t] \in OfATile => tile[t] < Tiles(program, text)
  /\ pc[t] \in {"flagged", "publish", "exit"} => tile[t] = Tiles(program, text)
  /\ pc[t] = "loaded" => local[t].offset = 1
  /\ pc[t] \in Scanning \ {"written"} => local[t].offset < Threads
  /\ pc[t] \in {"emit", "emitted"} => local[t].offset >= Threads

Records ==
  [slash: SUBSET Bits, quotes: SUBSET Bits, outgoing: {0, 1}, parity: {0, 1}, value: {0, 1},
   offset: 1 .. 2 * Threads]

Typed ==
  /\ program \in Programs /\ text \in Texts /\ kernel \in 1 .. 5
  /\ pc \in [Lanes -> PcValues] /\ tile \in [Lanes -> 0 .. Tiles(program, text)]
  /\ local \in [Lanes -> Records]
  /\ shared_slashes \in [Lanes -> SUBSET Bits]
  /\ shared_quote_parity \in [Lanes -> {0, 1}] /\ previous_tile \in {0, 1}
  /\ slash_bitmap \in Rows /\ quote_bitmap \in Rows /\ real_quote_bitmap \in Rows
  /\ in_string_bitmap \in Rows /\ operator_bitmap \in Rows /\ open_close_bitmap \in Rows
  /\ shared_utf_error \in BOOLEAN /\ utf_error \in BOOLEAN

Place == Typed /\ InStep /\ \A t \in Lanes : AtPlace(t)

-----------------------------------------------------------------------------
(***************************************************************************)
(* What shared memory and the registers hold.                              *)
(***************************************************************************)
\* The parity of the words of a lane and of those below it, `distance` in all.
Span(k, t, distance) ==
  XorOf(TileParity(text, k), IF t < distance THEN 0 ELSE t - distance + 1, t)

CarryHolds ==
  /\ kernel = 2 /\ pc[0] # "start" => previous_tile = EscapeEnters(text, tile[LastLane])
  /\ kernel = 3 /\ pc[0] # "start" => previous_tile = ParityEnters(text, tile[0])

OfTheScan == {"loaded", "emit", "emitted"} \cup Scanning

Snapshot(t) ==
  /\ pc[t] \in {"shared", "resolve", "resolved", "carry_escape"} => local[t].slash = Slash(t)
  /\ pc[t] \in {"shared", "resolve"} => local[t].quotes = QuoteWord(text, Word(t))
  /\ pc[t] \in {"resolved", "carry_escape"} /\ t = LastLane =>
       local[t].outgoing = EscapeEnters(text, tile[t] + 1)
  /\ pc[t] \in OfTheScan => local[t].quotes = RealQuoteWord(text, Word(t))
  /\ program = "gpjson" /\ pc[t] \in OfTheScan \cup {"carry_parity"} =>
       local[t].parity = ParityEnters(text, tile[t])
  /\ pc[t] \in {"combined", "write_round"} =>
       local[t].value = Span(tile[t], t, 2 * local[t].offset)
  /\ pc[t] \in {"emitted", "carry_parity"} =>
       local[t].value = XorOf(TileParity(text, tile[t]), 0, LastLane)

Shares(t) ==
  /\ pc[t] \in {"shared", "resolve", "resolved"} => shared_slashes[t] = Slash(t)
  /\ pc[t] \in OfTheScan => shared_quote_parity[t] = Span(tile[t], t, local[t].offset)

Memory == CarryHolds /\ \A t \in Lanes : Snapshot(t) /\ Shares(t)

-----------------------------------------------------------------------------
(***************************************************************************)
(* What global memory holds.                                               *)
(***************************************************************************)
\* The lane has passed the write of a kernel on its word of a tile.
Behind(t, k, stage, written) ==
  \/ kernel > stage
  \/ kernel = stage /\ (k < tile[t] \/ (k = tile[t] /\ pc[t] \in written))

Classified(t, k) == Behind(t, k, 1, {})
Resolved(t, k)   == Behind(t, k, 2, {"resolved", "carry_escape"})
Emitted(t, k)    == Behind(t, k, 3, {"emitted", "carry_parity"})
Filtered(t, k)   == Behind(t, k, 4, {})

RowsHold(t, k) ==
  LET w == WordAt(k, t) IN
  Classified(t, k) =>
    /\ slash_bitmap[w] = SlashWord(text, w)
    /\ quote_bitmap[w] =
         IF program = "gpjson" /\ Emitted(t, k) THEN InStringWord(text, w)
         ELSE IF program = "gpjson" /\ Resolved(t, k) THEN RealQuoteWord(text, w)
         ELSE QuoteWord(text, w)
    /\ operator_bitmap[w] =
         IF program = "gpjson" /\ Filtered(t, k) THEN StructuralWord(text, w) ELSE OperatorWord(text, w)
    /\ program = "cujson" =>
         /\ Resolved(t, k) => real_quote_bitmap[w] = RealQuoteWord(text, w)
         /\ Emitted(t, k) => in_string_bitmap[w] =
              IF Filtered(t, k) THEN StructuralWord(text, w) ELSE InStringWord(text, w)
         /\ open_close_bitmap[w] =
              IF Filtered(t, k) THEN OpenCloseResult(text, w) ELSE OpenCloseWord(text, w)

RowsRight == \A t \in Lanes : \A k \in 0 .. Tiles(program, text) - 1 : RowsHold(t, k)

SomeFlagged ==
  \E t \in Lanes : \E k \in 0 .. tile[t] - 1 : Flagged(program, text, WordAt(k, t))

ErrorsHold ==
  /\ kernel = 1 /\ pc[0] # "start" => (shared_utf_error <=> SomeFlagged)
  /\ program = "cujson" /\ (kernel > 1 \/ (kernel = 1 /\ pc[0] = "exit")) =>
       (utf_error <=> HasFlagged(program, text))

StageInv == Place /\ Memory /\ RowsRight /\ ErrorsHold

-----------------------------------------------------------------------------
(***************************************************************************)
(* The threads move between barriers.                                      *)
(***************************************************************************)
LEMMA PlaceFacts ==
  ASSUME Place
  PROVE  /\ IsText(text) /\ program \in {"gpjson", "cujson"} /\ kernel \in 1 .. 5
         /\ Tiles(program, text) \in Nat
         /\ pc \in [Lanes -> PcValues]
         /\ tile \in [Lanes -> 0 .. Tiles(program, text)]
         /\ local \in [Lanes -> Records]
         /\ \A t \in Lanes : /\ pc[t] \in PcValues /\ tile[t] \in Nat /\ Word(t) \in Nat
                             /\ Word(t) = WordAt(tile[t], t)
                             /\ local[t] \in Records /\ local[t].offset \in Nat \ {0}
<1>1. /\ IsText(text) /\ program \in {"gpjson", "cujson"} /\ kernel \in 1 .. 5
      /\ pc \in [Lanes -> PcValues] /\ tile \in [Lanes -> 0 .. Tiles(program, text)]
      /\ local \in [Lanes -> Records]
  BY TilesAssumption DEF Place, Typed, AllPrograms
<1>2. Tiles(program, text) \in Nat
  BY <1>1, TilesFacts
<1>3. ASSUME NEW t \in Lanes
      PROVE  /\ pc[t] \in PcValues /\ tile[t] \in Nat /\ Word(t) \in Nat
             /\ Word(t) = WordAt(tile[t], t)
             /\ local[t] \in Records /\ local[t].offset \in Nat \ {0}
  <2>1. pc[t] \in PcValues /\ tile[t] \in Nat /\ local[t] \in Records
    BY <1>1, <1>2
  <2>2. local[t].offset \in Nat \ {0}
    BY <2>1, ThreadFacts DEF Records
  <2> QED BY <2>1, <2>2, WordAtFacts DEF Word
<1> QED BY <1>1, <1>2, <1>3

LEMMA OwnWord ==
  ASSUME Place, NEW t \in Lanes, pc[t] \in OfATile
  PROVE  /\ tile[t] \in 0 .. Tiles(program, text) - 1
         /\ tile[t] + 1 \in 0 .. Tiles(program, text)
         /\ Word(t) \in PaddedWords(program, text)
<1>1. tile[t] \in 0 .. Tiles(program, text) - 1
  BY PlaceFacts DEF Place, AtPlace
<1> QED BY <1>1, PlaceFacts, TilesFacts

\* The kernel a thread is in, by its step.
LEMMA KernelFacts ==
  ASSUME Place, NEW t \in Lanes
  PROVE  /\ pc[t] \in {"start", "exit"} => kernel \in 1 .. 4
         /\ pc[t] = "cleared" => kernel \in ClearsTogether /\ kernel \in 1 .. 3
         /\ pc[t] = "classify" => kernel = 1
         /\ pc[t] \in {"flagged", "publish"} => kernel = 1 /\ program = "cujson"
         /\ pc[t] \in {"share", "shared", "resolve", "resolved", "carry_escape"} => kernel = 2
         /\ pc[t] = "carried" => program = "gpjson" /\ kernel \in {2, 3}
         /\ pc[t] \in {"load", "loaded", "emit", "emitted", "carry_parity"} \cup Scanning => kernel = 3
         /\ pc[t] = "filter" => kernel = 4
         /\ pc[t] = "done" => kernel = 5
<1>1. OfTheKernel(t)
  BY DEF Place, AtPlace
<1> QED BY <1>1 DEF OfTheKernel, Scanning, ClearsTogether

\* Which steps a phase has.
LEMMA PhaseFacts ==
  ASSUME NEW t \in Lanes, pc[t] \in PcValues
  PROVE  /\ Phase(t) = "resolving" <=> pc[t] \in {"resolve", "resolved"}
         /\ Phase(t) = "reading" <=> pc[t] \in {"read_round", "combined"}
         /\ Phase(t) = "writing" <=> pc[t] \in {"write_round", "written"}
         /\ Phase(t) = "emitting" <=> pc[t] \in {"emit", "emitted"}
         /\ Phase(t) = "publishing" <=>
              pc[t] = "publish" \/ (pc[t] = "exit" /\ kernel = 1 /\ program = "cujson")
         /\ Phase(t) = "turning" <=>
              \/ pc[t] \in {"start", "cleared"} /\ kernel \in ClearsTogether
              \/ pc[t] \in Carrying \cup {"carried"} /\ program = "gpjson"
         /\ Phase(t) = "done" <=> pc[t] = "done"
         /\ Phase(t) \in {"turning", "entering", "resolving", "reading", "writing", "emitting",
                          "publishing", "done"}
BY DEF Phase, Carrying, PcValues, Barriers

\* Where a thread goes at the head of the loop.
LEMMA HeadFacts ==
  ASSUME Place, NEW t \in Lanes, NEW k \in 0 .. Tiles(program, text), kernel \in 1 .. 4
  PROVE  LET x == LoopHead(t, k) IN
         /\ x \in Heads
         /\ \/ x = "exit"
            \/ x \in {"classify", "flagged"} /\ kernel = 1
            \/ x = "share" /\ kernel = 2
            \/ x = "load" /\ kernel = 3
            \/ x = "filter" /\ kernel = 4
         /\ x = "flagged" => program = "cujson"
         /\ x \in OfATile => k < Tiles(program, text)
         /\ x \in {"flagged", "exit"} => k = Tiles(program, text)
         /\ x = "exit" => ~(kernel = 1 /\ program = "cujson")
<1>1. Tiles(program, text) \in Nat /\ k \in Nat /\ k <= Tiles(program, text)
  BY PlaceFacts
<1>2. CASE k < Tiles(program, text)
  <2>1. LoopHead(t, k) = FirstStep[kernel]
    BY <1>2 DEF LoopHead, TilesOfThread
  <2>2. \/ kernel = 1 /\ FirstStep[kernel] = "classify"
        \/ kernel = 2 /\ FirstStep[kernel] = "share"
        \/ kernel = 3 /\ FirstStep[kernel] = "load"
        \/ kernel = 4 /\ FirstStep[kernel] = "filter"
    BY DEF FirstStep
  <2> QED BY <1>2, <2>1, <2>2 DEF Heads, OfATile, Carrying, Scanning
<1>3. CASE ~(k < Tiles(program, text))
  <2>1. LoopHead(t, k) = Ending /\ k = Tiles(program, text)
    BY <1>1, <1>3 DEF LoopHead, TilesOfThread
  <2>2. \/ Ending = "flagged" /\ kernel = 1 /\ program = "cujson"
        \/ Ending = "exit" /\ ~(kernel = 1 /\ program = "cujson")
    BY DEF Ending
  <2> QED BY <2>1, <2>2 DEF Heads, OfATile, Carrying, Scanning
<1> QED BY <1>2, <1>3

\* A thread at the head of the loop is in the same phase, wherever it comes from.
LEMMA HeadsEnter ==
  ASSUME NEW t \in Lanes, pc[t] \in Heads, pc[t] = "exit" => ~(kernel = 1 /\ program = "cujson")
  PROVE  Phase(t) = "entering"
BY DEF Heads, Phase, Carrying

\* A step of one thread keeps Place when the thread stays in its phase and its tile.
LEMMA MovePlace ==
  ASSUME Place, NEW t \in Lanes, NEW x, NEW n,
         Typed', UNCHANGED <<program, text, kernel>>,
         pc' = [pc EXCEPT ![t] = x], tile' = [tile EXCEPT ![t] = n],
         \A u \in Lanes : u # t => local'[u] = local[u],
         Phase(t)' = Phase(t),
         kernel \in {2, 3} => Round(t)' = Round(t),
         pc[t] \in Scanning => Distance(t)' = Distance(t),
         AtPlace(t)'
  PROVE  Place'
<1>1. \A u \in Lanes : u # t => pc'[u] = pc[u] /\ tile'[u] = tile[u] /\ local'[u] = local[u]
  BY PlaceFacts
<1>2. ASSUME NEW u \in Lanes, u # t
      PROVE  Phase(u)' = Phase(u) /\ Round(u)' = Round(u) /\ Distance(u)' = Distance(u) /\ AtPlace(u)'
  <2>1. Phase(u)' = Phase(u)
    BY <1>1, <1>2 DEF Phase, ClearsTogether
  <2>2. Round(u)' = Round(u) /\ Distance(u)' = Distance(u)
    BY <1>1, <1>2 DEF Round, Distance
  <2>3. OfTheKernel(u)' <=> OfTheKernel(u)
    BY <1>1, <1>2 DEF OfTheKernel, ClearsTogether
  <2>4. AtPlace(u)
    BY DEF Place
  <2>5. AtPlace(u)'
    BY <1>1, <1>2, <2>3, <2>4 DEF AtPlace
  <2> QED BY <2>1, <2>2, <2>5
<1>3. \A u \in Lanes : Phase(u)' = Phase(u)
  BY <1>2
<1>4. kernel \in {2, 3} => \A u \in Lanes : Round(u)' = Round(u)
  BY <1>2
<1>5. ASSUME NEW u \in Lanes PROVE pc'[u] \in Scanning <=> pc[u] \in Scanning
  <2>1. pc[u] \in PcValues /\ pc'[u] \in PcValues
    BY PlaceFacts DEF Typed
  <2>2. pc[u] \in Scanning <=> Phase(u) \in {"reading", "writing"}
    BY <2>1, PhaseFacts DEF Scanning
  <2>3. pc'[u] \in Scanning <=> Phase(u)' \in {"reading", "writing"}
    <3>1. pc'[u] \in Barriers \cup {"start", "classify", "publish", "share", "resolve", "carry_escape",
                    "load", "read_round", "write_round", "emit", "carry_parity", "filter", "exit", "done"}
      BY <2>1 DEF PcValues
    <3> QED BY <3>1 DEF Phase, Scanning, Carrying, Barriers
  <2> QED BY <1>3, <2>2, <2>3
<1>6. ASSUME NEW u \in Lanes, pc[u] \in Scanning PROVE Distance(u)' = Distance(u)
  BY <1>2, <1>6
<1>7. ASSUME NEW u \in Lanes, NEW v \in Lanes, pc[u] \in Scanning PROVE pc[v] \in Scanning
  <2>1. pc[u] \in PcValues /\ pc[v] \in PcValues /\ Phase(u) = Phase(v)
    BY PlaceFacts DEF Place, InStep
  <2> QED BY <1>7, <2>1, PhaseFacts DEF Scanning
<1>8. InStep'
  <2> SUFFICES ASSUME NEW u \in Lanes, NEW v \in Lanes
               PROVE  /\ Phase(u)' = Phase(v)'
                      /\ kernel \in {2, 3} => Round(u)' = Round(v)'
                      /\ pc'[u] \in Scanning => Distance(u)' = Distance(v)'
    BY DEF InStep
  <2>1. Phase(u)' = Phase(v)' /\ (kernel \in {2, 3} => Round(u)' = Round(v)')
    BY <1>3, <1>4 DEF Place, InStep
  <2>2. pc'[u] \in Scanning => Distance(u)' = Distance(v)'
    BY <1>5, <1>6, <1>7 DEF Place, InStep
  <2> QED BY <2>1, <2>2
<1> QED BY <1>2, <1>8 DEF Place

LEMMA TypedIsTypeOK == Typed => TypeOK
<1> SUFFICES ASSUME Typed PROVE TypeOK
  OBVIOUS
<1>1. \A t \in Lanes :
        /\ local[t].slash \subseteq Bits /\ local[t].quotes \subseteq Bits
        /\ local[t].outgoing \in {0, 1} /\ local[t].parity \in {0, 1} /\ local[t].value \in {0, 1}
        /\ local[t].offset \in 1 .. 2 * Threads
  BY DEF Typed, Records
<1> QED BY <1>1 DEF Typed, TypeOK, PcValues

-----------------------------------------------------------------------------
(***************************************************************************)
(* Place, step by step.                                                    *)
(***************************************************************************)
\* A step that stays in its tile.
LEMMA StayPlace ==
  ASSUME Place, NEW t \in Lanes, NEW x,
         Typed', UNCHANGED <<program, text, kernel, tile>>,
         pc' = [pc EXCEPT ![t] = x],
         \A u \in Lanes : u # t => local'[u] = local[u],
         pc[t] \notin Carrying, x \notin Carrying,
         Phase(t)' = Phase(t),
         pc[t] \in Scanning => Distance(t)' = Distance(t),
         AtPlace(t)'
  PROVE  Place'
<1>1. tile' = [tile EXCEPT ![t] = tile[t]] /\ pc'[t] = x
  BY PlaceFacts
<1>2. Round(t)' = Round(t)
  BY <1>1 DEF Round
<1> QED BY <1>1, <1>2, MovePlace

LEMMA StartPlace ==
  ASSUME Place, NEW t \in Lanes, Start(t)
  PROVE  Place'
<1> DEFINE x == IF kernel \in ClearsTogether THEN "cleared" ELSE LoopHead(t, 0)
<1>1. /\ pc[t] = "start" /\ pc' = [pc EXCEPT ![t] = x] /\ tile[t] = 0 /\ kernel \in 1 .. 4
      /\ tile' = tile /\ local' = local /\ UNCHANGED <<program, text, kernel>>
      /\ 0 \in 0 .. Tiles(program, text)
  BY PlaceFacts, KernelFacts DEF Start, input, Place, AtPlace
<1>2. /\ x = "cleared" /\ kernel \in ClearsTogether
      \/ /\ x \in Heads /\ kernel \notin ClearsTogether
         /\ \/ x = "exit"
            \/ x \in {"classify", "flagged"} /\ kernel = 1
            \/ x = "share" /\ kernel = 2
            \/ x = "load" /\ kernel = 3
            \/ x = "filter" /\ kernel = 4
         /\ x = "flagged" => program = "cujson"
         /\ x \in OfATile => 0 < Tiles(program, text)
         /\ x \in {"flagged", "exit"} => 0 = Tiles(program, text)
         /\ x = "exit" => ~(kernel = 1 /\ program = "cujson")
  BY <1>1, HeadFacts
<1> HIDE DEF x
<1>3. pc'[t] = x /\ tile'[t] = 0 /\ x \in PcValues
  BY <1>1, <1>2, PlaceFacts DEF PcValues, Barriers, Heads
<1>4. Typed'
  <2>1. pc' \in [Lanes -> PcValues]
    BY <1>1, <1>3, PlaceFacts
  <2>2. previous_tile' \in {0, 1} /\ shared_utf_error' \in BOOLEAN
    BY DEF Start, Place, Typed
  <2> QED BY <1>1, <2>1, <2>2 DEF Start, Place, Typed, bitmaps, quotes_rows, Rows
<1>5. Phase(t)' = Phase(t) /\ pc[t] \notin Scanning \cup Carrying /\ x \notin Carrying
  <2>1. pc[t] \notin Scanning \cup Carrying /\ x \notin Carrying
    BY <1>1, <1>2, <1>3 DEF Carrying, Scanning, Heads
  <2>2. Phase(t) = IF kernel \in ClearsTogether THEN "turning" ELSE "entering"
    BY <1>1 DEF Phase
  <2>3. Phase(t)' = IF kernel \in ClearsTogether THEN "turning" ELSE "entering"
    BY <1>1, <1>2, <1>3 DEF Phase, Carrying, Heads, ClearsTogether
  <2> QED BY <2>1, <2>2, <2>3
<1>6. AtPlace(t)'
  <2>1. OfTheKernel(t)'
    BY <1>1, <1>2, <1>3 DEF OfTheKernel, ClearsTogether
  <2> QED BY <1>1, <1>2, <1>3, <2>1 DEF AtPlace, OfATile, Heads, Carrying, Scanning
<1> QED BY <1>1, <1>4, <1>5, <1>6, StayPlace

\* A step that advances to the head of the loop for the next tile.
LEMMA AdvancePlace ==
  ASSUME Place, NEW t \in Lanes, Advance(t), UNCHANGED <<program, text, kernel>>,
         pc[t] \in {"classify", "carry_escape", "carry_parity", "filter"},
         pc[t] \in Carrying => program = "cujson",
         local' = local, pc' \in [Lanes -> PcValues] => Typed'
  PROVE  Place'
<1> DEFINE x == LoopHead(t, tile[t] + 1)
           n == tile[t] + 1
<1>1. pc' = [pc EXCEPT ![t] = x] /\ tile' = [tile EXCEPT ![t] = n] /\ kernel \in 1 .. 4
      /\ pc[t] \notin Scanning
  BY KernelFacts DEF Advance, Carrying, Scanning
<1>2. n \in 0 .. Tiles(program, text) /\ tile[t] \in Nat
  BY OwnWord, PlaceFacts DEF OfATile, Carrying
<1>3. /\ x \in Heads
      /\ \/ x = "exit"
         \/ x \in {"classify", "flagged"} /\ kernel = 1
         \/ x = "share" /\ kernel = 2
         \/ x = "load" /\ kernel = 3
         \/ x = "filter" /\ kernel = 4
      /\ x = "flagged" => program = "cujson"
      /\ x \in OfATile => n < Tiles(program, text)
      /\ x \in {"flagged", "exit"} => n = Tiles(program, text)
      /\ x = "exit" => ~(kernel = 1 /\ program = "cujson")
  BY <1>1, <1>2, HeadFacts
<1> HIDE DEF x, n
<1>4. pc'[t] = x /\ tile'[t] = n /\ x \in PcValues
  BY <1>1, <1>3, PlaceFacts DEF PcValues, Barriers, Heads
<1>5. Typed'
  BY <1>1, <1>4, PlaceFacts
<1>6. Phase(t)' = Phase(t)
  <2>1. Phase(t) = "entering"
    BY DEF Phase, Carrying
  <2>2. Phase(t)' = "entering"
    BY <1>3, <1>4 DEF Phase, Carrying, Heads
  <2> QED BY <2>1, <2>2
<1>7. kernel \in {2, 3} => Round(t)' = Round(t)
  <2>1. kernel \in {2, 3} => pc[t] \in Carrying
    BY KernelFacts DEF Carrying
  <2>2. x \notin Carrying
    BY <1>3 DEF Heads, Carrying
  <2> QED BY <1>4, <2>1, <2>2 DEF Round, n
<1>8. AtPlace(t)'
  <2>1. OfTheKernel(t)'
    BY <1>1, <1>3, <1>4 DEF OfTheKernel
  <2> QED BY <1>3, <1>4, <2>1 DEF AtPlace, OfATile, Heads, Carrying, Scanning
<1> QED BY <1>1, <1>5, <1>6, <1>7, <1>8, MovePlace

\* The end of a tile in the kernels that carry: gpJSON stops at one more barrier.
LEMMA CarriedPlace ==
  ASSUME Place, NEW t \in Lanes, NextTile(t), UNCHANGED <<program, text, kernel>>,
         pc[t] \in Carrying,
         local' = local, pc' \in [Lanes -> PcValues] => Typed'
  PROVE  Place'
<1>1. CASE program = "cujson"
  BY <1>1, AdvancePlace DEF NextTile, Carrying
<1>2. CASE program = "gpjson"
  <2> DEFINE n == tile[t] + 1
  <2>1. pc' = [pc EXCEPT ![t] = "carried"] /\ tile' = [tile EXCEPT ![t] = n] /\ kernel \in {2, 3}
    BY <1>2, KernelFacts DEF NextTile, Carrying
  <2> HIDE DEF n
  <2>2. pc'[t] = "carried" /\ tile'[t] = n /\ pc' \in [Lanes -> PcValues]
    BY <2>1, PlaceFacts DEF PcValues, Barriers
  <2>3. Phase(t)' = Phase(t) /\ Round(t)' = Round(t) /\ AtPlace(t)'
    BY <1>2, <2>1, <2>2 DEF Phase, Round, AtPlace, OfTheKernel, Carrying, OfATile, Scanning, n
  <2> QED BY <2>1, <2>2, <2>3, MovePlace DEF Carrying, Scanning
<1> QED BY <1>1, <1>2, PlaceFacts

LEMMA ClassifyPlace ==
  ASSUME Place, NEW t \in Lanes, Classify(t)
  PROVE  Place'
<1>1. pc[t] = "classify" /\ Advance(t) /\ UNCHANGED <<program, text, kernel>> /\ local' = local
  BY DEF Classify, input
<1>2. pc' \in [Lanes -> PcValues] => Typed'
  <2> SUFFICES ASSUME pc' \in [Lanes -> PcValues] PROVE Typed'
    OBVIOUS
  <2>1. tile[t] + 1 \in 0 .. Tiles(program, text)
    BY <1>1, OwnWord DEF OfATile
  <2>2. tile' \in [Lanes -> 0 .. Tiles(program, text)]
    BY <1>1, <2>1, PlaceFacts DEF Advance
  <2>3. /\ Slash(t) \in SUBSET Bits /\ QuoteWord(text, Word(t)) \in SUBSET Bits
        /\ OperatorWord(text, Word(t)) \in SUBSET Bits /\ OpenCloseWord(text, Word(t)) \in SUBSET Bits
    BY DEF Slash, SlashWord, QuoteWord, OperatorWord, OpenCloseWord, BitsWhere
  <2>4. slash_bitmap' \in Rows /\ quote_bitmap' \in Rows /\ operator_bitmap' \in Rows
        /\ open_close_bitmap' \in Rows
    BY <1>1, <2>3 DEF Classify, Place, Typed, Rows
  <2>5. shared_utf_error' \in BOOLEAN
    BY DEF Classify, Flagged, Place, Typed
  <2> QED BY <1>1, <2>2, <2>4, <2>5 DEF Classify, Place, Typed, Rows
<1> QED BY <1>1, <1>2, AdvancePlace DEF Carrying

LEMMA PublishPlace ==
  ASSUME Place, NEW t \in Lanes, PublishError(t)
  PROVE  Place'
<1>1. /\ pc[t] = "publish" /\ pc' = [pc EXCEPT ![t] = "exit"] /\ pc'[t] = "exit"
      /\ UNCHANGED <<program, text, kernel, tile>> /\ local' = local
  BY PlaceFacts DEF PublishError, input
<1>2. kernel = 1 /\ program = "cujson" /\ tile[t] = Tiles(program, text)
  BY <1>1, KernelFacts DEF Place, AtPlace
<1>3. Typed'
  <2>1. pc' \in [Lanes -> PcValues] /\ utf_error' \in BOOLEAN
    BY <1>1, PlaceFacts DEF PublishError, Place, Typed, PcValues
  <2> QED BY <1>1, <2>1 DEF PublishError, Place, Typed, Rows, shared, quotes_rows
<1>4. AtPlace(t)' /\ Phase(t)' = Phase(t)
  BY <1>1, <1>2 DEF AtPlace, OfTheKernel, Phase, OfATile, Carrying, Scanning
<1> QED BY <1>1, <1>3, <1>4, StayPlace DEF Carrying, Scanning

LEMMA SharePlace ==
  ASSUME Place, NEW t \in Lanes, ShareSlashes(t)
  PROVE  Place'
<1> DEFINE new == [local[t] EXCEPT !.slash = slash_bitmap[Word(t)], !.quotes = quote_bitmap[Word(t)]]
<1>1. /\ pc[t] = "share" /\ pc' = [pc EXCEPT ![t] = "shared"] /\ pc'[t] = "shared"
      /\ UNCHANGED <<program, text, kernel, tile>> /\ local' = [local EXCEPT ![t] = new]
  BY PlaceFacts DEF ShareSlashes, input
<1>2. Word(t) \in PaddedWords(program, text) /\ tile[t] < Tiles(program, text) /\ kernel = 2
  BY <1>1, OwnWord, KernelFacts, PlaceFacts DEF OfATile, Place, AtPlace
<1>3. slash_bitmap[Word(t)] \in SUBSET Bits /\ quote_bitmap[Word(t)] \in SUBSET Bits
  BY <1>2 DEF Place, Typed, Rows
<1>4. Typed'
  <2>1. new \in Records
    BY <1>3, PlaceFacts DEF Records
  <2>2. pc' \in [Lanes -> PcValues] /\ local' \in [Lanes -> Records]
        /\ shared_slashes' \in [Lanes -> SUBSET Bits]
    BY <1>1, <1>3, <2>1, PlaceFacts DEF ShareSlashes, Place, Typed, PcValues, Barriers
  <2> QED BY <1>1, <2>2 DEF ShareSlashes, Place, Typed, Rows, bitmaps, quotes_rows
<1>5. AtPlace(t)' /\ Phase(t)' = Phase(t)
  BY <1>1, <1>2 DEF AtPlace, OfTheKernel, Phase, OfATile, Carrying, Scanning
<1>6. \A u \in Lanes : u # t => local'[u] = local[u]
  BY <1>1, PlaceFacts
<1> QED BY <1>1, <1>4, <1>5, <1>6, StayPlace DEF Carrying, Scanning

\* What a thread computes on the way is a word or a bit.
LEMMA ComputedTypes ==
  ASSUME Place, NEW t \in Lanes
  PROVE  /\ \A quote \in SUBSET Bits, slash \in SUBSET Bits, e \in {0, 1} :
              SelectedQuotes(program, quote, slash, e) \in SUBSET Bits
         /\ \A slash \in SUBSET Bits, e \in {0, 1} : OutgoingEscape(slash, e) \in {0, 1}
         /\ \A quote, slash : IncomingEscape(program, t, quote, slash, shared_slashes, previous_tile)
              \in {0, 1}
         /\ \A quotes, before : InStringBits(quotes, before) \in SUBSET Bits
<1>1. \A slash \in SUBSET Bits : TrailingOnes(slash) \in 0 .. WordBytes
  BY TrailingOnesType
<1>2. TileEscape(t, shared_slashes, previous_tile) \in {0, 1}
  <2> DEFINE ends == {k \in 0 .. t - 1 : TrailingOnes(shared_slashes[k]) # WordBytes}
             e == CHOOSE k \in ends : \A j \in ends : j <= k
  <2>1. CASE ends = {}
    BY <2>1 DEF TileEscape, Place, Typed
  <2>2. CASE ends # {}
    <3>1. t \in Nat /\ ends \in SUBSET (0 .. t)
      BY ThreadFacts
    <3>2. e \in ends
      <4> HIDE DEF ends
      <4>1. \E k \in ends : \A j \in ends : j <= k
        BY <2>2, <3>1, GreatestElement
      <4> QED BY <4>1
    <3>3. shared_slashes[e] \in SUBSET Bits
      <4>1. e \in Lanes
        BY <3>1, <3>2, ThreadFacts DEF Lanes
      <4> QED BY <4>1 DEF Place, Typed
    <3>4. TileEscape(t, shared_slashes, previous_tile) = TrailingOnes(shared_slashes[e]) % 2
      BY <2>2 DEF TileEscape
    <3> HIDE DEF e
    <3>5. TrailingOnes(shared_slashes[e]) \in Nat
      BY <1>1, <3>3, WordBytesAssumption
    <3> QED BY <3>4, <3>5
  <2> QED BY <2>1, <2>2
<1>3. \A quote \in SUBSET Bits, slash \in SUBSET Bits, e \in {0, 1} :
        SelectedQuotes(program, quote, slash, e) \in SUBSET Bits
  BY DEF SelectedQuotes, FilterEscapedQuotes
<1>4. \A slash \in SUBSET Bits, e \in {0, 1} : OutgoingEscape(slash, e) \in {0, 1}
  <2> SUFFICES ASSUME NEW slash \in SUBSET Bits, NEW e \in {0, 1} PROVE OutgoingEscape(slash, e) \in {0, 1}
    OBVIOUS
  <2>1. TrailingOnes(slash) \in Nat
    BY <1>1, WordBytesAssumption
  <2> QED BY <2>1 DEF OutgoingEscape
<1>5. \A quote, slash :
        IncomingEscape(program, t, quote, slash, shared_slashes, previous_tile) \in {0, 1}
  BY <1>2 DEF IncomingEscape, Place, Typed
<1>6. \A quotes, before : InStringBits(quotes, before) \in SUBSET Bits
  BY DEF InStringBits, InStringCandidate, Invert, PrefixXor
<1> QED BY <1>3, <1>4, <1>5, <1>6

LEMMA ResolvePlace ==
  ASSUME Place, NEW t \in Lanes, Resolve(t)
  PROVE  Place'
<1> DEFINE slash == local[t].slash
           quote == local[t].quotes
           incoming == IncomingEscape(program, t, quote, slash, shared_slashes, previous_tile)
           real == SelectedQuotes(program, quote, slash, incoming)
           new == [local[t] EXCEPT !.outgoing = OutgoingEscape(slash, incoming)]
<1>1. /\ pc[t] = "resolve" /\ pc' = [pc EXCEPT ![t] = "resolved"] /\ pc'[t] = "resolved"
      /\ UNCHANGED <<program, text, kernel, tile>> /\ local' = [local EXCEPT ![t] = new]
  BY PlaceFacts DEF Resolve, input
<1>2. Word(t) \in PaddedWords(program, text) /\ tile[t] < Tiles(program, text) /\ kernel = 2
  BY <1>1, OwnWord, KernelFacts, PlaceFacts DEF OfATile, Place, AtPlace
<1>3. slash \in SUBSET Bits /\ quote \in SUBSET Bits
  BY PlaceFacts DEF Records
<1>4. incoming \in {0, 1} /\ real \in SUBSET Bits
  BY <1>3, ComputedTypes
<1>5. Typed'
  <2>1. new \in Records
    <3>1. OutgoingEscape(slash, incoming) \in {0, 1}
      BY <1>3, <1>4, ComputedTypes
    <3> QED BY <3>1, PlaceFacts DEF Records
  <2>2. pc' \in [Lanes -> PcValues] /\ local' \in [Lanes -> Records]
    BY <1>1, <2>1, PlaceFacts DEF PcValues, Barriers
  <2>3. quote_bitmap' \in Rows /\ real_quote_bitmap' \in Rows
    <3>1. \/ quote_bitmap' = [quote_bitmap EXCEPT ![Word(t)] = real] /\ UNCHANGED real_quote_bitmap
          \/ real_quote_bitmap' = [real_quote_bitmap EXCEPT ![Word(t)] = real] /\ UNCHANGED quote_bitmap
      BY DEF Resolve
    <3> HIDE DEF real
    <3> QED BY <1>1, <1>4, <3>1 DEF Place, Typed, Rows
  <2> QED BY <1>1, <2>2, <2>3 DEF Resolve, Place, Typed, Rows, shared
<1>6. AtPlace(t)' /\ Phase(t)' = Phase(t)
  BY <1>1, <1>2 DEF AtPlace, OfTheKernel, Phase, OfATile, Carrying, Scanning
<1>7. \A u \in Lanes : u # t => local'[u] = local[u]
  BY <1>1, PlaceFacts
<1> QED BY <1>1, <1>5, <1>6, <1>7, StayPlace DEF Carrying, Scanning

LEMMA CarryEscapePlace ==
  ASSUME Place, NEW t \in Lanes, CarryEscape(t)
  PROVE  Place'
<1>1. /\ pc[t] = "carry_escape" /\ NextTile(t) /\ UNCHANGED <<program, text, kernel>>
      /\ local' = local /\ kernel = 2 /\ tile[t] + 1 \in 0 .. Tiles(program, text)
      /\ tile[t] \in Nat
  BY KernelFacts, OwnWord, PlaceFacts DEF CarryEscape, input, OfATile, Carrying
<1>2. previous_tile' \in {0, 1}
  BY PlaceFacts, ThreadFacts DEF CarryEscape, Place, Typed, Records
<1>3. pc' \in [Lanes -> PcValues] => Typed'
  <2>1. tile' = [tile EXCEPT ![t] = @ + 1]
    BY <1>1 DEF NextTile, Advance
  <2>2. tile' \in [Lanes -> 0 .. Tiles(program, text)]
    BY <1>1, <2>1, PlaceFacts
  <2> QED BY <1>1, <1>2, <2>2 DEF CarryEscape, Place, Typed, Rows, bitmaps, quotes_rows
<1> QED BY <1>1, <1>3, CarriedPlace DEF Carrying

LEMMA LoadPlace ==
  ASSUME Place, NEW t \in Lanes, LoadParity(t)
  PROVE  Place'
<1> DEFINE real == IF program = "gpjson" THEN quote_bitmap[Word(t)] ELSE real_quote_bitmap[Word(t)]
           new == [local[t] EXCEPT !.quotes = real, !.parity = previous_tile, !.offset = 1]
<1>1. /\ pc[t] = "load" /\ pc' = [pc EXCEPT ![t] = "loaded"] /\ pc'[t] = "loaded"
      /\ UNCHANGED <<program, text, kernel, tile>> /\ local' = [local EXCEPT ![t] = new]
  BY PlaceFacts DEF LoadParity, input
<1>2. Word(t) \in PaddedWords(program, text) /\ tile[t] < Tiles(program, text) /\ kernel = 3
  BY <1>1, OwnWord, KernelFacts, PlaceFacts DEF OfATile, Place, AtPlace
<1>3. real \in SUBSET Bits
  BY <1>2 DEF Place, Typed, Rows
<1>4. Typed' /\ local'[t].offset = 1
  <2>1. new \in Records /\ new.offset = 1
    <3>1. previous_tile \in {0, 1} /\ 1 \in 1 .. 2 * Threads /\ local[t] \in Records
      BY PlaceFacts, ThreadFacts DEF Place, Typed
    <3> HIDE DEF real
    <3> QED BY <1>3, <3>1 DEF Records
  <2>2. Parity(real) \in {0, 1}
    BY <1>3, PlaceFacts, ParityTypes
  <2>3. pc' \in [Lanes -> PcValues] /\ local' \in [Lanes -> Records] /\ local'[t] = new
    BY <1>1, <2>1, PlaceFacts DEF PcValues, Barriers
  <2>4. shared_quote_parity' \in [Lanes -> {0, 1}]
    <3>1. shared_quote_parity' = [shared_quote_parity EXCEPT ![t] = Parity(real)]
      BY DEF LoadParity
    <3> HIDE DEF real
    <3> QED BY <2>2, <3>1 DEF Place, Typed
  <2> QED BY <1>1, <2>1, <2>3, <2>4 DEF LoadParity, Place, Typed, Rows, bitmaps, quotes_rows
<1>5. AtPlace(t)' /\ Phase(t)' = Phase(t)
  BY <1>1, <1>2, <1>4 DEF AtPlace, OfTheKernel, Phase, OfATile, Carrying, Scanning
<1>6. \A u \in Lanes : u # t => local'[u] = local[u]
  BY <1>1, PlaceFacts
<1> QED BY <1>1, <1>4, <1>5, <1>6, StayPlace DEF Carrying, Scanning

LEMMA ReadPlace ==
  ASSUME Place, NEW t \in Lanes, ReadRound(t)
  PROVE  Place'
<1> DEFINE o == local[t].offset
           value == Xor(shared_quote_parity[t], IF t >= o THEN shared_quote_parity[t - o] ELSE 0)
           new == [local[t] EXCEPT !.value = value]
<1>1. /\ pc[t] = "read_round" /\ pc' = [pc EXCEPT ![t] = "combined"] /\ pc'[t] = "combined"
      /\ UNCHANGED <<program, text, kernel, tile>> /\ local' = [local EXCEPT ![t] = new]
  BY PlaceFacts DEF ReadRound, input
<1>2. tile[t] < Tiles(program, text) /\ kernel = 3 /\ o < Threads /\ o \in Nat \ {0}
  BY <1>1, KernelFacts, PlaceFacts DEF OfATile, Place, AtPlace, Scanning
<1>3. value \in {0, 1}
  <2>1. shared_quote_parity[t] \in {0, 1}
    BY DEF Place, Typed
  <2>2. t >= o => t - o \in Lanes
    BY <1>2, ThreadFacts DEF Lanes
  <2>3. (IF t >= o THEN shared_quote_parity[t - o] ELSE 0) \in {0, 1}
    BY <2>2 DEF Place, Typed
  <2> QED BY <2>1, <2>3, XorFacts
<1>4. Typed' /\ local'[t].offset = o
  <2>1. new \in Records /\ new.offset = o
    BY <1>3, PlaceFacts DEF Records
  <2>2. pc' \in [Lanes -> PcValues] /\ local' \in [Lanes -> Records] /\ local'[t] = new
    BY <1>1, <2>1, PlaceFacts DEF PcValues, Barriers
  <2> QED BY <1>1, <2>1, <2>2 DEF ReadRound, Place, Typed, Rows, bitmaps, quotes_rows, shared
<1>5. AtPlace(t)' /\ Phase(t)' = Phase(t) /\ Distance(t)' = Distance(t)
  BY <1>1, <1>2, <1>4 DEF AtPlace, OfTheKernel, Phase, OfATile, Carrying, Scanning, Distance
<1>6. \A u \in Lanes : u # t => local'[u] = local[u]
  BY <1>1, PlaceFacts
<1> QED BY <1>1, <1>4, <1>5, <1>6, StayPlace DEF Carrying, Scanning

LEMMA WritePlace ==
  ASSUME Place, NEW t \in Lanes, WriteRound(t)
  PROVE  Place'
<1> DEFINE o == local[t].offset
           new == [local[t] EXCEPT !.offset = 2 * o]
<1>1. /\ pc[t] = "write_round" /\ pc' = [pc EXCEPT ![t] = "written"] /\ pc'[t] = "written"
      /\ UNCHANGED <<program, text, kernel, tile>> /\ local' = [local EXCEPT ![t] = new]
  BY PlaceFacts DEF WriteRound, input
<1>2. tile[t] < Tiles(program, text) /\ kernel = 3 /\ o < Threads /\ o \in Nat \ {0}
  BY <1>1, KernelFacts, PlaceFacts DEF OfATile, Place, AtPlace, Scanning
<1>3. Typed' /\ local'[t].offset = 2 * o
  <2>1. new \in Records /\ new.offset = 2 * o
    BY <1>2, PlaceFacts, ThreadFacts DEF Records
  <2>2. pc' \in [Lanes -> PcValues] /\ local' \in [Lanes -> Records] /\ local'[t] = new
    BY <1>1, <2>1, PlaceFacts DEF PcValues, Barriers
  <2>3. shared_quote_parity' \in [Lanes -> {0, 1}]
    <3>1. local[t].value \in {0, 1}
      BY PlaceFacts DEF Records
    <3> QED BY <3>1 DEF WriteRound, Place, Typed
  <2> QED BY <1>1, <2>1, <2>2, <2>3 DEF WriteRound, Place, Typed, Rows, bitmaps, quotes_rows
<1>4. AtPlace(t)' /\ Phase(t)' = Phase(t) /\ Distance(t)' = Distance(t)
  BY <1>1, <1>2, <1>3 DEF AtPlace, OfTheKernel, Phase, OfATile, Carrying, Scanning, Distance
<1>5. \A u \in Lanes : u # t => local'[u] = local[u]
  BY <1>1, PlaceFacts
<1> QED BY <1>1, <1>3, <1>4, <1>5, StayPlace DEF Carrying, Scanning

LEMMA EmitPlace ==
  ASSUME Place, NEW t \in Lanes, EmitStrings(t)
  PROVE  Place'
<1> DEFINE before == Xor(CarriedParity(t), IF t = 0 THEN 0 ELSE shared_quote_parity[t - 1])
           in_string == InStringBits(local[t].quotes, before)
           new == [local[t] EXCEPT !.value = shared_quote_parity[LastLane]]
<1>1. /\ pc[t] = "emit" /\ pc' = [pc EXCEPT ![t] = "emitted"] /\ pc'[t] = "emitted"
      /\ UNCHANGED <<program, text, kernel, tile>> /\ local' = [local EXCEPT ![t] = new]
  BY PlaceFacts DEF EmitStrings, input
<1>2. tile[t] < Tiles(program, text) /\ kernel = 3 /\ local[t].offset >= Threads
  BY <1>1, KernelFacts, PlaceFacts DEF OfATile, Place, AtPlace
<1>3. in_string \in SUBSET Bits
  BY ComputedTypes
<1>4. Typed' /\ local'[t].offset = local[t].offset
  <2>1. shared_quote_parity[LastLane] \in {0, 1}
    BY ThreadFacts DEF Place, Typed
  <2>2. new \in Records /\ new.offset = local[t].offset
    BY <2>1, PlaceFacts DEF Records
  <2>3. pc' \in [Lanes -> PcValues] /\ local' \in [Lanes -> Records] /\ local'[t] = new
    BY <1>1, <2>2, PlaceFacts DEF PcValues, Barriers
  <2>4. quote_bitmap' \in Rows /\ in_string_bitmap' \in Rows
    <3>1. \/ quote_bitmap' = [quote_bitmap EXCEPT ![Word(t)] = in_string] /\ UNCHANGED in_string_bitmap
          \/ in_string_bitmap' = [in_string_bitmap EXCEPT ![Word(t)] = in_string] /\ UNCHANGED quote_bitmap
      BY DEF EmitStrings
    <3> HIDE DEF in_string
    <3> QED BY <1>1, <1>3, <3>1 DEF Place, Typed, Rows
  <2> QED BY <1>1, <2>2, <2>3, <2>4 DEF EmitStrings, Place, Typed, Rows, shared
<1>5. AtPlace(t)' /\ Phase(t)' = Phase(t)
  BY <1>1, <1>2, <1>4 DEF AtPlace, OfTheKernel, Phase, OfATile, Carrying, Scanning
<1>6. \A u \in Lanes : u # t => local'[u] = local[u]
  BY <1>1, PlaceFacts
<1> QED BY <1>1, <1>4, <1>5, <1>6, StayPlace DEF Carrying, Scanning

LEMMA CarryParityPlace ==
  ASSUME Place, NEW t \in Lanes, CarryParity(t)
  PROVE  Place'
<1>1. /\ pc[t] = "carry_parity" /\ NextTile(t) /\ UNCHANGED <<program, text, kernel>>
      /\ local' = local /\ kernel = 3 /\ tile[t] + 1 \in 0 .. Tiles(program, text)
      /\ tile[t] \in Nat
  BY KernelFacts, OwnWord, PlaceFacts DEF CarryParity, input, OfATile, Carrying
<1>2. previous_tile' \in {0, 1}
  <2>1. CarriedParity(t) \in {0, 1} /\ local[t].value \in {0, 1}
    BY PlaceFacts DEF CarriedParity, Place, Typed, Records
  <2> QED BY <2>1, XorFacts DEF CarryParity, Place, Typed
<1>3. pc' \in [Lanes -> PcValues] => Typed'
  <2>1. tile' = [tile EXCEPT ![t] = @ + 1]
    BY <1>1 DEF NextTile, Advance
  <2>2. tile' \in [Lanes -> 0 .. Tiles(program, text)]
    BY <1>1, <2>1, PlaceFacts
  <2> QED BY <1>1, <1>2, <2>2 DEF CarryParity, Place, Typed, Rows, bitmaps, quotes_rows
<1> QED BY <1>1, <1>3, CarriedPlace DEF Carrying

LEMMA FilterPlace ==
  ASSUME Place, NEW t \in Lanes, Filter(t)
  PROVE  Place'
<1>1. pc[t] = "filter" /\ Advance(t) /\ UNCHANGED <<program, text, kernel>> /\ local' = local
  BY DEF Filter, input
<1>2. pc' \in [Lanes -> PcValues] => Typed'
  <2> SUFFICES ASSUME pc' \in [Lanes -> PcValues] PROVE Typed'
    OBVIOUS
  <2>1. tile[t] + 1 \in 0 .. Tiles(program, text) /\ Word(t) \in PaddedWords(program, text)
    BY <1>1, OwnWord DEF OfATile
  <2>2. tile' \in [Lanes -> 0 .. Tiles(program, text)]
    BY <1>1, <2>1, PlaceFacts DEF Advance
  <2>3. operator_bitmap' \in Rows /\ open_close_bitmap' \in Rows /\ in_string_bitmap' \in Rows
    BY <1>1, <2>1 DEF Filter, Place, Typed, Rows
  <2> QED BY <1>1, <2>2, <2>3 DEF Filter, Place, Typed, Rows, shared
<1> QED BY <1>1, <1>2, AdvancePlace DEF Carrying

\* The threads of a barrier go on together.
LEMMA BarrierFacts ==
  ASSUME Place, NEW barrier \in Barriers, Barrier(barrier)
  PROVE  /\ UNCHANGED <<program, text, kernel, tile, local, shared, bitmaps>>
         /\ \A t \in Lanes : pc[t] = barrier /\ pc'[t] = AfterBarrier(barrier, t)
         /\ pc' = [t \in Lanes |-> AfterBarrier(barrier, t)]
BY DEF Barrier, Together, input

LEMMA BarrierPlace ==
  ASSUME Place, NEW barrier \in Barriers, Barrier(barrier)
  PROVE  Place'
<1>1. /\ UNCHANGED <<program, text, kernel, tile, local>>
      /\ UNCHANGED <<shared_slashes, shared_quote_parity, shared_utf_error, previous_tile,
                     slash_bitmap, quote_bitmap, real_quote_bitmap, in_string_bitmap,
                     operator_bitmap, open_close_bitmap, utf_error>>
      /\ \A t \in Lanes : pc[t] = barrier /\ pc'[t] = AfterBarrier(barrier, t)
      /\ pc' = [t \in Lanes |-> AfterBarrier(barrier, t)]
  BY BarrierFacts DEF shared, bitmaps, quotes_rows
\* where each of them goes, and that all go to the same phase
<1>2. ASSUME NEW t \in Lanes, barrier \in {"cleared", "carried"}
      PROVE  /\ pc'[t] \in Heads \cap PcValues /\ AtPlace(t)' /\ Phase(t)' = "entering"
             /\ (kernel \in {2, 3} => Round(t)' = Round(t)) /\ pc'[t] \notin Scanning
  <2>1. kernel \in 1 .. 4 /\ tile[t] \in 0 .. Tiles(program, text)
    BY <1>1, <1>2, KernelFacts, PlaceFacts
  <2>2. pc'[t] = LoopHead(t, tile[t])
    <3>1. barrier = "cleared" => tile[t] = 0
      BY <1>1 DEF Place, AtPlace
    <3> QED BY <1>1, <1>2, <3>1 DEF AfterBarrier
  <2> DEFINE x == LoopHead(t, tile[t])
  <2>3. /\ x \in Heads
        /\ \/ x = "exit"
           \/ x \in {"classify", "flagged"} /\ kernel = 1
           \/ x = "share" /\ kernel = 2
           \/ x = "load" /\ kernel = 3
           \/ x = "filter" /\ kernel = 4
        /\ x = "flagged" => program = "cujson"
        /\ x \in OfATile => tile[t] < Tiles(program, text)
        /\ x \in {"flagged", "exit"} => tile[t] = Tiles(program, text)
        /\ x = "exit" => ~(kernel = 1 /\ program = "cujson")
    BY <2>1, HeadFacts
  <2> HIDE DEF x
  <2>4. pc'[t] = x
    BY <2>2 DEF x
  <2>5. OfTheKernel(t)'
    BY <1>1, <2>1, <2>3, <2>4 DEF OfTheKernel
  <2>6. AtPlace(t)'
    BY <1>1, <2>3, <2>4, <2>5 DEF AtPlace, OfATile, Heads, Carrying, Scanning
  <2>7. Phase(t)' = "entering"
    BY <1>1, <2>3, <2>4 DEF Phase, Carrying, Heads
  <2>8. Round(t)' = Round(t)
    BY <1>1, <1>2, <2>3, <2>4 DEF Round, Carrying, Heads
  <2>9. x \in PcValues /\ x \notin Scanning
    BY <2>3 DEF PcValues, Barriers, Scanning, Heads
  <2> QED BY <2>3, <2>4, <2>6, <2>7, <2>8, <2>9
\* when they meet, they are in the same tile and the same round
<1>3. ASSUME NEW t \in Lanes, NEW u \in Lanes
      PROVE  /\ kernel \in {2, 3} => tile[t] = tile[u]
             /\ barrier \in {"loaded", "written", "combined"} => local[t].offset = local[u].offset
  <2>1. pc[t] = barrier /\ pc[u] = barrier
    BY <1>1
  <2>2. barrier \notin Carrying /\ barrier # "write_round"
    BY DEF Barriers, Carrying
  <2>3. kernel \in {2, 3} => tile[t] = tile[u]
    BY <2>1, <2>2 DEF Place, InStep, Round
  <2>4. barrier = "loaded" => local[t].offset = 1 /\ local[u].offset = 1
    BY <2>1 DEF Place, AtPlace
  <2>5. barrier \in {"written", "combined"} => local[t].offset = local[u].offset
    BY <2>1, <2>2 DEF Place, InStep, Scanning, Distance
  <2> QED BY <2>3, <2>4, <2>5
<1>4. ASSUME NEW t \in Lanes, barrier \notin {"cleared", "carried"}
      PROVE  /\ barrier = "flagged" => pc'[t] = "publish"
             /\ barrier = "shared" => pc'[t] = "resolve"
             /\ barrier = "resolved" => pc'[t] = "carry_escape"
             /\ barrier = "combined" => pc'[t] = "write_round"
             /\ barrier = "emitted" => pc'[t] = "carry_parity"
             /\ barrier \in {"loaded", "written"} =>
                  pc'[t] = IF local[t].offset < Threads THEN "read_round" ELSE "emit"
             /\ barrier \in {"flagged", "shared", "resolved", "combined", "emitted", "loaded", "written"}
  BY <1>1, <1>4 DEF AfterBarrier, MoreRounds, Barriers
<1>5. ASSUME NEW t \in Lanes, barrier \notin {"cleared", "carried"}
      PROVE  AtPlace(t)' /\ pc'[t] \in PcValues
  <2>1. pc[t] = barrier /\ AtPlace(t) /\ local[t].offset \in Nat \ {0}
    BY <1>1, PlaceFacts DEF Place
  <2>2. OfTheKernel(t)'
    BY <1>1, <1>4, <1>5, <2>1, KernelFacts DEF OfTheKernel, Scanning
  <2>3. pc'[t] \in PcValues
    BY <1>4, <1>5 DEF PcValues, Barriers
  <2> QED BY <1>1, <1>4, <1>5, <2>1, <2>2, <2>3, ThreadFacts DEF AtPlace, OfATile, Carrying, Scanning
<1>6. ASSUME NEW t \in Lanes, NEW u \in Lanes
      PROVE  /\ Phase(t)' = Phase(u)'
             /\ pc'[t] \in Carrying <=> pc'[u] \in Carrying
             /\ pc'[t] \in Scanning => Distance(t)' = Distance(u)'
  <2>1. CASE barrier \in {"cleared", "carried"}
    <3>1. pc'[t] \notin Carrying /\ pc'[u] \notin Carrying
      BY <1>2, <2>1 DEF Heads, Carrying
    <3> QED BY <1>2, <2>1, <3>1
  <2>2. CASE barrier \notin {"cleared", "carried"}
    <3>1. pc'[t] = pc'[u]
      BY <1>3, <1>4, <2>2
    <3>2. pc'[t] \in {"publish", "resolve", "carry_escape", "write_round", "carry_parity",
                     "read_round", "emit"}
      BY <1>4, <2>2
    <3>3. Phase(t)' = Phase(u)'
      BY <1>1, <3>1, <3>2 DEF Phase, Carrying
    <3>4. pc'[t] \in Scanning => local[t].offset = local[u].offset
      BY <1>3, <1>4, <2>2 DEF Scanning
    <3>5. pc'[t] \in Scanning => Distance(t)' = Distance(u)'
      BY <1>1, <3>1, <3>4 DEF Distance
    <3> QED BY <3>1, <3>3, <3>5
  <2> QED BY <2>1, <2>2
<1>7. \A t \in Lanes : AtPlace(t)' /\ pc'[t] \in PcValues
  BY <1>2, <1>5
<1>8. Typed'
  <2>1. pc' \in [Lanes -> PcValues]
    BY <1>1, <1>7
  <2> QED BY <1>1, <2>1 DEF Place, Typed, Rows
<1>9. InStep'
  <2>1. ASSUME NEW t \in Lanes, NEW u \in Lanes, kernel \in {2, 3} PROVE Round(t)' = Round(u)'
    BY <1>1, <1>3, <1>6, <2>1 DEF Round
  <2> QED BY <1>1, <1>6, <2>1 DEF InStep
<1> QED BY <1>7, <1>8, <1>9 DEF Place

LEMMA LaunchPlace ==
  ASSUME Place, Launch
  PROVE  Place' /\ \A t \in Lanes : pc'[t] = (IF kernel = 4 THEN "done" ELSE "start") /\ tile'[t] = 0
<1>1. /\ kernel \in 1 .. 4 /\ kernel' = kernel + 1 /\ UNCHANGED <<program, text, bitmaps>>
      /\ pc' = [t \in Lanes |-> IF kernel = 4 THEN "done" ELSE "start"]
      /\ tile' = [t \in Lanes |-> 0] /\ local' = [t \in Lanes |-> Registers]
  BY PlaceFacts DEF Launch, input
<1>2. PICK g \in {0, 1} : /\ shared_slashes' = [t \in Lanes |-> Garbage(g)]
                          /\ shared_quote_parity' = [t \in Lanes |-> g]
                          /\ shared_utf_error' = (g = 1) /\ previous_tile' = g
  BY DEF Launch
<1>3. Typed'
  <2>1. Registers \in Records
    <3>1. 1 \in 1 .. 2 * Threads
      BY ThreadFacts
    <3> QED BY <3>1 DEF Registers, Records
  <2>2. local' \in [Lanes -> Records]
    BY <1>1, <2>1
  <2>3. pc' \in [Lanes -> PcValues] /\ tile' \in [Lanes -> 0 .. Tiles(program, text)]
    BY <1>1, PlaceFacts DEF PcValues
  <2>4. shared_slashes' \in [Lanes -> SUBSET Bits]
    BY <1>2 DEF Garbage
  <2> QED BY <1>1, <1>2, <2>2, <2>3, <2>4 DEF Place, Typed, Rows, bitmaps, quotes_rows
<1>4. ASSUME NEW t \in Lanes PROVE AtPlace(t)'
  BY <1>1, <1>4 DEF AtPlace, OfTheKernel, OfATile, Carrying, Scanning
<1>5. InStep'
  BY <1>1 DEF InStep, Phase, Round, Distance, Carrying, Scanning, ClearsTogether
<1> QED BY <1>1, <1>3, <1>4, <1>5 DEF Place

-----------------------------------------------------------------------------
(***************************************************************************)
(* The scan that doubles its distance.                                     *)
(***************************************************************************)
LEMMA SpanStarts ==
  ASSUME Place, NEW t \in Lanes, NEW k \in Nat
  PROVE  Span(k, t, 1) = Parity(RealQuoteWord(text, WordAt(k, t)))
<1> DEFINE A == TileParity(text, k)
<1>1. t \in Nat /\ A[t] = Parity(RealQuoteWord(text, WordAt(k, t))) /\ A[t] \in {0, 1}
  BY ThreadFacts, PlaceFacts, TileParityFacts
<1> HIDE DEF A
<1>2. (IF t < 1 THEN 0 ELSE t - 1 + 1) = t
  BY <1>1
<1>3. OddCount(A, t, t) = A[t]
  BY <1>1, OddCountFacts
<1> QED BY <1>1, <1>2, <1>3, XorOfIsOddCount DEF Span, A

LEMMA SpanDoubles ==
  ASSUME NEW t \in Lanes, NEW k \in Nat, NEW d \in Nat \ {0}
  PROVE  /\ t >= d => t - d \in Lanes /\ Xor(Span(k, t, d), Span(k, t - d, d)) = Span(k, t, 2 * d)
         /\ t < d => Span(k, t, d) = Span(k, t, 2 * d)
         /\ Span(k, t, d) \in {0, 1} /\ Xor(Span(k, t, d), 0) = Span(k, t, d)
<1> DEFINE A == TileParity(text, k)
           from(i, e) == IF i < e THEN 0 ELSE i - e + 1
<1>1. t \in Nat
  BY ThreadFacts
<1>2. \A i \in Nat, e \in Nat : from(i, e) \in Int
  OBVIOUS
<1>3. \A i, e : Span(k, i, e) = OddCount(A, from(i, e), i)
  BY XorOfIsOddCount DEF Span
<1> HIDE DEF A
<1>4. ASSUME t >= d
      PROVE  t - d \in Lanes /\ Xor(Span(k, t, d), Span(k, t - d, d)) = Span(k, t, 2 * d)
  <2>1. t - d \in Lanes /\ t - d \in Nat
    BY <1>1, <1>4, ThreadFacts DEF Lanes
  <2>2. from(t, d) = (t - d) + 1 /\ from(t - d, d) = from(t, 2 * d)
    BY <1>1, <1>4
  <2>3. OddCount(A, from(t, 2 * d), t)
          = (OddCount(A, from(t, 2 * d), t - d) + OddCount(A, (t - d) + 1, t)) % 2
    <3>1. from(t, 2 * d) \in Int /\ t - d \in Int /\ t \in Int /\ from(t, 2 * d) <= (t - d) + 1
          /\ t - d <= t
      BY <1>1, <1>4
    <3> HIDE DEF from
    <3> QED BY <3>1, OddCountSplit
  <2>4. Span(k, t, d) \in Int /\ Span(k, t - d, d) \in Int
    <3>1. from(t, d) \in Int /\ from(t - d, d) \in Int
      BY <1>1, <2>1
    <3> HIDE DEF from
    <3> QED BY <1>1, <1>3, <2>1, <3>1, OddCountFacts
  <2> HIDE DEF from
  <2>5. Xor(Span(k, t, d), Span(k, t - d, d)) = Span(k, t, 2 * d)
    BY <1>3, <2>2, <2>3, <2>4 DEF Xor
  <2> QED BY <2>1, <2>5
<1>5. t < d => Span(k, t, d) = Span(k, t, 2 * d)
  BY <1>1 DEF Span
<1>6. Span(k, t, d) \in {0, 1}
  <2>1. from(t, d) \in Int
    BY <1>1
  <2> HIDE DEF from
  <2> QED BY <1>1, <1>3, <2>1, OddCountFacts
<1>7. Xor(Span(k, t, d), 0) = Span(k, t, d)
  BY <1>6 DEF Xor
<1> QED BY <1>1, <1>4, <1>5, <1>6, <1>7

LEMMA SpanIsAll ==
  ASSUME NEW t \in Lanes, NEW k, NEW d \in Nat, d >= Threads
  PROVE  Span(k, t, d) = XorOf(TileParity(text, k), 0, t)
<1>1. t < d
  BY ThreadFacts DEF Lanes
<1> QED BY <1>1 DEF Span

-----------------------------------------------------------------------------
(***************************************************************************)
(* Memory, step by step.                                                   *)
(***************************************************************************)
LEMMA MoveMemory ==
  ASSUME Place, Memory, NEW t \in Lanes, UNCHANGED <<program, text, kernel>>,
         \A u \in Lanes : u # t =>
           /\ pc'[u] = pc[u] /\ tile'[u] = tile[u] /\ local'[u] = local[u]
           /\ shared_slashes'[u] = shared_slashes[u]
           /\ shared_quote_parity'[u] = shared_quote_parity[u],
         Snapshot(t)', Shares(t)', CarryHolds'
  PROVE  Memory'
<1>1. ASSUME NEW u \in Lanes, u # t PROVE Snapshot(u)' /\ Shares(u)'
  <2>1. Snapshot(u) /\ Shares(u) /\ Slash(u)' = Slash(u) /\ Word(u)' = Word(u)
    BY <1>1 DEF Memory, Slash, Word
  <2>2. Snapshot(u)'
    BY <1>1, <2>1 DEF Snapshot, Span
  <2>3. Shares(u)'
    BY <1>1, <2>1 DEF Shares, Span
  <2> QED BY <2>2, <2>3
<1> QED BY <1>1 DEF Memory

\* The carry is the same when it is not written and nobody moves to another tile.
LEMMA CarryKept ==
  ASSUME Place, Memory, UNCHANGED <<program, text, kernel, tile, previous_tile>>,
         pc[0] = "start" => pc'[0] = "start"
  PROVE  CarryHolds'
BY ThreadFacts DEF Memory, CarryHolds

LEMMA StartMemory ==
  ASSUME Place, Memory, NEW t \in Lanes, Start(t)
  PROVE  Memory'
<1> DEFINE x == IF kernel \in ClearsTogether THEN "cleared" ELSE LoopHead(t, 0)
<1>1. /\ pc[t] = "start" /\ pc' = [pc EXCEPT ![t] = x] /\ tile[t] = 0 /\ kernel \in 1 .. 4
      /\ tile' = tile /\ local' = local /\ UNCHANGED <<program, text, kernel>>
      /\ UNCHANGED <<shared_slashes, shared_quote_parity>>
      /\ 0 \in 0 .. Tiles(program, text)
  BY PlaceFacts, KernelFacts DEF Start, input, Place, AtPlace
<1>2. x \in Heads \cup {"cleared"}
  BY <1>1, HeadFacts
<1> HIDE DEF x
<1>3. pc'[t] = x /\ \A u \in Lanes : u # t => pc'[u] = pc[u]
  BY <1>1, PlaceFacts
<1>4. Snapshot(t)' /\ Shares(t)'
  BY <1>2, <1>3 DEF Snapshot, Shares, OfTheScan, Scanning, Heads
<1>5. CarryHolds'
  <2>1. CASE t = 0
    <3>1. kernel \in {2, 3} => previous_tile' = 0
      BY <2>1 DEF Start
    <3>2. kernel \in {2, 3} => tile[LastLane] = 0
      <4> SUFFICES ASSUME kernel \in {2, 3} PROVE tile[LastLane] = 0
        OBVIOUS
      <4>1. Round(LastLane) = Round(t) /\ tile[LastLane] \in Nat
        BY ThreadFacts, PlaceFacts DEF Place, InStep
      <4> QED BY <1>1, <4>1 DEF Round, Carrying
    <3>3. EscapeEnters(text, 0) = 0 /\ ParityEnters(text, 0) = 0
      BY PlaceFacts, EscapeEntersTile, ParityStart
    <3> QED BY <1>1, <2>1, <3>1, <3>2, <3>3 DEF CarryHolds
  <2>2. CASE t # 0
    <3>1. previous_tile' = previous_tile
      BY <2>2 DEF Start
    <3> QED BY <1>1, <1>3, <2>2, <3>1, ThreadFacts, CarryKept
  <2> QED BY <2>1, <2>2
<1> QED BY <1>1, <1>3, <1>4, <1>5, MoveMemory

\* Kernels 1 and 4 share nothing.
LEMMA AdvanceMemory ==
  ASSUME Place, Memory, NEW t \in Lanes, Advance(t), pc[t] \in {"classify", "filter"},
         UNCHANGED <<program, text, kernel, local, shared_slashes, shared_quote_parity>>
  PROVE  Memory'
<1>1. kernel \in {1, 4} /\ tile[t] + 1 \in 0 .. Tiles(program, text)
  BY KernelFacts, OwnWord DEF OfATile
<1>2. pc' = [pc EXCEPT ![t] = LoopHead(t, tile[t] + 1)] /\ tile' = [tile EXCEPT ![t] = @ + 1]
  BY DEF Advance
<1>3. pc'[t] \in Heads
  <2>1. LoopHead(t, tile[t] + 1) \in Heads
    BY <1>1, HeadFacts
  <2> QED BY <1>2, <2>1, PlaceFacts
<1>4. Snapshot(t)' /\ Shares(t)'
  BY <1>3 DEF Snapshot, Shares, OfTheScan, Scanning, Heads
<1>5. CarryHolds'
  BY <1>1 DEF CarryHolds
<1> QED BY <1>2, <1>4, <1>5, PlaceFacts, MoveMemory

LEMMA PublishMemory ==
  ASSUME Place, Memory, NEW t \in Lanes, PublishError(t)
  PROVE  Memory'
<1>1. /\ pc[t] = "publish" /\ pc' = [pc EXCEPT ![t] = "exit"] /\ pc'[t] = "exit"
      /\ UNCHANGED <<program, text, kernel, tile, local>>
      /\ UNCHANGED <<shared_slashes, shared_quote_parity>> /\ kernel = 1
  BY PlaceFacts, KernelFacts DEF PublishError, input, shared
<1>2. Snapshot(t)' /\ Shares(t)' /\ CarryHolds'
  BY <1>1 DEF Snapshot, Shares, OfTheScan, Scanning, CarryHolds
<1> QED BY <1>1, <1>2, PlaceFacts, MoveMemory


\* Before the rows are read, they hold what the kernels before left there.
LEMMA RowOfThread ==
  ASSUME Place, RowsRight, NEW t \in Lanes, pc[t] \in OfATile
  PROVE  RowsHold(t, tile[t]) /\ Word(t) = WordAt(tile[t], t)
BY OwnWord, PlaceFacts DEF RowsRight

LEMMA ShareMemory ==
  ASSUME Place, Memory, RowsRight, NEW t \in Lanes, ShareSlashes(t)
  PROVE  Memory' /\ slash_bitmap[Word(t)] = Slash(t)
                 /\ quote_bitmap[Word(t)] = QuoteWord(text, Word(t))
<1> DEFINE new == [local[t] EXCEPT !.slash = slash_bitmap[Word(t)], !.quotes = quote_bitmap[Word(t)]]
<1>1. /\ pc[t] = "share" /\ pc' = [pc EXCEPT ![t] = "shared"] /\ pc'[t] = "shared" /\ kernel = 2
      /\ UNCHANGED <<program, text, kernel, tile, previous_tile, shared_quote_parity>>
      /\ local' = [local EXCEPT ![t] = new] /\ local'[t] = new
      /\ shared_slashes' = [shared_slashes EXCEPT ![t] = slash_bitmap[Word(t)]]
  BY PlaceFacts, KernelFacts DEF ShareSlashes, input
<1>2. slash_bitmap[Word(t)] = Slash(t) /\ quote_bitmap[Word(t)] = QuoteWord(text, Word(t))
  <2>1. RowsHold(t, tile[t]) /\ Word(t) = WordAt(tile[t], t)
    BY <1>1, RowOfThread DEF OfATile
  <2>2. Classified(t, tile[t]) /\ ~Resolved(t, tile[t]) /\ ~Emitted(t, tile[t])
    BY <1>1, PlaceFacts DEF Classified, Resolved, Emitted, Behind
  <2> QED BY <2>1, <2>2 DEF RowsHold, Slash
<1>3. new.slash = Slash(t) /\ new.quotes = QuoteWord(text, Word(t))
  BY <1>2, PlaceFacts DEF Records
<1> HIDE DEF new
<1>4. Slash(t)' = Slash(t) /\ Word(t)' = Word(t)
  BY <1>1 DEF Slash, Word
<1>5. Snapshot(t)'
  BY <1>1, <1>3, <1>4 DEF Snapshot, OfTheScan, Scanning
<1>6. shared_slashes'[t] = Slash(t) /\ \A u \in Lanes : u # t => shared_slashes'[u] = shared_slashes[u]
  BY <1>1, <1>2 DEF Place, Typed
<1>7. Shares(t)'
  BY <1>1, <1>4, <1>6 DEF Shares, OfTheScan, Scanning
<1>8. CarryHolds'
  BY <1>1, ThreadFacts, PlaceFacts, CarryKept
<1> QED BY <1>1, <1>2, <1>5, <1>6, <1>7, <1>8, PlaceFacts, MoveMemory

\* A thread that resolves its word finds the words below it and the carry.
LEMMA ResolveContext ==
  ASSUME Place, Memory, NEW t \in Lanes, pc[t] = "resolve"
  PROVE  /\ kernel = 2 /\ local[t].slash = Slash(t) /\ local[t].quotes = QuoteWord(text, Word(t))
         /\ previous_tile = EscapeEnters(text, tile[t])
         /\ LooksBack(program, t, QuoteWord(text, Word(t)), Slash(t)) =>
              IncomingEscape(program, t, local[t].quotes, local[t].slash, shared_slashes, previous_tile)
                = EscapeAt(text, Word(t))
<1>1. kernel = 2 /\ local[t].slash = Slash(t) /\ local[t].quotes = QuoteWord(text, Word(t))
  BY KernelFacts DEF Memory, Snapshot
<1>2. ASSUME NEW u \in Lanes PROVE tile[u] = tile[t] /\ pc[u] \in {"resolve", "resolved"}
  <2>1. Phase(u) = Phase(t) /\ Round(u) = Round(t)
    BY <1>1 DEF Place, InStep
  <2>2. pc[u] \in {"resolve", "resolved"}
    BY <2>1, PhaseFacts, PlaceFacts
  <2> QED BY <2>1, <2>2 DEF Round, Carrying
<1>3. previous_tile = EscapeEnters(text, tile[t])
  BY <1>1, <1>2, ThreadFacts DEF Memory, CarryHolds
<1>4. \A j \in 0 .. t - 1 : shared_slashes[j] = SlashWord(text, WordAt(tile[t], j))
  <2> SUFFICES ASSUME NEW j \in 0 .. t - 1
               PROVE  shared_slashes[j] = SlashWord(text, WordAt(tile[t], j))
    OBVIOUS
  <2>1. j \in Lanes
    BY ThreadFacts DEF Lanes
  <2>2. shared_slashes[j] = Slash(j)
    BY <1>2, <2>1 DEF Memory, Shares
  <2> QED BY <1>2, <2>1, <2>2 DEF Slash, Word
<1>5. TileEscape(t, shared_slashes, previous_tile) = EscapeAt(text, Word(t))
  BY <1>3, <1>4, PlaceFacts, TileEscapeFinds
<1> QED BY <1>1, <1>3, <1>5 DEF IncomingEscape

LEMMA ResolveMemory ==
  ASSUME Place, Memory, NEW t \in Lanes, Resolve(t)
  PROVE  Memory'
<1> DEFINE incoming == IncomingEscape(program, t, local[t].quotes, local[t].slash, shared_slashes,
                                      previous_tile)
           new == [local[t] EXCEPT !.outgoing = OutgoingEscape(local[t].slash, incoming)]
<1>1. /\ pc[t] = "resolve" /\ pc' = [pc EXCEPT ![t] = "resolved"] /\ pc'[t] = "resolved"
      /\ UNCHANGED <<program, text, kernel, tile, shared_slashes, shared_quote_parity, previous_tile>>
      /\ local' = [local EXCEPT ![t] = new] /\ local'[t] = new
  BY PlaceFacts DEF Resolve, input, shared
<1>2. /\ kernel = 2 /\ local[t].slash = Slash(t)
      /\ LooksBack(program, t, QuoteWord(text, Word(t)), Slash(t)) => incoming = EscapeAt(text, Word(t))
      /\ shared_slashes[t] = Slash(t)
  BY <1>1, ResolveContext DEF Memory, Shares
<1>3. new.slash = local[t].slash /\ new.outgoing = OutgoingEscape(local[t].slash, incoming)
  BY PlaceFacts DEF Records
<1> HIDE DEF new, incoming
<1>4. t = LastLane => new.outgoing = EscapeEnters(text, tile[t] + 1)
  <2> SUFFICES ASSUME t = LastLane PROVE OutgoingEscape(Slash(t), incoming) = EscapeEnters(text, tile[t] + 1)
    BY <1>2, <1>3
  <2>1. Word(t) = WordAt(tile[t], LastLane) /\ tile[t] \in Nat /\ IsText(text) /\ program \in Programs
    BY PlaceFacts DEF Place, Typed
  <2> QED BY <1>2, <2>1, LastLaneHandsOn DEF Slash
<1>5. Slash(t)' = Slash(t) /\ Word(t)' = Word(t)
  BY <1>1 DEF Slash, Word
<1>6. Snapshot(t)'
  BY <1>1, <1>2, <1>3, <1>4, <1>5 DEF Snapshot, OfTheScan, Scanning
<1>7. Shares(t)'
  BY <1>1, <1>2, <1>5 DEF Shares, OfTheScan, Scanning
<1>8. CarryHolds'
  BY <1>1, ThreadFacts, PlaceFacts, CarryKept
<1> QED BY <1>1, <1>6, <1>7, <1>8, PlaceFacts, MoveMemory

\* Behind the last barrier of a tile a thread only carries.
LEMMA NextTileFacts ==
  ASSUME Place, NEW t \in Lanes, NextTile(t), pc[t] \in Carrying, UNCHANGED <<program, text, kernel>>
  PROVE  /\ kernel \in {2, 3} /\ tile' = [tile EXCEPT ![t] = @ + 1] /\ tile'[t] = tile[t] + 1
         /\ pc'[t] \in Heads \cup {"carried"}
         /\ \A u \in Lanes : u # t => pc'[u] = pc[u] /\ tile'[u] = tile[u]
<1>1. kernel \in {2, 3} /\ tile[t] + 1 \in 0 .. Tiles(program, text)
  BY KernelFacts, OwnWord DEF OfATile, Carrying
<1>2. LoopHead(t, tile[t] + 1) \in Heads
  BY <1>1, HeadFacts
<1>3. CASE program = "gpjson"
  BY <1>1, <1>3, PlaceFacts DEF NextTile
<1>4. CASE program # "gpjson"
  BY <1>1, <1>2, <1>4, PlaceFacts DEF NextTile, Advance
<1> QED BY <1>3, <1>4

LEMMA CarryEscapeMemory ==
  ASSUME Place, Memory, NEW t \in Lanes, CarryEscape(t)
  PROVE  Memory'
<1>1. /\ pc[t] = "carry_escape" /\ NextTile(t) /\ kernel = 2
      /\ UNCHANGED <<program, text, kernel, local, shared_slashes, shared_quote_parity>>
  BY KernelFacts DEF CarryEscape, input
<1>2. /\ tile'[t] = tile[t] + 1 /\ pc'[t] \in Heads \cup {"carried"}
      /\ \A u \in Lanes : u # t => pc'[u] = pc[u] /\ tile'[u] = tile[u]
  BY <1>1, NextTileFacts DEF Carrying
<1>3. Snapshot(t)' /\ Shares(t)'
  BY <1>2 DEF Snapshot, Shares, OfTheScan, Scanning, Heads
<1>4. CarryHolds'
  <2>1. CASE t = LastLane
    <3>1. previous_tile' = EscapeEnters(text, tile[t] + 1)
      BY <1>1, <2>1 DEF CarryEscape, Memory, Snapshot
    <3> QED BY <1>1, <1>2, <2>1, <3>1 DEF CarryHolds
  <2>2. CASE t # LastLane
    <3>1. previous_tile' = previous_tile /\ tile'[LastLane] = tile[LastLane]
      BY <1>2, <2>2, ThreadFacts DEF CarryEscape
    <3>2. pc[0] = "start" => pc'[0] = "start"
      BY <1>1, <1>2, ThreadFacts
    <3> QED BY <1>1, <3>1, <3>2 DEF CarryHolds, Memory
  <2> QED BY <2>1, <2>2
<1> QED BY <1>1, <1>2, <1>3, <1>4, MoveMemory

LEMMA LoadMemory ==
  ASSUME Place, Memory, RowsRight, NEW t \in Lanes, LoadParity(t)
  PROVE  Memory'
<1> DEFINE real == IF program = "gpjson" THEN quote_bitmap[Word(t)] ELSE real_quote_bitmap[Word(t)]
           new == [local[t] EXCEPT !.quotes = real, !.parity = previous_tile, !.offset = 1]
<1>1. /\ pc[t] = "load" /\ pc' = [pc EXCEPT ![t] = "loaded"] /\ pc'[t] = "loaded" /\ kernel = 3
      /\ UNCHANGED <<program, text, kernel, tile, previous_tile, shared_slashes>>
      /\ local' = [local EXCEPT ![t] = new] /\ local'[t] = new
      /\ shared_quote_parity' = [shared_quote_parity EXCEPT ![t] = Parity(real)]
  BY PlaceFacts, KernelFacts DEF LoadParity, input
<1>2. real = RealQuoteWord(text, Word(t))
  <2>1. RowsHold(t, tile[t]) /\ Word(t) = WordAt(tile[t], t)
    BY <1>1, RowOfThread DEF OfATile
  <2>2. Classified(t, tile[t]) /\ Resolved(t, tile[t]) /\ ~Emitted(t, tile[t])
    BY <1>1, PlaceFacts DEF Classified, Resolved, Emitted, Behind
  <2> QED BY <2>1, <2>2, PlaceFacts DEF RowsHold
\* gpJSON takes the parity here: everybody has passed the barrier behind the carry
<1>3. program = "gpjson" => previous_tile = ParityEnters(text, tile[t])
  <2> SUFFICES ASSUME program = "gpjson" PROVE previous_tile = ParityEnters(text, tile[t])
    OBVIOUS
  <2>1. Phase(0) = Phase(t) /\ Round(0) = Round(t) /\ Phase(t) = "entering"
    BY <1>1, ThreadFacts DEF Place, InStep, Phase, Carrying
  <2>2. pc[0] # "start" /\ pc[0] \notin Carrying
    BY <1>1, <2>1 DEF Phase, ClearsTogether, Carrying
  <2>3. tile[0] = tile[t]
    BY <1>1, <2>1, <2>2 DEF Round, Carrying
  <2> QED BY <1>1, <2>2, <2>3 DEF Memory, CarryHolds
<1>4. new.quotes = real /\ new.parity = previous_tile /\ new.offset = 1
  BY PlaceFacts DEF Records
<1> HIDE DEF new, real
<1>5. Word(t)' = Word(t)
  BY <1>1 DEF Word
<1>6. Snapshot(t)'
  BY <1>1, <1>2, <1>3, <1>4, <1>5 DEF Snapshot, OfTheScan, Scanning
<1>7. Shares(t)'
  <2>1. shared_quote_parity'[t] = Parity(real)
    BY <1>1 DEF Place, Typed
  <2>2. Parity(real) = Span(tile[t], t, 1)
    BY <1>2, PlaceFacts, SpanStarts
  <2>3. Span(tile[t], t, 1)' = Span(tile[t], t, 1)
    BY <1>1 DEF Span
  <2> QED BY <1>1, <1>4, <2>1, <2>2, <2>3 DEF Shares, Span
<1>8. CarryHolds'
  BY <1>1, ThreadFacts, PlaceFacts, CarryKept
<1> QED BY <1>1, <1>6, <1>7, <1>8, PlaceFacts, MoveMemory

\* A thread that reads a round finds what all lanes wrote in the round before.
LEMMA ReadContext ==
  ASSUME Place, Memory, NEW t \in Lanes, pc[t] = "read_round", NEW u \in Lanes
  PROVE  kernel = 3 /\ shared_quote_parity[u] = Span(tile[t], u, local[t].offset)
<1>1. kernel = 3
  BY KernelFacts DEF Scanning
<1>2. Phase(u) = Phase(t) /\ Round(u) = Round(t) /\ Distance(t) = Distance(u)
  BY <1>1 DEF Place, InStep, Scanning
<1>3. pc[u] \in {"read_round", "combined"}
  BY <1>2, PhaseFacts, PlaceFacts
<1>4. tile[u] = tile[t] /\ local[u].offset = local[t].offset
  BY <1>2, <1>3 DEF Round, Carrying, Distance
<1> QED BY <1>1, <1>3, <1>4 DEF Memory, Shares, OfTheScan, Scanning

LEMMA ReadMemory ==
  ASSUME Place, Memory, NEW t \in Lanes, ReadRound(t)
  PROVE  Memory'
<1> DEFINE offset == local[t].offset
           value == Xor(shared_quote_parity[t],
                        IF t >= offset THEN shared_quote_parity[t - offset] ELSE 0)
           new == [local[t] EXCEPT !.value = value]
<1>1. /\ pc[t] = "read_round" /\ pc' = [pc EXCEPT ![t] = "combined"] /\ pc'[t] = "combined"
      /\ UNCHANGED <<program, text, kernel, tile, previous_tile, shared_slashes, shared_quote_parity>>
      /\ local' = [local EXCEPT ![t] = new] /\ local'[t] = new
  BY PlaceFacts DEF ReadRound, input, shared
<1>2. offset \in Nat \ {0} /\ tile[t] \in Nat /\ t \in Nat
  BY PlaceFacts, ThreadFacts
<1>3. value = Span(tile[t], t, 2 * offset)
  <2> HIDE DEF offset
  <2>1. /\ t >= offset => t - offset \in Lanes
                          /\ Xor(Span(tile[t], t, offset), Span(tile[t], t - offset, offset))
                               = Span(tile[t], t, 2 * offset)
        /\ t < offset => Span(tile[t], t, offset) = Span(tile[t], t, 2 * offset)
        /\ Xor(Span(tile[t], t, offset), 0) = Span(tile[t], t, offset)
    BY <1>2, SpanDoubles
  <2>2. \A u \in Lanes : shared_quote_parity[u] = Span(tile[t], u, offset)
    BY <1>1, ReadContext DEF offset
  <2>3. CASE t >= offset
    BY <2>1, <2>2, <2>3
  <2>4. CASE ~(t >= offset)
    BY <1>2, <2>1, <2>2, <2>4
  <2> QED BY <2>3, <2>4
<1>4. /\ new.value = value /\ new.offset = offset /\ new.quotes = local[t].quotes
      /\ new.parity = local[t].parity
  BY PlaceFacts DEF Records
<1> HIDE DEF new, value
<1>5. Word(t)' = Word(t)
  BY <1>1 DEF Word
<1>6. Snapshot(t)'
  BY <1>1, <1>3, <1>4, <1>5 DEF Snapshot, OfTheScan, Scanning, Memory, Span
<1>7. Shares(t)'
  BY <1>1, <1>4 DEF Shares, OfTheScan, Scanning, Memory, Span
<1>8. CarryHolds'
  BY <1>1, ThreadFacts, PlaceFacts, CarryKept
<1> QED BY <1>1, <1>6, <1>7, <1>8, PlaceFacts, MoveMemory

LEMMA WriteMemory ==
  ASSUME Place, Memory, NEW t \in Lanes, WriteRound(t)
  PROVE  Memory'
<1> DEFINE offset == local[t].offset
           new == [local[t] EXCEPT !.offset = 2 * offset]
<1>1. /\ pc[t] = "write_round" /\ pc' = [pc EXCEPT ![t] = "written"] /\ pc'[t] = "written"
      /\ UNCHANGED <<program, text, kernel, tile, previous_tile, shared_slashes>>
      /\ local' = [local EXCEPT ![t] = new] /\ local'[t] = new
  BY PlaceFacts DEF WriteRound, input
<1>2. offset \in Nat \ {0} /\ tile[t] \in Nat /\ t \in Nat
  BY PlaceFacts, ThreadFacts
<1>3. local[t].value = Span(tile[t], t, 2 * offset) /\ shared_quote_parity[t] = Span(tile[t], t, offset)
  BY <1>1 DEF Memory, Snapshot, Shares, OfTheScan, Scanning
<1>4. new.offset = 2 * offset /\ new.quotes = local[t].quotes /\ new.parity = local[t].parity
  BY PlaceFacts DEF Records
<1>5. shared_quote_parity'[t] = Span(tile[t], t, 2 * offset)
  <2>1. CASE t >= offset
    BY <1>3, <2>1 DEF WriteRound, Place, Typed
  <2>2. CASE ~(t >= offset)
    <3>1. t < offset => Span(tile[t], t, offset) = Span(tile[t], t, 2 * offset)
      BY <1>2, SpanDoubles
    <3>2. shared_quote_parity'[t] = shared_quote_parity[t]
      BY <2>2 DEF WriteRound
    <3> QED BY <1>2, <1>3, <2>2, <3>1, <3>2
  <2> QED BY <2>1, <2>2
<1>6. \A u \in Lanes : u # t => shared_quote_parity'[u] = shared_quote_parity[u]
  BY DEF WriteRound, Place, Typed
<1> HIDE DEF new
<1>7. Word(t)' = Word(t)
  BY <1>1 DEF Word
<1>8. Snapshot(t)'
  BY <1>1, <1>4, <1>7 DEF Snapshot, OfTheScan, Scanning, Memory
<1>9. Shares(t)'
  BY <1>1, <1>4, <1>5 DEF Shares, OfTheScan, Scanning, Span
<1>10. CarryHolds'
  BY <1>1, ThreadFacts, PlaceFacts, CarryKept
<1> QED BY <1>1, <1>6, <1>8, <1>9, <1>10, PlaceFacts, MoveMemory

\* A thread that emits finds the inclusive scan of its tile and the carry.
LEMMA EmitContext ==
  ASSUME Place, Memory, NEW t \in Lanes, pc[t] = "emit"
  PROVE  /\ kernel = 3 /\ local[t].quotes = RealQuoteWord(text, Word(t))
         /\ CarriedParity(t) = ParityEnters(text, tile[t])
         /\ \A u \in Lanes : shared_quote_parity[u] = XorOf(TileParity(text, tile[t]), 0, u)
<1>1. kernel = 3 /\ local[t].quotes = RealQuoteWord(text, Word(t))
  BY KernelFacts DEF Memory, Snapshot, OfTheScan, Scanning
<1>2. ASSUME NEW u \in Lanes
      PROVE  tile[u] = tile[t] /\ pc[u] \in {"emit", "emitted"} /\ local[u].offset >= Threads
  <2>1. Phase(u) = Phase(t) /\ Round(u) = Round(t)
    BY <1>1 DEF Place, InStep
  <2>2. pc[u] \in {"emit", "emitted"}
    BY <2>1, PhaseFacts, PlaceFacts
  <2> QED BY <2>1, <2>2 DEF Round, Carrying, Place, AtPlace
<1>3. ASSUME NEW u \in Lanes
      PROVE  shared_quote_parity[u] = XorOf(TileParity(text, tile[t]), 0, u)
  <2>1. shared_quote_parity[u] = Span(tile[t], u, local[u].offset)
    BY <1>2 DEF Memory, Shares, OfTheScan, Scanning
  <2>2. local[u].offset \in Nat /\ local[u].offset >= Threads
    BY <1>2, PlaceFacts
  <2> QED BY <2>1, <2>2, SpanIsAll
<1>4. CarriedParity(t) = ParityEnters(text, tile[t])
  <2>1. CASE program = "gpjson"
    BY <2>1 DEF CarriedParity, Memory, Snapshot, OfTheScan
  <2>2. CASE program # "gpjson"
    BY <1>1, <1>2, <2>2, ThreadFacts DEF CarriedParity, Memory, CarryHolds
  <2> QED BY <2>1, <2>2
<1> QED BY <1>1, <1>3, <1>4

LEMMA EmitMemory ==
  ASSUME Place, Memory, NEW t \in Lanes, EmitStrings(t)
  PROVE  Memory'
<1> DEFINE new == [local[t] EXCEPT !.value = shared_quote_parity[LastLane]]
<1>1. /\ pc[t] = "emit" /\ pc' = [pc EXCEPT ![t] = "emitted"] /\ pc'[t] = "emitted"
      /\ UNCHANGED <<program, text, kernel, tile, previous_tile, shared_slashes, shared_quote_parity>>
      /\ local' = [local EXCEPT ![t] = new] /\ local'[t] = new
  BY PlaceFacts DEF EmitStrings, input, shared
<1>2. shared_quote_parity[LastLane] = XorOf(TileParity(text, tile[t]), 0, LastLane)
  BY <1>1, EmitContext, ThreadFacts
<1>3. /\ new.value = shared_quote_parity[LastLane] /\ new.offset = local[t].offset
      /\ new.quotes = local[t].quotes /\ new.parity = local[t].parity
  BY PlaceFacts DEF Records
<1> HIDE DEF new
<1>4. Word(t)' = Word(t)
  BY <1>1 DEF Word
<1>5. Snapshot(t)'
  BY <1>1, <1>2, <1>3, <1>4 DEF Snapshot, OfTheScan, Scanning, Memory
<1>6. Shares(t)'
  BY <1>1, <1>3 DEF Shares, OfTheScan, Scanning, Memory, Span
<1>7. CarryHolds'
  BY <1>1, ThreadFacts, PlaceFacts, CarryKept
<1> QED BY <1>1, <1>5, <1>6, <1>7, PlaceFacts, MoveMemory

LEMMA CarryParityMemory ==
  ASSUME Place, Memory, NEW t \in Lanes, CarryParity(t)
  PROVE  Memory'
<1>1. /\ pc[t] = "carry_parity" /\ NextTile(t) /\ kernel = 3
      /\ UNCHANGED <<program, text, kernel, local, shared_slashes, shared_quote_parity>>
  BY KernelFacts DEF CarryParity, input
<1>2. /\ tile'[t] = tile[t] + 1 /\ pc'[t] \in Heads \cup {"carried"}
      /\ \A u \in Lanes : u # t => pc'[u] = pc[u] /\ tile'[u] = tile[u]
  BY <1>1, NextTileFacts DEF Carrying
<1>3. Snapshot(t)' /\ Shares(t)'
  BY <1>2 DEF Snapshot, Shares, OfTheScan, Scanning, Heads
<1>4. CarryHolds'
  <2>1. CASE t = 0
    <3>1. CarriedParity(t) = ParityEnters(text, tile[t])
      <4>1. CASE program = "gpjson"
        BY <1>1, <4>1 DEF CarriedParity, Memory, Snapshot
      <4>2. CASE program # "gpjson"
        BY <1>1, <2>1, <4>2 DEF CarriedParity, Memory, CarryHolds
      <4> QED BY <4>1, <4>2
    <3>2. local[t].value = XorOf(TileParity(text, tile[t]), 0, LastLane)
      BY <1>1 DEF Memory, Snapshot
    <3>3. previous_tile' = ParityEnters(text, tile[t] + 1)
      BY <2>1, <3>1, <3>2, PlaceFacts, TileParityLeaves DEF CarryParity
    <3> QED BY <1>1, <1>2, <2>1, <3>3 DEF CarryHolds
  <2>2. CASE t # 0
    BY <1>1, <1>2, <2>2, ThreadFacts DEF CarryParity, CarryHolds, Memory
  <2> QED BY <2>1, <2>2
<1> QED BY <1>1, <1>2, <1>3, <1>4, MoveMemory

LEMMA BarrierMemory ==
  ASSUME Place, Memory, NEW barrier \in Barriers, Barrier(barrier)
  PROVE  Memory'
<1>1. /\ UNCHANGED <<program, text, kernel, tile, local>>
      /\ UNCHANGED <<shared_slashes, shared_quote_parity, previous_tile>>
      /\ \A t \in Lanes : pc[t] = barrier /\ pc'[t] = AfterBarrier(barrier, t)
  BY BarrierFacts DEF shared
<1>2. ASSUME NEW t \in Lanes
      PROVE  \/ pc'[t] \in Heads \cup {"publish"}
             \/ barrier = "shared" /\ pc'[t] = "resolve"
             \/ barrier = "resolved" /\ pc'[t] = "carry_escape"
             \/ barrier = "combined" /\ pc'[t] = "write_round"
             \/ barrier = "emitted" /\ pc'[t] = "carry_parity"
             \/ barrier \in {"loaded", "written"} /\ pc'[t] \in {"read_round", "emit"}
  <2>1. CASE barrier \in {"cleared", "carried"}
    <3>1. kernel \in 1 .. 4 /\ tile[t] \in 0 .. Tiles(program, text) /\ 0 \in 0 .. Tiles(program, text)
      BY <1>1, <2>1, KernelFacts, PlaceFacts
    <3>2. LoopHead(t, 0) \in Heads /\ LoopHead(t, tile[t]) \in Heads
      BY <3>1, HeadFacts
    <3> QED BY <1>1, <2>1, <3>2 DEF AfterBarrier
  <2>2. CASE barrier \notin {"cleared", "carried"}
    BY <1>1, <2>2 DEF AfterBarrier, Barriers
  <2> QED BY <2>1, <2>2
<1>3. ASSUME NEW t \in Lanes PROVE Snapshot(t)' /\ Shares(t)'
  <2>1. Snapshot(t) /\ Shares(t) /\ Slash(t)' = Slash(t) /\ Word(t)' = Word(t) /\ pc[t] = barrier
    BY <1>1 DEF Memory, Slash, Word
  <2>2. Snapshot(t)'
    BY <1>1, <1>2, <2>1 DEF Snapshot, OfTheScan, Scanning, Heads, Span
  <2>3. Shares(t)'
    BY <1>1, <1>2, <2>1 DEF Shares, OfTheScan, Scanning, Heads, Span
  <2> QED BY <2>2, <2>3
<1>4. CarryHolds'
  <2>1. pc[0] # "start"
    BY <1>1, ThreadFacts DEF Barriers
  <2> QED BY <1>1, <2>1, CarryKept
<1> QED BY <1>3, <1>4 DEF Memory

LEMMA LaunchMemory ==
  ASSUME Place, Launch
  PROVE  Memory'
<1>1. pc' = [t \in Lanes |-> IF kernel = 4 THEN "done" ELSE "start"] /\ kernel' = kernel + 1
      /\ kernel \in 1 .. 4
  BY PlaceFacts DEF Launch
<1>2. ASSUME NEW t \in Lanes PROVE Snapshot(t)' /\ Shares(t)'
  <2>1. pc'[t] \in {"done", "start"}
    BY <1>1
  <2> QED BY <2>1 DEF Snapshot, Shares, OfTheScan, Scanning
<1>3. CarryHolds'
  <2>1. pc'[0] = "start" \/ kernel' = 5
    BY <1>1, ThreadFacts
  <2> QED BY <2>1 DEF CarryHolds
<1> QED BY <1>2, <1>3 DEF Memory

-----------------------------------------------------------------------------
(***************************************************************************)
(* The rows, step by step.                                                 *)
(***************************************************************************)
\* The step takes no lane past a write on this word.
PassesNothing(t, k) ==
  /\ Classified(t, k)' <=> Classified(t, k)
  /\ Resolved(t, k)' <=> Resolved(t, k)
  /\ Emitted(t, k)' <=> Emitted(t, k)
  /\ Filtered(t, k)' <=> Filtered(t, k)

\* The word of a lane in a tile keeps what it holds when the step writes elsewhere
\* and the lane passes no write of its own.
LEMMA RowKept ==
  ASSUME NEW t \in Lanes, NEW k \in Nat, RowsHold(t, k), UNCHANGED <<program, text>>,
         slash_bitmap'[WordAt(k, t)] = slash_bitmap[WordAt(k, t)],
         quote_bitmap'[WordAt(k, t)] = quote_bitmap[WordAt(k, t)],
         real_quote_bitmap'[WordAt(k, t)] = real_quote_bitmap[WordAt(k, t)],
         in_string_bitmap'[WordAt(k, t)] = in_string_bitmap[WordAt(k, t)],
         operator_bitmap'[WordAt(k, t)] = operator_bitmap[WordAt(k, t)],
         open_close_bitmap'[WordAt(k, t)] = open_close_bitmap[WordAt(k, t)],
         PassesNothing(t, k)
  PROVE  RowsHold(t, k)'
<1> DEFINE w == WordAt(k, t)
<1>1. /\ SlashWord(text, w)' = SlashWord(text, w) /\ QuoteWord(text, w)' = QuoteWord(text, w)
      /\ InStringWord(text, w)' = InStringWord(text, w)
      /\ RealQuoteWord(text, w)' = RealQuoteWord(text, w)
      /\ StructuralWord(text, w)' = StructuralWord(text, w)
      /\ OperatorWord(text, w)' = OperatorWord(text, w)
      /\ OpenCloseWord(text, w)' = OpenCloseWord(text, w)
      /\ OpenCloseResult(text, w)' = OpenCloseResult(text, w)
  OBVIOUS
<1> QED BY <1>1 DEF RowsHold, PassesNothing

rows == <<slash_bitmap, quotes_rows, operator_bitmap, open_close_bitmap>>

\* No lane passes a write.
LEMMA SteadyRows ==
  ASSUME Place, RowsRight, UNCHANGED <<program, text, rows>>,
         \A t \in Lanes : \A k \in 0 .. Tiles(program, text) - 1 : PassesNothing(t, k)
  PROVE  RowsRight'
<1>1. ASSUME NEW t \in Lanes, NEW k \in 0 .. Tiles(program, text) - 1 PROVE RowsHold(t, k)'
  <2>1. k \in Nat /\ RowsHold(t, k)
    BY PlaceFacts DEF RowsRight
  <2>2. PassesNothing(t, k)
    OBVIOUS
  <2>3. UNCHANGED <<slash_bitmap, quote_bitmap, real_quote_bitmap, in_string_bitmap,
                    operator_bitmap, open_close_bitmap>>
    BY DEF rows, quotes_rows
  <2> QED BY <2>1, <2>2, <2>3, RowKept
<1> QED BY <1>1 DEF RowsRight

\* The steps behind the write of a kernel on a word of the tile.
Writing == {"resolved", "carry_escape", "emitted", "carry_parity"}

\* The other words of the lane, and those of the other lanes.
LEMMA PassesElsewhere ==
  ASSUME Place, NEW t \in Lanes, UNCHANGED <<program, text, kernel>>,
         \A u \in Lanes : u # t => pc'[u] = pc[u] /\ tile'[u] = tile[u],
         \/ tile'[t] = tile[t]
         \/ tile'[t] = tile[t] + 1 /\ pc'[t] \notin Writing,
         NEW u \in Lanes, NEW k \in Nat, u # t \/ k # tile[t]
  PROVE  PassesNothing(u, k)
<1>1. CASE u # t
  BY <1>1 DEF PassesNothing, Classified, Resolved, Emitted, Filtered, Behind
<1>2. CASE u = t /\ k # tile[t]
  <2>1. tile[t] \in Nat
    BY PlaceFacts
  <2> QED BY <1>2, <2>1 DEF PassesNothing, Classified, Resolved, Emitted, Filtered, Behind, Writing
<1> QED BY <1>1, <1>2

\* A step within a tile that does not write to the rows.
LEMMA QuietRows ==
  ASSUME Place, RowsRight, NEW t \in Lanes, UNCHANGED <<program, text, kernel, tile, rows>>,
         \A u \in Lanes : u # t => pc'[u] = pc[u],
         pc[t] \notin Writing, pc'[t] \notin Writing
  PROVE  RowsRight'
<1>1. ASSUME NEW u \in Lanes, NEW k \in 0 .. Tiles(program, text) - 1 PROVE PassesNothing(u, k)
  <2>1. k \in Nat
    BY PlaceFacts
  <2>2. CASE u # t \/ k # tile[t]
    BY <2>1, <2>2, PassesElsewhere
  <2>3. CASE u = t /\ k = tile[t]
    BY <2>3 DEF PassesNothing, Classified, Resolved, Emitted, Filtered, Behind, Writing
  <2> QED BY <2>2, <2>3
<1> QED BY <1>1, SteadyRows

\* The carry, behind the write of the tile.
LEMMA CarryRows ==
  ASSUME Place, RowsRight, NEW t \in Lanes, NextTile(t), pc[t] \in Carrying,
         UNCHANGED <<program, text, kernel, rows>>
  PROVE  RowsRight'
<1>1. /\ kernel \in {2, 3} /\ tile'[t] = tile[t] + 1 /\ pc'[t] \in Heads \cup {"carried"}
      /\ \A u \in Lanes : u # t => pc'[u] = pc[u] /\ tile'[u] = tile[u]
      /\ kernel = 2 <=> pc[t] = "carry_escape"
      /\ pc'[t] \notin Writing
  BY NextTileFacts, KernelFacts DEF Carrying, Writing, Heads
<1>2. ASSUME NEW u \in Lanes, NEW k \in 0 .. Tiles(program, text) - 1 PROVE PassesNothing(u, k)
  <2>1. k \in Nat /\ tile[t] \in Nat
    BY PlaceFacts
  <2>2. CASE u # t \/ k # tile[t]
    BY <1>1, <2>1, <2>2, PassesElsewhere
  <2>3. CASE u = t /\ k = tile[t]
    BY <1>1, <2>1, <2>3 DEF PassesNothing, Classified, Resolved, Emitted, Filtered, Behind, Carrying
  <2> QED BY <2>2, <2>3
<1> QED BY <1>2, SteadyRows

\* A row in which a thread writes to no word but its own.
WritesOwn(t, row, after) == \A w \in PaddedWords(program, text) : w # Word(t) => after[w] = row[w]

LEMMA WriteRows ==
  ASSUME Place, RowsRight, NEW t \in Lanes, pc[t] \in OfATile, UNCHANGED <<program, text, kernel>>,
         \A u \in Lanes : u # t => pc'[u] = pc[u] /\ tile'[u] = tile[u],
         \/ tile'[t] = tile[t]
         \/ tile'[t] = tile[t] + 1 /\ pc'[t] \notin Writing,
         WritesOwn(t, slash_bitmap, slash_bitmap'), WritesOwn(t, quote_bitmap, quote_bitmap'),
         WritesOwn(t, real_quote_bitmap, real_quote_bitmap'),
         WritesOwn(t, in_string_bitmap, in_string_bitmap'),
         WritesOwn(t, operator_bitmap, operator_bitmap'),
         WritesOwn(t, open_close_bitmap, open_close_bitmap'),
         NEW k0, k0 = tile[t], RowsHold(t, k0)'
  PROVE  RowsRight'
<1>1. ASSUME NEW u \in Lanes, NEW k \in 0 .. Tiles(program, text) - 1, u # t \/ k # tile[t]
      PROVE  RowsHold(u, k)'
  <2>1. k \in Nat /\ tile[t] \in Nat /\ RowsHold(u, k) /\ WordAt(k, u) \in PaddedWords(program, text)
    BY PlaceFacts, TilesFacts DEF RowsRight
  <2>2. WordAt(k, u) # Word(t)
    BY <1>1, <2>1, WordAtUnique, PlaceFacts
  <2>3. PassesNothing(u, k)
    BY <1>1, <2>1, PassesElsewhere
  <2>4. /\ slash_bitmap'[WordAt(k, u)] = slash_bitmap[WordAt(k, u)]
        /\ quote_bitmap'[WordAt(k, u)] = quote_bitmap[WordAt(k, u)]
        /\ real_quote_bitmap'[WordAt(k, u)] = real_quote_bitmap[WordAt(k, u)]
        /\ in_string_bitmap'[WordAt(k, u)] = in_string_bitmap[WordAt(k, u)]
        /\ operator_bitmap'[WordAt(k, u)] = operator_bitmap[WordAt(k, u)]
        /\ open_close_bitmap'[WordAt(k, u)] = open_close_bitmap[WordAt(k, u)]
    BY <2>1, <2>2 DEF WritesOwn
  <2> QED BY <2>1, <2>3, <2>4, RowKept
<1>2. ASSUME NEW u \in Lanes, NEW k \in 0 .. Tiles(program, text) - 1 PROVE RowsHold(u, k)'
  BY <1>1
<1> QED BY <1>2 DEF RowsRight

LEMMA ClassifyRows ==
  ASSUME Place, RowsRight, NEW t \in Lanes, Classify(t)
  PROVE  RowsRight'
<1>0. PICK k : k = tile[t]
  OBVIOUS
<1>1. /\ pc[t] = "classify" /\ kernel = 1 /\ UNCHANGED <<program, text, kernel>> /\ Advance(t)
      /\ UNCHANGED <<real_quote_bitmap, in_string_bitmap>> /\ pc[t] \in OfATile
  BY KernelFacts DEF Classify, input, OfATile
<1>2. /\ k \in Nat /\ k + 1 \in 0 .. Tiles(program, text) /\ Word(t) \in PaddedWords(program, text)
      /\ Word(t) = WordAt(k, t)
  BY <1>0, <1>1, OwnWord, PlaceFacts
<1>3. /\ tile'[t] = k + 1 /\ pc'[t] \in Heads
      /\ \A u \in Lanes : u # t => pc'[u] = pc[u] /\ tile'[u] = tile[u]
  <2>1. LoopHead(t, k + 1) \in Heads
    BY <1>1, <1>2, HeadFacts
  <2> QED BY <1>0, <1>1, <2>1, PlaceFacts DEF Advance
<1>4. /\ slash_bitmap'[Word(t)] = SlashWord(text, Word(t))
      /\ quote_bitmap'[Word(t)] = QuoteWord(text, Word(t))
      /\ operator_bitmap'[Word(t)] = OperatorWord(text, Word(t))
      /\ program = "cujson" => open_close_bitmap'[Word(t)] = OpenCloseWord(text, Word(t))
  BY <1>2 DEF Classify, Place, Typed, Rows, Slash
<1>5. /\ WritesOwn(t, slash_bitmap, slash_bitmap') /\ WritesOwn(t, quote_bitmap, quote_bitmap')
      /\ WritesOwn(t, real_quote_bitmap, real_quote_bitmap')
      /\ WritesOwn(t, in_string_bitmap, in_string_bitmap')
      /\ WritesOwn(t, operator_bitmap, operator_bitmap')
      /\ WritesOwn(t, open_close_bitmap, open_close_bitmap')
  BY <1>1 DEF Classify, Place, Typed, Rows, WritesOwn
<1>6. RowsHold(t, k)'
  <2>1. /\ ~Resolved(t, k)' /\ ~Emitted(t, k)' /\ ~Filtered(t, k)'
    BY <1>1 DEF Resolved, Emitted, Filtered, Behind
  <2> QED BY <1>1, <1>2, <1>4, <2>1 DEF RowsHold
<1> QED BY <1>0, <1>1, <1>2, <1>3, <1>5, <1>6, WriteRows DEF Writing, Heads

\* The quotes a thread resolves are the real ones of its word.
LEMMA ResolveRows ==
  ASSUME Place, Memory, RowsRight, NEW t \in Lanes, Resolve(t)
  PROVE  RowsRight'
<1>0. PICK k : k = tile[t]
  OBVIOUS
<1> DEFINE incoming == IncomingEscape(program, t, local[t].quotes, local[t].slash, shared_slashes,
                                      previous_tile)
           real == SelectedQuotes(program, local[t].quotes, local[t].slash, incoming)
<1>1. /\ pc[t] = "resolve" /\ kernel = 2 /\ UNCHANGED <<program, text, kernel, tile>>
      /\ UNCHANGED <<slash_bitmap, in_string_bitmap, operator_bitmap, open_close_bitmap>>
      /\ pc[t] \in OfATile
  BY KernelFacts DEF Resolve, input, OfATile
<1>2. /\ k \in Nat /\ Word(t) \in PaddedWords(program, text) /\ Word(t) = WordAt(k, t)
      /\ RowsHold(t, k) /\ IsText(text) /\ Word(t) \in Nat
  BY <1>0, <1>1, OwnWord, PlaceFacts, RowOfThread
<1>3. real = RealQuoteWord(text, Word(t))
  <2>1. /\ local[t].slash = SlashWord(text, Word(t)) /\ local[t].quotes = QuoteWord(text, Word(t))
        /\ LooksBack(program, t, QuoteWord(text, Word(t)), SlashWord(text, Word(t))) =>
             incoming = EscapeAt(text, Word(t))
    BY <1>1, ResolveContext DEF Slash
  <2> HIDE DEF incoming
  <2> QED BY <1>2, <2>1, SelectedAreReal DEF Place, Typed
<1>4. /\ pc'[t] = "resolved" /\ \A u \in Lanes : u # t => pc'[u] = pc[u] /\ tile'[u] = tile[u]
      /\ tile'[t] = k
  BY <1>0, <1>1, PlaceFacts DEF Resolve
<1>5. /\ program = "gpjson" => /\ quote_bitmap' = [quote_bitmap EXCEPT ![Word(t)] = real]
                               /\ real_quote_bitmap' = real_quote_bitmap
      /\ program # "gpjson" => /\ real_quote_bitmap' = [real_quote_bitmap EXCEPT ![Word(t)] = real]
                               /\ quote_bitmap' = quote_bitmap
  BY DEF Resolve
<1> HIDE DEF incoming, real
<1>6. /\ WritesOwn(t, slash_bitmap, slash_bitmap') /\ WritesOwn(t, quote_bitmap, quote_bitmap')
      /\ WritesOwn(t, real_quote_bitmap, real_quote_bitmap')
      /\ WritesOwn(t, in_string_bitmap, in_string_bitmap')
      /\ WritesOwn(t, operator_bitmap, operator_bitmap')
      /\ WritesOwn(t, open_close_bitmap, open_close_bitmap')
  BY <1>1, <1>5 DEF Place, Typed, Rows, WritesOwn
<1>7. RowsHold(t, k)'
  <2>1. /\ ~Emitted(t, k)' /\ ~Filtered(t, k)' /\ ~Emitted(t, k) /\ ~Filtered(t, k)
        /\ Classified(t, k) /\ Classified(t, k)' /\ Resolved(t, k)'
    BY <1>1, <1>4 DEF Classified, Resolved, Emitted, Filtered, Behind
  <2>2. /\ program = "gpjson" => quote_bitmap'[Word(t)] = RealQuoteWord(text, Word(t))
        /\ program = "cujson" => real_quote_bitmap'[Word(t)] = RealQuoteWord(text, Word(t))
        /\ program = "cujson" => quote_bitmap' = quote_bitmap
    BY <1>2, <1>3, <1>5 DEF Place, Typed, Rows
  <2>3. program \in {"gpjson", "cujson"}
    BY PlaceFacts
  <2> QED BY <1>1, <1>2, <2>1, <2>2, <2>3 DEF RowsHold
<1> QED BY <1>1, <1>2, <1>4, <1>6, <1>7, WriteRows

\* What a thread emits is the specified in-string word.
LEMMA EmitRows ==
  ASSUME Place, Memory, RowsRight, NEW t \in Lanes, EmitStrings(t)
  PROVE  RowsRight'
<1>0. PICK k : k = tile[t]
  OBVIOUS
<1> DEFINE before == Xor(CarriedParity(t), IF t = 0 THEN 0 ELSE shared_quote_parity[t - 1])
           in_string == InStringBits(local[t].quotes, before)
<1>1. /\ pc[t] = "emit" /\ kernel = 3 /\ UNCHANGED <<program, text, kernel, tile>>
      /\ UNCHANGED <<slash_bitmap, real_quote_bitmap, operator_bitmap, open_close_bitmap>>
      /\ pc[t] \in OfATile
  BY KernelFacts DEF EmitStrings, input, OfATile
<1>2. /\ k \in Nat /\ Word(t) \in PaddedWords(program, text) /\ Word(t) = WordAt(k, t)
      /\ RowsHold(t, k) /\ IsText(text) /\ Word(t) \in Nat
  BY <1>0, <1>1, OwnWord, PlaceFacts, RowOfThread
<1>3. before = ParityBeforeWord(text, Word(t))
  <2>1. /\ CarriedParity(t) = ParityEnters(text, k)
        /\ \A u \in Lanes : shared_quote_parity[u] = XorOf(TileParity(text, k), 0, u)
    BY <1>0, <1>1, EmitContext
  <2>2. t \in Nat /\ t \in 0 .. Threads /\ Word(t) = k * Threads + t
    BY <1>2, ThreadFacts DEF Lanes, WordAt
  <2>3. (IF t = 0 THEN 0 ELSE shared_quote_parity[t - 1]) = XorOf(TileParity(text, k), 0, t - 1)
    <3>1. CASE t = 0
      <4>1. {i \in 0 .. t - 1 : TileParity(text, k)[i] = 1} = {}
        BY <3>1
      <4> QED BY <3>1, <4>1, FS_EmptySet DEF XorOf
    <3>2. CASE t # 0
      <4>1. t - 1 \in Lanes
        BY <2>2, <3>2, ThreadFacts DEF Lanes
      <4> QED BY <2>1, <3>2, <4>1
    <3> QED BY <3>1, <3>2
  <2>4. ParityBeforeWord(text, k * Threads + t)
          = Xor(ParityEnters(text, k), XorOf(TileParity(text, k), 0, t - 1))
    BY <1>2, <2>2, ParityInTile
  <2> QED BY <2>1, <2>2, <2>3, <2>4
<1>4. in_string = InStringWord(text, Word(t))
  <2>1. local[t].quotes = RealQuoteWord(text, Word(t))
    BY <1>1, EmitContext
  <2>2. (ParityBeforeWord(text, Word(t)) = 1) = IncomingString(text, Word(t) * WordBytes)
    BY DEF IncomingString, ParityBeforeWord
  <2> HIDE DEF before
  <2> QED BY <1>2, <1>3, <2>1, <2>2, CandidateIsInStringWord DEF InStringBits
<1>5. /\ pc'[t] = "emitted" /\ \A u \in Lanes : u # t => pc'[u] = pc[u] /\ tile'[u] = tile[u]
      /\ tile'[t] = k
  BY <1>0, <1>1, PlaceFacts DEF EmitStrings
<1>6. /\ program = "gpjson" => /\ quote_bitmap' = [quote_bitmap EXCEPT ![Word(t)] = in_string]
                               /\ in_string_bitmap' = in_string_bitmap
      /\ program # "gpjson" => /\ in_string_bitmap' = [in_string_bitmap EXCEPT ![Word(t)] = in_string]
                               /\ quote_bitmap' = quote_bitmap
  BY DEF EmitStrings
<1> HIDE DEF before, in_string
<1>7. /\ WritesOwn(t, slash_bitmap, slash_bitmap') /\ WritesOwn(t, quote_bitmap, quote_bitmap')
      /\ WritesOwn(t, real_quote_bitmap, real_quote_bitmap')
      /\ WritesOwn(t, in_string_bitmap, in_string_bitmap')
      /\ WritesOwn(t, operator_bitmap, operator_bitmap')
      /\ WritesOwn(t, open_close_bitmap, open_close_bitmap')
  BY <1>1, <1>6 DEF Place, Typed, Rows, WritesOwn
<1>8. RowsHold(t, k)'
  <2>1. /\ ~Filtered(t, k)' /\ ~Filtered(t, k) /\ Resolved(t, k) /\ Resolved(t, k)'
        /\ Classified(t, k) /\ Classified(t, k)' /\ Emitted(t, k)'
    BY <1>1, <1>5 DEF Classified, Resolved, Emitted, Filtered, Behind
  <2>2. /\ program = "gpjson" => quote_bitmap'[Word(t)] = InStringWord(text, Word(t))
        /\ program = "cujson" => in_string_bitmap'[Word(t)] = InStringWord(text, Word(t))
        /\ program = "cujson" => quote_bitmap' = quote_bitmap
    BY <1>2, <1>4, <1>6 DEF Place, Typed, Rows
  <2>3. program \in {"gpjson", "cujson"}
    BY PlaceFacts
  <2> QED BY <1>1, <1>2, <2>1, <2>2, <2>3 DEF RowsHold
<1> QED BY <1>1, <1>2, <1>5, <1>7, <1>8, WriteRows

LEMMA FilterRows ==
  ASSUME Place, RowsRight, NEW t \in Lanes, Filter(t)
  PROVE  RowsRight'
<1>0. PICK k : k = tile[t]
  OBVIOUS
<1>1. /\ pc[t] = "filter" /\ kernel = 4 /\ UNCHANGED <<program, text, kernel>> /\ Advance(t)
      /\ UNCHANGED <<slash_bitmap, quote_bitmap, real_quote_bitmap>> /\ pc[t] \in OfATile
  BY KernelFacts DEF Filter, input, OfATile
<1>2. /\ k \in Nat /\ k + 1 \in 0 .. Tiles(program, text) /\ Word(t) \in PaddedWords(program, text)
      /\ Word(t) = WordAt(k, t) /\ RowsHold(t, k) /\ IsText(text) /\ Word(t) \in Nat
  BY <1>0, <1>1, OwnWord, PlaceFacts, RowOfThread
<1>3. /\ tile'[t] = k + 1 /\ pc'[t] \in Heads
      /\ \A u \in Lanes : u # t => pc'[u] = pc[u] /\ tile'[u] = tile[u]
  <2>1. LoopHead(t, k + 1) \in Heads
    BY <1>1, <1>2, HeadFacts
  <2> QED BY <1>0, <1>1, <2>1, PlaceFacts DEF Advance
<1>4. /\ Classified(t, k) /\ Resolved(t, k) /\ Emitted(t, k) /\ ~Filtered(t, k)
      /\ Classified(t, k)' /\ Resolved(t, k)' /\ Emitted(t, k)' /\ Filtered(t, k)'
  BY <1>0, <1>1, <1>2, <1>3 DEF Classified, Resolved, Emitted, Filtered, Behind
<1>5. /\ OperatorWord(text, Word(t)) \ InStringWord(text, Word(t)) = StructuralWord(text, Word(t))
      /\ OpenCloseWord(text, Word(t)) \ InStringWord(text, Word(t)) = OpenCloseResult(text, Word(t))
  BY <1>2, MaskedIsSpecified
<1>6. CASE program = "gpjson"
  <2>1. /\ operator_bitmap' = [operator_bitmap EXCEPT ![Word(t)] = @ \ quote_bitmap[Word(t)]]
        /\ UNCHANGED <<in_string_bitmap, open_close_bitmap>>
    BY <1>6 DEF Filter
  <2>2. quote_bitmap[Word(t)] = InStringWord(text, Word(t))
        /\ operator_bitmap[Word(t)] = OperatorWord(text, Word(t))
    BY <1>2, <1>4, <1>6 DEF RowsHold
  <2>3. operator_bitmap'[Word(t)] = StructuralWord(text, Word(t))
    BY <1>2, <1>5, <2>1, <2>2 DEF Place, Typed, Rows
  <2>4. WritesOwn(t, operator_bitmap, operator_bitmap')
    BY <2>1 DEF Place, Typed, Rows, WritesOwn
  <2>5. RowsHold(t, k)'
    BY <1>1, <1>2, <1>4, <1>6, <2>3 DEF RowsHold
  <2>6. /\ WritesOwn(t, slash_bitmap, slash_bitmap') /\ WritesOwn(t, quote_bitmap, quote_bitmap')
        /\ WritesOwn(t, real_quote_bitmap, real_quote_bitmap')
        /\ WritesOwn(t, in_string_bitmap, in_string_bitmap')
        /\ WritesOwn(t, open_close_bitmap, open_close_bitmap')
    BY <1>1, <2>1 DEF WritesOwn
  <2> QED BY <1>0, <1>1, <1>2, <1>3, <2>4, <2>5, <2>6, WriteRows DEF Writing, Heads
<1>7. CASE program = "cujson"
  <2>1. /\ in_string_bitmap' = [in_string_bitmap EXCEPT ![Word(t)] = operator_bitmap[Word(t)] \ @]
        /\ open_close_bitmap' = [open_close_bitmap EXCEPT ![Word(t)] = @ \ in_string_bitmap[Word(t)]]
        /\ UNCHANGED operator_bitmap
    BY <1>7 DEF Filter
  <2>2. /\ in_string_bitmap[Word(t)] = InStringWord(text, Word(t))
        /\ operator_bitmap[Word(t)] = OperatorWord(text, Word(t))
        /\ open_close_bitmap[Word(t)] = OpenCloseWord(text, Word(t))
    BY <1>2, <1>4, <1>7 DEF RowsHold
  <2>3. /\ in_string_bitmap'[Word(t)] = StructuralWord(text, Word(t))
        /\ open_close_bitmap'[Word(t)] = OpenCloseResult(text, Word(t))
    BY <1>2, <1>5, <2>1, <2>2 DEF Place, Typed, Rows
  <2>4. /\ WritesOwn(t, in_string_bitmap, in_string_bitmap')
        /\ WritesOwn(t, open_close_bitmap, open_close_bitmap')
    BY <2>1 DEF Place, Typed, Rows, WritesOwn
  <2>5. RowsHold(t, k)'
    BY <1>1, <1>2, <1>4, <1>7, <2>1, <2>3 DEF RowsHold
  <2>6. /\ WritesOwn(t, slash_bitmap, slash_bitmap') /\ WritesOwn(t, quote_bitmap, quote_bitmap')
        /\ WritesOwn(t, real_quote_bitmap, real_quote_bitmap')
        /\ WritesOwn(t, operator_bitmap, operator_bitmap')
    BY <1>1, <2>1 DEF WritesOwn
  <2> QED BY <1>0, <1>1, <1>2, <1>3, <2>4, <2>5, <2>6, WriteRows DEF Writing, Heads
<1> QED BY <1>6, <1>7, PlaceFacts

\* The steps that do not write to the rows.
LEMMA OtherRows ==
  ASSUME Place, RowsRight, NEW t \in Lanes,
         \/ Start(t) \/ PublishError(t) \/ ShareSlashes(t)
         \/ LoadParity(t) \/ ReadRound(t) \/ WriteRound(t)
  PROVE  RowsRight'
<1>1. /\ UNCHANGED <<program, text, kernel, tile, rows>>
      /\ \A u \in Lanes : u # t => pc'[u] = pc[u]
      /\ pc[t] \in {"start", "publish", "share", "load", "read_round", "write_round"}
  BY PlaceFacts DEF Start, PublishError, ShareSlashes, LoadParity, ReadRound, WriteRound,
                    input, shared, bitmaps, rows
<1>2. pc'[t] \notin Writing
  <2>1. CASE Start(t)
    <3>1. kernel \in 1 .. 4 /\ 0 \in 0 .. Tiles(program, text)
      BY <2>1, KernelFacts, PlaceFacts DEF Start
    <3>2. LoopHead(t, 0) \in Heads
      BY <3>1, HeadFacts
    <3> QED BY <2>1, <3>2, PlaceFacts DEF Start, Heads, Writing
  <2>2. CASE ~Start(t)
    BY <2>2, PlaceFacts DEF PublishError, ShareSlashes, LoadParity, ReadRound, WriteRound, Writing
  <2> QED BY <2>1, <2>2
<1> QED BY <1>1, <1>2, QuietRows DEF Writing

LEMMA BarrierRows ==
  ASSUME Place, RowsRight, NEW barrier \in Barriers, Barrier(barrier)
  PROVE  RowsRight'
<1>1. /\ UNCHANGED <<program, text, kernel, tile, rows>>
      /\ \A t \in Lanes : pc[t] = barrier /\ pc'[t] = AfterBarrier(barrier, t)
  BY BarrierFacts DEF bitmaps, rows
<1>2. ASSUME NEW t \in Lanes
      PROVE  \/ barrier = "resolved" /\ pc'[t] = "carry_escape"
             \/ barrier = "emitted" /\ pc'[t] = "carry_parity"
             \/ barrier \notin Writing /\ pc'[t] \notin Writing
  <2>1. CASE barrier \in {"cleared", "carried"}
    <3>1. kernel \in 1 .. 4 /\ tile[t] \in 0 .. Tiles(program, text) /\ 0 \in 0 .. Tiles(program, text)
      BY <1>1, <2>1, KernelFacts, PlaceFacts
    <3>2. LoopHead(t, 0) \in Heads /\ LoopHead(t, tile[t]) \in Heads
      BY <3>1, HeadFacts
    <3> QED BY <1>1, <2>1, <3>2 DEF AfterBarrier, Heads, Writing
  <2>2. CASE barrier \notin {"cleared", "carried"}
    BY <1>1, <2>2 DEF AfterBarrier, Barriers, Writing
  <2> QED BY <2>1, <2>2
<1>3. ASSUME NEW t \in Lanes, NEW k \in 0 .. Tiles(program, text) - 1 PROVE PassesNothing(t, k)
  BY <1>1, <1>2 DEF PassesNothing, Classified, Resolved, Emitted, Filtered, Behind, Writing
<1> QED BY <1>1, <1>3, SteadyRows

\* When a kernel starts, the one before has passed every word.
LEMMA LaunchRows ==
  ASSUME Place, RowsRight, Launch
  PROVE  RowsRight'
<1>1. /\ UNCHANGED <<program, text, rows>> /\ kernel' = kernel + 1 /\ kernel \in 1 .. 4
      /\ \A t \in Lanes : pc[t] = "exit" /\ tile'[t] = 0 /\ pc'[t] \in {"start", "done"}
  BY PlaceFacts DEF Launch, input, bitmaps, rows
<1>2. ASSUME NEW t \in Lanes, NEW k \in 0 .. Tiles(program, text) - 1 PROVE PassesNothing(t, k)
  <2>1. tile[t] = Tiles(program, text) /\ Tiles(program, text) \in Nat /\ k \in Nat
    BY <1>1, PlaceFacts DEF Place, AtPlace
  <2>2. k < tile[t] /\ ~(k < tile'[t])
    BY <1>1, <2>1
  <2> QED BY <1>1, <2>2 DEF PassesNothing, Classified, Resolved, Emitted, Filtered, Behind
<1> QED BY <1>1, <1>2, SteadyRows

-----------------------------------------------------------------------------
(***************************************************************************)
(* The error word, step by step.                                           *)
(***************************************************************************)
\* Whether a lane found an error so far depends on the tiles only.
LEMMA FlaggedKept ==
  ASSUME UNCHANGED <<program, text, tile>>
  PROVE  (SomeFlagged' <=> SomeFlagged) /\ (HasFlagged(program, text)' <=> HasFlagged(program, text))
BY DEF SomeFlagged, HasFlagged, Flagged, PaddedWords

LEMMA ErrorsKept ==
  ASSUME ErrorsHold, UNCHANGED <<program, text, kernel, tile, shared_utf_error, utf_error>>,
         pc[0] = "start" => pc'[0] = "start",
         kernel = 1 /\ program = "cujson" /\ pc'[0] = "exit" => pc[0] = "exit"
  PROVE  ErrorsHold'
<1>1. (SomeFlagged' <=> SomeFlagged) /\ (HasFlagged(program, text)' <=> HasFlagged(program, text))
  BY FlaggedKept
<1> QED BY <1>1 DEF ErrorsHold

\* In the later kernels nobody writes the error word.
LEMMA LaterErrors ==
  ASSUME ErrorsHold, UNCHANGED <<program, text, kernel, utf_error>>, kernel \in 2 .. 5
  PROVE  ErrorsHold'
<1>1. HasFlagged(program, text)' <=> HasFlagged(program, text)
  BY DEF HasFlagged, Flagged, PaddedWords
<1> QED BY <1>1 DEF ErrorsHold

LEMMA StartErrors ==
  ASSUME Place, ErrorsHold, NEW t \in Lanes, Start(t)
  PROVE  ErrorsHold'
<1>1. /\ pc[t] = "start" /\ tile[t] = 0 /\ kernel \in 1 .. 4 /\ 0 \in 0 .. Tiles(program, text)
      /\ UNCHANGED <<program, text, kernel, tile, utf_error>>
      /\ pc' = [pc EXCEPT ![t] = IF kernel \in ClearsTogether THEN "cleared" ELSE LoopHead(t, 0)]
  BY PlaceFacts, KernelFacts DEF Start, input, bitmaps, Place, AtPlace
<1>2. kernel = 1 /\ program = "cujson" => pc'[t] # "exit"
  <2>1. LoopHead(t, 0) = "exit" => ~(kernel = 1 /\ program = "cujson")
    BY <1>1, HeadFacts
  <2> QED BY <1>1, <2>1, PlaceFacts
<1>3. (SomeFlagged' <=> SomeFlagged) /\ (HasFlagged(program, text)' <=> HasFlagged(program, text))
  BY <1>1, FlaggedKept
<1>4. CASE kernel # 1
  BY <1>1, <1>4, LaterErrors
<1>5. CASE kernel = 1 /\ t = 0
\* nobody has classified a word before thread 0 clears the flag
  <2>1. shared_utf_error' = FALSE
    BY <1>5 DEF Start
  <2>2. ~SomeFlagged
    <3>1. CASE program = "cujson"
      <4>1. \A u \in Lanes : tile[u] = 0
        <5> SUFFICES ASSUME NEW u \in Lanes PROVE tile[u] = 0
          OBVIOUS
        <5>1. Phase(u) = Phase(t) /\ Phase(t) = "turning"
          BY <1>1, <1>5, <3>1 DEF Place, InStep, Phase, ClearsTogether
        <5>2. pc[u] \in {"start", "cleared"}
          BY <3>1, <5>1, PhaseFacts, PlaceFacts
        <5> QED BY <5>2 DEF Place, AtPlace
      <4>2. 0 .. 0 - 1 = {}
        OBVIOUS
      <4> QED BY <4>1, <4>2 DEF SomeFlagged
    <3>2. CASE program # "cujson"
      BY <3>2 DEF SomeFlagged, Flagged
    <3> QED BY <3>1, <3>2
  <2> QED BY <1>1, <1>2, <1>3, <1>5, <2>1, <2>2 DEF ErrorsHold
<1>6. CASE kernel = 1 /\ t # 0
  <2>1. shared_utf_error' = shared_utf_error /\ pc'[0] = pc[0]
    BY <1>1, <1>6, ThreadFacts, PlaceFacts DEF Start
  <2> QED BY <1>1, <2>1, ErrorsKept
<1> QED BY <1>4, <1>5, <1>6

LEMMA ClassifyErrors ==
  ASSUME Place, ErrorsHold, NEW t \in Lanes, Classify(t)
  PROVE  ErrorsHold'
<1>1. /\ pc[t] = "classify" /\ kernel = 1 /\ UNCHANGED <<program, text, kernel, utf_error>>
      /\ Advance(t) /\ shared_utf_error' = (shared_utf_error \/ Flagged(program, text, Word(t)))
  BY KernelFacts DEF Classify, input
<1>2. /\ tile[t] + 1 \in 0 .. Tiles(program, text) /\ tile[t] \in Nat
      /\ \A u \in Lanes : tile'[u] = IF u = t THEN tile[t] + 1 ELSE tile[u]
  BY <1>1, OwnWord, PlaceFacts DEF OfATile, Advance
<1>3. /\ \A u \in Lanes : u # t => pc'[u] = pc[u]
      /\ kernel = 1 /\ program = "cujson" => pc'[t] # "exit"
  <2>1. LoopHead(t, tile[t] + 1) = "exit" => ~(kernel = 1 /\ program = "cujson")
    BY <1>1, <1>2, HeadFacts
  <2> QED BY <1>1, <2>1, PlaceFacts DEF Advance
<1>4. SomeFlagged' <=> SomeFlagged \/ Flagged(program, text, Word(t))
  <2>1. ASSUME NEW u \in Lanes, NEW k \in 0 .. tile'[u] - 1, Flagged(program, text, WordAt(k, u))
        PROVE  SomeFlagged \/ Flagged(program, text, Word(t))
    <3>1. CASE u = t /\ k = tile[t]
      BY <2>1, <3>1 DEF Word
    <3>2. CASE ~(u = t /\ k = tile[t])
      <4>1. k \in 0 .. tile[u] - 1
        <5>1. tile[u] \in Nat
          BY PlaceFacts
        <5> QED BY <1>2, <3>2, <5>1
      <4> QED BY <2>1, <4>1 DEF SomeFlagged
    <3> QED BY <3>1, <3>2
  <2>2. ASSUME SomeFlagged PROVE \E u \in Lanes : \E k \in 0 .. tile'[u] - 1 : Flagged(program, text, WordAt(k, u))
    <3>1. PICK u \in Lanes : \E k \in 0 .. tile[u] - 1 : Flagged(program, text, WordAt(k, u))
      BY <2>2 DEF SomeFlagged
    <3>2. \A k \in 0 .. tile[u] - 1 : k \in 0 .. tile'[u] - 1
      <4>1. tile[u] \in Nat
        BY PlaceFacts
      <4> QED BY <1>2, <4>1
    <3> QED BY <3>1, <3>2
  <2>3. ASSUME Flagged(program, text, Word(t))
        PROVE  \E u \in Lanes : \E k \in 0 .. tile'[u] - 1 : Flagged(program, text, WordAt(k, u))
    <3>1. tile[t] \in 0 .. tile'[t] - 1 /\ Word(t) = WordAt(tile[t], t)
      BY <1>2 DEF Word
    <3> QED BY <2>3, <3>1
  <2>4. SomeFlagged' <=>
          \E u \in Lanes : \E k \in 0 .. tile'[u] - 1 : Flagged(program, text, WordAt(k, u))
    BY <1>1 DEF SomeFlagged, Flagged
  <2> QED BY <2>1, <2>2, <2>3, <2>4
<1>5. HasFlagged(program, text)' <=> HasFlagged(program, text)
  BY <1>1 DEF HasFlagged, Flagged, PaddedWords
<1>6. (pc[0] = "start" => pc'[0] = "start")
      /\ (kernel = 1 /\ program = "cujson" /\ pc'[0] = "exit" => pc[0] = "exit")
  BY <1>1, <1>3, ThreadFacts
<1> QED BY <1>1, <1>4, <1>5, <1>6 DEF ErrorsHold

\* Thread 0 publishes when everybody has flagged the words of all its tiles.
LEMMA PublishErrors ==
  ASSUME Place, ErrorsHold, NEW t \in Lanes, PublishError(t)
  PROVE  ErrorsHold'
<1>1. /\ pc[t] = "publish" /\ kernel = 1 /\ program = "cujson"
      /\ UNCHANGED <<program, text, kernel, tile, shared_utf_error>>
      /\ pc' = [pc EXCEPT ![t] = "exit"]
      /\ utf_error' = IF t = 0 THEN shared_utf_error ELSE utf_error
  BY KernelFacts DEF PublishError, input, shared
<1>2. CASE t = 0
  <2>1. \A u \in Lanes : tile[u] = Tiles(program, text)
    <3> SUFFICES ASSUME NEW u \in Lanes PROVE tile[u] = Tiles(program, text)
      OBVIOUS
    <3>1. Phase(u) = Phase(t) /\ Phase(t) = "publishing"
      BY <1>1, PhaseFacts, PlaceFacts DEF Place, InStep
    <3>2. pc[u] \in {"publish", "exit"}
      BY <3>1, PhaseFacts, PlaceFacts
    <3> QED BY <3>2 DEF Place, AtPlace
  <2>2. SomeFlagged <=> HasFlagged(program, text)
    <3>1. ASSUME SomeFlagged PROVE HasFlagged(program, text)
      BY <2>1, <3>1, PlaceFacts, TilesFacts DEF SomeFlagged, HasFlagged
    <3>2. ASSUME HasFlagged(program, text) PROVE SomeFlagged
      <4>1. PICK w \in PaddedWords(program, text) : Flagged(program, text, w)
        BY <3>2 DEF HasFlagged
      <4>2. \E l \in Lanes, k \in 0 .. Tiles(program, text) - 1 : w = WordAt(k, l)
        BY <4>1, PlaceFacts, TilesFacts
      <4> QED BY <2>1, <4>1, <4>2 DEF SomeFlagged
    <3> QED BY <3>1, <3>2
  <2>3. shared_utf_error <=> SomeFlagged
    BY <1>1, <1>2 DEF ErrorsHold
  <2> QED BY <1>1, <1>2, <2>2, <2>3, FlaggedKept DEF ErrorsHold
<1>3. CASE t # 0
  <2>1. utf_error' = utf_error /\ pc'[0] = pc[0]
    BY <1>1, <1>3, ThreadFacts, PlaceFacts
  <2> QED BY <1>1, <2>1, ErrorsKept
<1> QED BY <1>2, <1>3

LEMMA BarrierErrors ==
  ASSUME Place, ErrorsHold, NEW barrier \in Barriers, Barrier(barrier)
  PROVE  ErrorsHold'
<1>1. /\ UNCHANGED <<program, text, kernel, tile, shared_utf_error, utf_error>>
      /\ pc[0] = barrier /\ pc'[0] = AfterBarrier(barrier, 0)
  BY BarrierFacts, ThreadFacts DEF shared, bitmaps
<1>2. kernel = 1 /\ program = "cujson" => pc'[0] # "exit"
  <2> SUFFICES ASSUME kernel = 1, program = "cujson" PROVE AfterBarrier(barrier, 0) # "exit"
    BY <1>1
  <2>1. tile[0] \in 0 .. Tiles(program, text) /\ 0 \in 0 .. Tiles(program, text)
    BY PlaceFacts, ThreadFacts
  <2>2. LoopHead(0, 0) # "exit" /\ LoopHead(0, tile[0]) # "exit"
    BY <2>1, HeadFacts, ThreadFacts
  <2> QED BY <2>2 DEF AfterBarrier, Barriers
<1>3. barrier # "start"
  BY DEF Barriers
<1> QED BY <1>1, <1>2, <1>3, ErrorsKept

LEMMA LaunchErrors ==
  ASSUME Place, ErrorsHold, Launch
  PROVE  ErrorsHold'
<1>1. /\ UNCHANGED <<program, text, utf_error>> /\ kernel' = kernel + 1 /\ kernel \in 1 .. 4
      /\ pc[0] = "exit"
  BY PlaceFacts, ThreadFacts DEF Launch, input, bitmaps
<1>2. HasFlagged(program, text)' <=> HasFlagged(program, text)
  BY <1>1 DEF HasFlagged, Flagged, PaddedWords
<1> QED BY <1>1, <1>2 DEF ErrorsHold

-----------------------------------------------------------------------------
(***************************************************************************)
(* The invariant.                                                          *)
(***************************************************************************)
LEMMA InitStage == Init => StageInv
<1> SUFFICES ASSUME Init PROVE StageInv
  OBVIOUS
<1>1. /\ program \in Programs /\ text \in Texts /\ kernel = 1
      /\ pc = [t \in Lanes |-> "start"] /\ tile = [t \in Lanes |-> 0]
      /\ local = [t \in Lanes |-> Registers]
  BY DEF Init
<1>2. IsText(text) /\ Tiles(program, text) \in Nat
  BY <1>1, TilesAssumption, TilesFacts
<1>3. \A t \in Lanes : pc[t] = "start" /\ tile[t] = 0
  BY <1>1
<1>4. Place
  <2>1. Registers \in Records
    BY ThreadFacts DEF Registers, Records
  <2>2. "start" \in PcValues /\ 0 \in 0 .. Tiles(program, text)
    BY <1>2 DEF PcValues
  <2>3. \A g \in {0, 1} : Garbage(g) \in SUBSET Bits
    BY DEF Garbage
  <2>4. /\ shared_slashes \in [Lanes -> SUBSET Bits] /\ shared_quote_parity \in [Lanes -> {0, 1}]
        /\ previous_tile \in {0, 1} /\ shared_utf_error \in BOOLEAN /\ utf_error \in BOOLEAN
        /\ slash_bitmap \in Rows /\ quote_bitmap \in Rows /\ real_quote_bitmap \in Rows
        /\ in_string_bitmap \in Rows /\ operator_bitmap \in Rows /\ open_close_bitmap \in Rows
    BY <2>3 DEF Init, Rows
  <2>5. Typed
    BY <1>1, <2>1, <2>2, <2>4 DEF Typed
  <2>6. InStep
    BY <1>3 DEF InStep, Phase, Round, Carrying, Scanning
  <2>7. \A t \in Lanes : AtPlace(t)
    BY <1>1, <1>3 DEF AtPlace, OfTheKernel, OfATile, Carrying, Scanning
  <2> QED BY <2>5, <2>6, <2>7 DEF Place
<1>5. Memory
  <2>1. \A t \in Lanes : Snapshot(t) /\ Shares(t)
    BY <1>3 DEF Snapshot, Shares, OfTheScan, Scanning
  <2> QED BY <1>1, <2>1 DEF Memory, CarryHolds
<1>6. RowsRight
  <2> SUFFICES ASSUME NEW t \in Lanes, NEW k \in 0 .. Tiles(program, text) - 1 PROVE ~Classified(t, k)
    BY DEF RowsRight, RowsHold
  <2>1. ~(k < tile[t])
    BY <1>2, <1>3
  <2> QED BY <1>1, <2>1 DEF Classified, Behind
<1>7. ErrorsHold
  BY <1>1, <1>3, ThreadFacts DEF ErrorsHold
<1> QED BY <1>4, <1>5, <1>6, <1>7 DEF StageInv

LEMMA StepStage ==
  ASSUME StageInv, NEW t \in Lanes, Step(t)
  PROVE  StageInv'
<1> USE DEF StageInv
<1>1. CASE Start(t)
  BY <1>1, StartPlace, StartMemory, OtherRows, StartErrors
<1>2. CASE Classify(t)
  <2>1. Memory'
    BY <1>2, AdvanceMemory DEF Classify, input
  <2> QED BY <1>2, <2>1, ClassifyPlace, ClassifyRows, ClassifyErrors
<1>3. CASE PublishError(t)
  BY <1>3, PublishPlace, PublishMemory, OtherRows, PublishErrors
<1>4. CASE ShareSlashes(t)
  <2>1. ErrorsHold'
    BY <1>4, KernelFacts, LaterErrors DEF ShareSlashes, input, bitmaps
  <2> QED BY <1>4, <2>1, SharePlace, ShareMemory, OtherRows
<1>5. CASE Resolve(t)
  <2>1. ErrorsHold'
    BY <1>5, KernelFacts, LaterErrors DEF Resolve, input
  <2> QED BY <1>5, <2>1, ResolvePlace, ResolveMemory, ResolveRows
<1>6. CASE CarryEscape(t)
  <2>1. NextTile(t) /\ UNCHANGED <<program, text, kernel, rows, utf_error>> /\ pc[t] \in Carrying
    BY <1>6 DEF CarryEscape, input, bitmaps, rows, Carrying
  <2>2. ErrorsHold'
    BY <1>6, <2>1, KernelFacts, LaterErrors DEF CarryEscape
  <2> QED BY <1>6, <2>1, <2>2, CarryEscapePlace, CarryEscapeMemory, CarryRows
<1>7. CASE LoadParity(t)
  <2>1. ErrorsHold'
    BY <1>7, KernelFacts, LaterErrors DEF LoadParity, input, bitmaps
  <2> QED BY <1>7, <2>1, LoadPlace, LoadMemory, OtherRows
<1>8. CASE ReadRound(t)
  <2>1. ErrorsHold'
    BY <1>8, KernelFacts, LaterErrors DEF ReadRound, input, bitmaps, Scanning
  <2> QED BY <1>8, <2>1, ReadPlace, ReadMemory, OtherRows
<1>9. CASE WriteRound(t)
  <2>1. ErrorsHold'
    BY <1>9, KernelFacts, LaterErrors DEF WriteRound, input, bitmaps, Scanning
  <2> QED BY <1>9, <2>1, WritePlace, WriteMemory, OtherRows
<1>10. CASE EmitStrings(t)
  <2>1. ErrorsHold'
    BY <1>10, KernelFacts, LaterErrors DEF EmitStrings, input
  <2> QED BY <1>10, <2>1, EmitPlace, EmitMemory, EmitRows
<1>11. CASE CarryParity(t)
  <2>1. NextTile(t) /\ UNCHANGED <<program, text, kernel, rows, utf_error>> /\ pc[t] \in Carrying
    BY <1>11 DEF CarryParity, input, bitmaps, rows, Carrying
  <2>2. ErrorsHold'
    BY <1>11, <2>1, KernelFacts, LaterErrors DEF CarryParity
  <2> QED BY <1>11, <2>1, <2>2, CarryParityPlace, CarryParityMemory, CarryRows
<1>12. CASE Filter(t)
  <2>1. Memory'
    BY <1>12, AdvanceMemory DEF Filter, input, shared
  <2>2. ErrorsHold'
    BY <1>12, KernelFacts, LaterErrors DEF Filter, input
  <2> QED BY <1>12, <2>1, <2>2, FilterPlace, FilterRows
<1> QED BY <1>1, <1>2, <1>3, <1>4, <1>5, <1>6, <1>7, <1>8, <1>9, <1>10, <1>11, <1>12 DEF Step

LEMMA NextStage == StageInv /\ [Next]_vars => StageInv'
<1> SUFFICES ASSUME StageInv, [Next]_vars PROVE StageInv'
  OBVIOUS
<1>1. ASSUME NEW t \in Lanes, Step(t) PROVE StageInv'
  BY <1>1, StepStage
<1>2. ASSUME NEW barrier \in Barriers, Barrier(barrier) PROVE StageInv'
  BY <1>2, BarrierPlace, BarrierMemory, BarrierRows, BarrierErrors DEF StageInv
<1>3. CASE Launch
  BY <1>3, LaunchPlace, LaunchMemory, LaunchRows, LaunchErrors DEF StageInv
<1>4. CASE UNCHANGED vars
  BY <1>4 DEF vars, input, shared, bitmaps, quotes_rows, StageInv, Place, Typed, InStep, AtPlace, Phase,
              Round, Distance, OfTheKernel, Memory, CarryHolds, Snapshot, Shares, Span, Slash, Word,
              RowsRight, RowsHold, Classified, Resolved, Emitted, Filtered, Behind, ErrorsHold,
              SomeFlagged, HasFlagged, Flagged, PaddedWords, ClearsTogether, Rows
<1> QED BY <1>1, <1>2, <1>3, <1>4 DEF Next

THEOREM StageInvariant == Spec => []StageInv
BY InitStage, NextStage, PTL DEF Spec

-----------------------------------------------------------------------------
(***************************************************************************)
(* What follows from the invariant.                                        *)
(***************************************************************************)
\* A word is the one of a lane in a tile; the lane has passed a kernel's write on it
\* when the kernel has the step and the tile is behind the lane.
LEMMA WordsOfTiles ==
  ASSUME StageInv, NEW w \in PaddedWords(program, text)
  PROVE  \E t \in Lanes : \E k \in 0 .. Tiles(program, text) - 1 :
           /\ w = WordAt(k, t) /\ RowsHold(t, k)
           /\ \A written : Passed(w, written) <=>
                             k < tile[t] \/ (k = tile[t] /\ pc[t] \in written)
<1>1. PICK t \in Lanes, k \in 0 .. Tiles(program, text) - 1 : w = WordAt(k, t)
  BY PlaceFacts, TilesFacts DEF StageInv
<1>2. RowsHold(t, k) /\ k \in Nat /\ Threads \in Nat \ {0} /\ t \in Nat /\ t < Threads
  BY PlaceFacts, ThreadFacts DEF StageInv, RowsRight, Lanes
<1>3. w \div Threads = k /\ w % Threads = t
  <2>1. w \in Nat /\ k * Threads \in Nat /\ w = k * Threads + t
    BY <1>1, <1>2 DEF WordAt
  <2>2. w \div Threads \in Nat /\ w % Threads \in 0 .. Threads - 1
        /\ w = (w \div Threads) * Threads + (w % Threads)
    BY <1>2, <2>1, Quotient
  <2> QED BY <1>1, <1>2, <2>2, WordAtUnique DEF WordAt, Lanes
<1>4. \A written : Passed(w, written) <=> k < tile[t] \/ (k = tile[t] /\ pc[t] \in written)
  BY <1>3 DEF Passed
<1> QED BY <1>1, <1>2, <1>4

LEMMA QuoteRowFollows == StageInv => QuoteRowFollowsStages
<1> SUFFICES ASSUME StageInv, program = "gpjson", NEW w \in PaddedWords(program, text)
             PROVE  /\ kernel = 2 =>
                         quote_bitmap[w] = IF Passed(w, {"resolved", "carry_escape"})
                                           THEN TrueQuotes(text, w) ELSE QuoteWord(text, w)
                    /\ kernel = 3 =>
                         quote_bitmap[w] = IF Passed(w, {"emitted", "carry_parity"})
                                           THEN InStringWord(text, w) ELSE TrueQuotes(text, w)
                    /\ kernel >= 4 => quote_bitmap[w] = InStringWord(text, w)
  BY DEF QuoteRowFollowsStages
<1>1. PICK t \in Lanes : \E k \in 0 .. Tiles(program, text) - 1 :
             /\ w = WordAt(k, t) /\ RowsHold(t, k)
             /\ \A written : Passed(w, written) <=>
                               k < tile[t] \/ (k = tile[t] /\ pc[t] \in written)
  BY WordsOfTiles
<1>2. PICK k \in 0 .. Tiles(program, text) - 1 :
             /\ w = WordAt(k, t) /\ RowsHold(t, k)
             /\ \A written : Passed(w, written) <=>
                               k < tile[t] \/ (k = tile[t] /\ pc[t] \in written)
  BY <1>1
<1>3. TrueQuotes(text, w) = RealQuoteWord(text, w) /\ kernel \in 1 .. 5
  BY PlaceFacts DEF TrueQuotes, RealQuoteWord, StageInv
<1>4. kernel > 1 => Classified(t, k)
  BY DEF Classified, Behind
<1>5. kernel = 2 => /\ ~Emitted(t, k)
                    /\ Resolved(t, k) <=> Passed(w, {"resolved", "carry_escape"})
  BY <1>2 DEF Emitted, Resolved, Behind
<1>6. kernel = 3 => /\ Resolved(t, k)
                    /\ Emitted(t, k) <=> Passed(w, {"emitted", "carry_parity"})
  BY <1>2 DEF Emitted, Resolved, Behind
<1>7. kernel >= 4 => Emitted(t, k)
  BY <1>3 DEF Emitted, Behind
<1>8. kernel > 1 =>
        quote_bitmap[w] = IF Emitted(t, k) THEN InStringWord(text, w)
                          ELSE IF Resolved(t, k) THEN RealQuoteWord(text, w) ELSE QuoteWord(text, w)
  BY <1>2, <1>4 DEF RowsHold
<1> QED BY <1>3, <1>5, <1>6, <1>7, <1>8

LEMMA CarryEnters == StageInv => CarryEntersTile
<1> SUFFICES ASSUME StageInv, NEW t \in Lanes
             PROVE  /\ pc[t] = "resolve" => previous_tile = EscapeEnters(text, tile[t])
                    /\ pc[t] = "emit" => CarriedParity(t) = ParityEnters(text, tile[t])
  BY DEF CarryEntersTile
<1> QED BY ResolveContext, EmitContext DEF StageInv

LEMMA ScanInclusive == StageInv => ScanIsInclusive
<1> SUFFICES ASSUME StageInv, NEW t \in Lanes, pc[t] = "emit", NEW k \in Lanes
             PROVE  shared_quote_parity[k] =
                      Cardinality({i \in 0 .. k : Parity(TrueQuotes(text, WordAt(tile[t], i))) = 1}) % 2
  BY DEF ScanIsInclusive
<1>1. shared_quote_parity[k] = XorOf(TileParity(text, tile[t]), 0, k)
  BY EmitContext DEF StageInv
<1>2. \A i \in 0 .. k : TileParity(text, tile[t])[i] = Parity(TrueQuotes(text, WordAt(tile[t], i)))
  <2> SUFFICES ASSUME NEW i \in 0 .. k
               PROVE  TileParity(text, tile[t])[i] = Parity(TrueQuotes(text, WordAt(tile[t], i)))
    OBVIOUS
  <2>1. i \in Lanes
    BY ThreadFacts DEF Lanes
  <2> QED BY <2>1 DEF TileParity, TrueQuotes, RealQuoteWord
<1>3. {i \in 0 .. k : TileParity(text, tile[t])[i] = 1}
        = {i \in 0 .. k : Parity(TrueQuotes(text, WordAt(tile[t], i))) = 1}
  BY <1>2
<1> QED BY <1>1, <1>3 DEF XorOf

LEMMA OutputRight == StageInv => OutputCorrect
<1> SUFFICES ASSUME StageInv, kernel = 5, NEW w \in PaddedWords(program, text)
             PROVE  IF program = "gpjson" THEN operator_bitmap[w] = StructuralWord(text, w)
                    ELSE /\ in_string_bitmap[w] = StructuralWord(text, w)
                         /\ open_close_bitmap[w] = OpenCloseResult(text, w)
  BY DEF OutputCorrect
<1>1. PICK t \in Lanes : \E k \in 0 .. Tiles(program, text) - 1 : w = WordAt(k, t) /\ RowsHold(t, k)
  BY WordsOfTiles
<1>2. PICK k \in 0 .. Tiles(program, text) - 1 : w = WordAt(k, t) /\ RowsHold(t, k)
  BY <1>1
<1>3. Classified(t, k) /\ Emitted(t, k) /\ Filtered(t, k)
  BY DEF Classified, Emitted, Filtered, Behind
<1>4. program \in {"gpjson", "cujson"}
  BY PlaceFacts DEF StageInv
<1> QED BY <1>2, <1>3, <1>4 DEF RowsHold

LEMMA ErrorsComplete == StageInv => ErrorWordComplete
BY PlaceFacts DEF StageInv, ErrorsHold, ErrorWordComplete

LEMMA StageIsTyped == StageInv => TypeOK
BY TypedIsTypeOK DEF StageInv, Place

\* The type of the shared memory, the registers and the bitmaps.
THEOREM StageMajorTypeOK == Spec => []TypeOK
BY StageIsTyped, StageInvariant, PTL

\* Each stage finds, word by word, what the one before it left in the row that gpJSON
\* overwrites.
THEOREM StagesFollowEachOther == Spec => []QuoteRowFollowsStages
BY QuoteRowFollows, StageInvariant, PTL

\* What a thread is about to combine with its tile are the escape and the parity with
\* which a sequential scan arrives there.
THEOREM StagesCarryTheState == Spec => []CarryEntersTile
BY CarryEnters, StageInvariant, PTL

\* The scan that doubles its distance is the inclusive XOR of the parities of the tile,
\* for every number of threads.
THEOREM StagesScanInclusively == Spec => []ScanIsInclusive
BY ScanInclusive, StageInvariant, PTL

\* The error word thread 0 publishes counts the words of all threads.
THEOREM StagesErrorComplete == Spec => []ErrorWordComplete
BY ErrorsComplete, StageInvariant, PTL

\* What the four kernels leave are the specified bitmaps.
THEOREM StagesOutputCorrect == Spec => []OutputCorrect
BY OutputRight, StageInvariant, PTL
=============================================================================
