-------------------------- MODULE CtaKernelProofs ---------------------------
(***************************************************************************)
(* Proofs about the fused kernels (FusedTiles), for every text, number of  *)
(* threads, warp size and set of words in error, and about what            *)
(* MCCtaKernels says of them when one of its kernels is launched.          *)
(***************************************************************************)
EXTENDS MCCtaKernels, JsonLemmas

-----------------------------------------------------------------------------
(***************************************************************************)
(* Tiles: JsonLemmas about groups of words, said of lanes and tiles.       *)
(***************************************************************************)
LEMMA ThreadFacts ==
  /\ Threads \in Nat \ {0}
  /\ 0 \in Lanes /\ LastLane \in Lanes /\ Lanes \subseteq Nat
BY TilesAssumption DEF Lanes, LastLane

LEMMA WordAtFacts ==
  ASSUME NEW k \in Nat, NEW t \in Lanes
  PROVE  /\ WordAt(k, t) \in Nat
         /\ WordAt(k, 0) = k * Threads /\ k * Threads \in Nat
         /\ WordAt(k, LastLane) + 1 = (k + 1) * Threads
         /\ WordAt(k, t) < (k + 1) * Threads
BY ThreadFacts DEF WordAt, Lanes, LastLane

LEMMA WordAtUnique ==
  ASSUME NEW k \in Nat, NEW j \in Nat, NEW t \in Lanes, NEW u \in Lanes,
         WordAt(k, t) = WordAt(j, u)
  PROVE  k = j /\ t = u
BY ThreadFacts, QuotientUnique DEF WordAt, Lanes

LEMMA TilesFacts ==
  ASSUME NEW p, NEW t, IsText(t)
  PROVE  /\ Tiles(p, t) \in Nat
         /\ \A k \in 0 .. Tiles(p, t) - 1, l \in Lanes : WordAt(k, l) \in PaddedWords(p, t)
         /\ \A w \in PaddedWords(p, t) :
              \E l \in Lanes, k \in 0 .. Tiles(p, t) - 1 : w = WordAt(k, l)
<1>1. WordCount(t) \in Nat
  BY TextDomain, WordBytesAssumption DEF WordCount
<1>2. Tiles(p, t) \in Nat
  BY <1>1, ThreadFacts DEF Tiles
<1> QED BY <1>2, ThreadFacts, GroupsCover DEF WordAt, Lanes, PaddedWords

LEMMA EscapeEntersTile ==
  ASSUME NEW t, IsText(t), NEW k \in Nat
  PROVE  /\ EscapeEnters(t, k) = EscapeAt(t, k * Threads)
         /\ EscapeEnters(t, 0) = 0
<1>1. \A j \in Nat : EscapeEnters(t, j) = EscapeAt(t, j * Threads)
  BY ThreadFacts, EscapeReaches DEF EscapeEnters
<1>2. 0 * Threads = 0
  BY ThreadFacts
<1> QED BY <1>1, <1>2, FirstWordUnescaped

LEMMA TileEscapeFinds ==
  ASSUME NEW t, IsText(t), NEW k \in Nat, NEW lane \in Lanes, NEW slashes,
         \A j \in 0 .. lane - 1 : slashes[j] = SlashWord(t, WordAt(k, j))
  PROVE  TileEscape(lane, slashes, EscapeEnters(t, k)) = EscapeAt(t, WordAt(k, lane))
<1>1. k * Threads \in Nat /\ lane \in Nat
  BY ThreadFacts
<1>2. NearestEscape(lane, slashes, EscapeAt(t, k * Threads)) = EscapeAt(t, k * Threads + lane)
  BY <1>1, NearestEscapeFinds DEF WordAt
<1>3. TileEscape(lane, slashes, EscapeEnters(t, k)) = NearestEscape(lane, slashes, EscapeEnters(t, k))
  BY DEF TileEscape, NearestEscape
<1> QED BY <1>2, <1>3, EscapeEntersTile DEF WordAt

\* What a thread selects are the real quotes of its word: a thread of cuJSON that has
\* not looked back has no quote an escape could reach.
LEMMA SelectedAreReal ==
  ASSUME NEW p \in Programs, NEW t, IsText(t), NEW w \in Nat, NEW lane, NEW incoming,
         LooksBack(p, lane, QuoteWord(t, w), SlashWord(t, w)) => incoming = EscapeAt(t, w)
  PROVE  SelectedQuotes(p, QuoteWord(t, w), SlashWord(t, w), incoming) = RealQuoteWord(t, w)
<1>1. p \in {"gpjson", "cujson"}
  BY TilesAssumption DEF AllPrograms
<1>2. CASE p = "cujson" /\ PossibleEscaped(QuoteWord(t, w), SlashWord(t, w)) = {}
  BY <1>2, NothingToFilter DEF SelectedQuotes
<1>3. CASE ~(p = "cujson" /\ PossibleEscaped(QuoteWord(t, w), SlashWord(t, w)) = {})
  <2>1. incoming = EscapeAt(t, w)
    BY <1>1, <1>3 DEF LooksBack
  <2> QED BY <1>3, <2>1, FilterAtWord DEF SelectedQuotes
<1> QED BY <1>2, <1>3

\* What the last lane hands on is the escape that enters the next tile: cuJSON looks
\* back there for a word of backslashes.
LEMMA LastLaneHandsOn ==
  ASSUME NEW p \in Programs, NEW t, IsText(t), NEW k \in Nat, NEW incoming,
         LooksBack(p, LastLane, QuoteWord(t, WordAt(k, LastLane)), SlashWord(t, WordAt(k, LastLane)))
           => incoming = EscapeAt(t, WordAt(k, LastLane))
  PROVE  OutgoingEscape(SlashWord(t, WordAt(k, LastLane)), incoming) = EscapeEnters(t, k + 1)
<1> DEFINE w == WordAt(k, LastLane)
<1>1. w \in Nat /\ w + 1 = (k + 1) * Threads
  BY ThreadFacts, WordAtFacts
<1>2. p \in {"gpjson", "cujson"}
  BY TilesAssumption DEF AllPrograms
<1>3. SlashWord(t, w) = Bits => incoming = EscapeAt(t, w)
  BY <1>2 DEF LooksBack
<1> HIDE DEF w
<1>4. OutgoingEscape(SlashWord(t, w), incoming) = EscapeAt(t, w + 1)
  BY <1>1, <1>3, EscapeHandedOn DEF OutgoingEscape
<1> QED BY <1>1, <1>4, EscapeEntersTile DEF w

-----------------------------------------------------------------------------
(***************************************************************************)
(* The quote parities of a tile and their scan.                            *)
(***************************************************************************)
TileParity(t, k) == [lane \in Lanes |-> Parity(RealQuoteWord(t, WordAt(k, lane)))]

LEMMA XorOfIsOddCount ==
  ASSUME NEW values, NEW i, NEW j
  PROVE  XorOf(values, i, j) = OddCount(values, i, j)
BY DEF XorOf, OddCount

LEMMA XorFacts ==
  /\ \A a, b \in {0, 1} : Xor(a, b) \in {0, 1}
  /\ \A values : \A i, j \in Int : XorOf(values, i, j) \in {0, 1}
<1>1. ASSUME NEW values, NEW i \in Int, NEW j \in Int PROVE XorOf(values, i, j) \in {0, 1}
  BY XorOfIsOddCount, OddCountFacts
<1> QED BY <1>1 DEF Xor

LEMMA TileParityFacts ==
  ASSUME NEW t, NEW k \in Nat, NEW lane \in Lanes, IsText(t)
  PROVE  /\ TileParity(t, k)[lane] = Parity(RealQuoteWord(t, WordAt(k, lane)))
         /\ TileParity(t, k)[lane] \in {0, 1}
<1>1. RealQuoteWord(t, WordAt(k, lane)) \in SUBSET Bits
  BY DEF RealQuoteWord, WordOf
<1> QED BY <1>1, ParityTypes DEF TileParity

LEMMA ParityEntersWord ==
  ASSUME NEW t, NEW k
  PROVE  ParityEnters(t, k) = ParityBeforeWord(t, k * Threads)
BY DEF ParityEnters, ParityBeforeWord

LEMMA ParityStart ==
  ASSUME NEW t, IsText(t)
  PROVE  ParityEnters(t, 0) = 0
<1>1. 0 * Threads * WordBytes = 0
  BY ThreadFacts, WordBytesAssumption
<1>2. QuotesBefore(t, 0) = {}
  BY TextDomain DEF QuotesBefore, RealQuotes
<1> QED BY <1>1, <1>2, FS_EmptySet DEF ParityEnters

\* The parity that enters the word of a lane, from the one that enters the tile.
LEMMA ParityInTile ==
  ASSUME NEW t, IsText(t), NEW k \in Nat, NEW n \in 0 .. Threads
  PROVE  ParityBeforeWord(t, k * Threads + n)
           = Xor(ParityEnters(t, k), XorOf(TileParity(t, k), 0, n - 1))
<1>1. k * Threads \in Nat /\ n \in Nat
  BY ThreadFacts
<1>2. ASSUME NEW i \in 0 .. n - 1
      PROVE  TileParity(t, k)[i] = Parity(RealQuoteWord(t, k * Threads + i))
  <2>1. i \in Lanes
    BY <1>1, ThreadFacts DEF Lanes
  <2> QED BY <2>1 DEF TileParity, WordAt
<1>3. ParityBeforeWord(t, k * Threads + n)
        = (ParityBeforeWord(t, k * Threads) + OddCount(TileParity(t, k), 0, n - 1)) % 2
  BY <1>1, <1>2, ParityOverWords
<1> QED BY <1>3, ParityEntersWord, XorOfIsOddCount DEF Xor

LEMMA TileParityLeaves ==
  ASSUME NEW t, IsText(t), NEW k \in Nat
  PROVE  Xor(ParityEnters(t, k), XorOf(TileParity(t, k), 0, LastLane)) = ParityEnters(t, k + 1)
<1>1. ParityBeforeWord(t, k * Threads + Threads)
        = Xor(ParityEnters(t, k), XorOf(TileParity(t, k), 0, Threads - 1))
  <2>1. Threads \in 0 .. Threads
    BY ThreadFacts
  <2> QED BY <2>1, ParityInTile
<1>2. k * Threads + Threads = (k + 1) * Threads
  BY ThreadFacts
<1> QED BY <1>1, <1>2, ParityEntersWord DEF LastLane

-----------------------------------------------------------------------------
(***************************************************************************)
(* The lanes of a warp, and the scan of a tile in warps.                   *)
(***************************************************************************)
LEMMA LaneFacts ==
  /\ Threads \in Nat \ {0} /\ WarpSize \in Nat \ {0}
  /\ 0 \in Lanes /\ LastLane \in Lanes /\ Lanes \subseteq Nat
BY ThreadFacts, WarpAssumption

LEMMA WarpFacts ==
  /\ \A n \in Warps : \A t \in n * WarpSize .. n * WarpSize + WarpSize - 1 :
       t \in Lanes /\ WarpOf(t) = n
  /\ \A t \in Lanes : /\ WarpOf(t) \in Warps
                      /\ WarpOf(t) * WarpSize <= t
                      /\ t <= WarpOf(t) * WarpSize + WarpSize - 1
  /\ LastWarp \in Warps /\ LastWarp * WarpSize + WarpSize - 1 = LastLane
  /\ 0 \in Warps /\ WarpOf(0) = 0
  /\ \A n \in Warps : n \in Nat /\ n * WarpSize \in Nat
<1> DEFINE count == Threads \div WarpSize
<1>1. Threads \in Nat \ {0} /\ WarpSize \in Nat \ {0} /\ Threads % WarpSize = 0
  BY LaneFacts, WarpAssumption
<1>2. count \in Nat /\ Threads = count * WarpSize
  BY <1>1, Quotient
<1>3. count # 0
  BY <1>1, <1>2
<1>4. Warps = 0 .. count - 1 /\ LastWarp = count - 1
  BY DEF Warps, LastWarp
<1> HIDE DEF count
<1>5. ASSUME NEW n \in Warps, NEW t \in n * WarpSize .. n * WarpSize + WarpSize - 1
      PROVE  t \in Lanes /\ WarpOf(t) = n
  <2>1. n \in Nat /\ n < count /\ n * WarpSize \in Nat
    BY <1>1, <1>2, <1>4
  <2>2. n * WarpSize + WarpSize <= count * WarpSize
    BY <1>1, <1>2, <2>1, Multiples
  <2>3. t \in Nat /\ t \in Lanes
    BY <1>1, <1>2, <2>1, <2>2 DEF Lanes
  <2>4. t - n * WarpSize \in 0 .. WarpSize - 1 /\ n * WarpSize + (t - n * WarpSize) = t
    BY <1>1, <2>1
  <2>5. t = (t \div WarpSize) * WarpSize + (t % WarpSize) /\ t \div WarpSize \in Nat
        /\ t % WarpSize \in 0 .. WarpSize - 1
    BY <1>1, <2>3, Quotient
  <2>6. n = t \div WarpSize
    BY <1>1, <2>1, <2>4, <2>5, QuotientUnique
  <2> QED BY <2>3, <2>6 DEF WarpOf
<1>6. ASSUME NEW t \in Lanes
      PROVE  /\ WarpOf(t) \in Warps /\ WarpOf(t) * WarpSize <= t
             /\ t <= WarpOf(t) * WarpSize + WarpSize - 1
  <2>1. t \in Nat /\ t < count * WarpSize
    BY <1>1, <1>2 DEF Lanes
  <2>2. t = (t \div WarpSize) * WarpSize + (t % WarpSize) /\ t \div WarpSize \in Nat
        /\ t % WarpSize \in 0 .. WarpSize - 1
    BY <1>1, <2>1, Quotient
  <2> DEFINE n == t \div WarpSize
             r == t % WarpSize
  <2> HIDE DEF n, r
  <2>0. t = n * WarpSize + r /\ n \in Nat /\ r \in 0 .. WarpSize - 1
    BY <2>2 DEF n, r
  <2>3. n * WarpSize \in Nat
    BY <1>1, <2>0
  <2>4. n < count
    <3> USE <2>0
    <3>1. ~(count < n) /\ count # n
      <4>1. count # n
        BY <2>1, <2>2, <2>3
      <4>2. count < n => count * WarpSize + WarpSize <= n * WarpSize
        BY <1>1, <1>2, <2>2, Multiples
      <4> QED BY <1>1, <1>2, <2>1, <2>2, <2>3, <4>1, <4>2
    <3> QED BY <1>2, <2>2, <3>1
  <2>5. n \in Warps /\ n * WarpSize <= t /\ t <= n * WarpSize + WarpSize - 1
    BY <1>1, <1>2, <1>4, <2>0, <2>3, <2>4
  <2> QED BY <2>5 DEF WarpOf, n
<1>7. LastWarp \in Warps /\ LastWarp * WarpSize + WarpSize - 1 = LastLane
  <2>1. (count - 1) * WarpSize + WarpSize = count * WarpSize
    BY <1>1, <1>2
  <2> QED BY <1>1, <1>2, <1>3, <1>4, <2>1 DEF LastLane
<1>8. 0 \in Warps /\ WarpOf(0) = 0
  BY <1>1, <1>2, <1>3, <1>4 DEF WarpOf
<1>9. \A n \in Warps : n \in Nat /\ n * WarpSize \in Nat
  BY <1>1, <1>2, <1>4
<1> QED BY <1>5, <1>6, <1>7, <1>8, <1>9

\* the parity of the words of a warp, and of those up to the end of the warp
WarpTotal(t, k, n) == XorOf(TileParity(t, k), n * WarpSize, n * WarpSize + WarpSize - 1)
TileTotal(t, k, n) == XorOf(TileParity(t, k), 0, n * WarpSize + WarpSize - 1)

LEMMA TotalLeaves ==
  ASSUME NEW t, IsText(t), NEW k \in Nat
  PROVE  Xor(ParityEnters(t, k), TileTotal(t, k, LastWarp)) = ParityEnters(t, k + 1)
<1>1. LastWarp * WarpSize + WarpSize - 1 = LastLane
  BY WarpFacts
<1> QED BY <1>1, TileParityLeaves DEF TileTotal

\* The scan of the totals in place.
LEMMA TotalsOfWarps ==
  ASSUME NEW t, NEW k, NEW totals, \A n \in Warps : totals[n] = WarpTotal(t, k, n),
         NEW m \in Warps
  PROVE  XorOf(totals, 0, m) = TileTotal(t, k, m)
<1>1. m \in Nat /\ WarpSize \in Nat \ {0}
  BY WarpFacts, LaneFacts
<1>2. ASSUME NEW n \in 0 .. m
      PROVE  totals[n] = OddCount(TileParity(t, k), n * WarpSize, n * WarpSize + WarpSize - 1)
  <2>1. n \in Warps
    BY <1>1, WarpAssumption, TilesAssumption DEF Warps
  <2> QED BY <2>1, XorOfIsOddCount DEF WarpTotal
<1>3. OddCount(totals, 0, m) = OddCount(TileParity(t, k), 0, m * WarpSize + WarpSize - 1)
  BY <1>1, <1>2, OddCountOfRuns
<1> QED BY <1>3, XorOfIsOddCount DEF TileTotal

\* With the total of the warps before it a lane knows the parity of all words up to its
\* own, and of all before it.
LEMMA ScanOfTile ==
  ASSUME NEW t, IsText(t), NEW k \in Nat, NEW lane \in Lanes
  PROVE  LET W         == WarpOf(lane)
             before    == IF W = 0 THEN 0 ELSE TileTotal(t, k, W - 1)
             inclusive == XorOf(TileParity(t, k), W * WarpSize, lane)
             own       == Parity(RealQuoteWord(t, WordAt(k, lane)))
         IN Xor(ParityEnters(t, k), Xor(Xor(before, inclusive), own))
              = ParityBeforeWord(t, WordAt(k, lane))
<1> DEFINE W         == WarpOf(lane)
           A         == TileParity(t, k)
           S         == W * WarpSize
           before    == IF W = 0 THEN 0 ELSE TileTotal(t, k, W - 1)
           inclusive == XorOf(A, S, lane)
           own       == Parity(RealQuoteWord(t, WordAt(k, lane)))
           enters    == ParityEnters(t, k)
           below     == XorOf(A, 0, lane - 1)
           upto      == XorOf(A, 0, lane)
<1>1. /\ W \in Nat /\ S \in Nat /\ lane \in Nat /\ S <= lane /\ WarpSize \in Nat \ {0}
  BY WarpFacts, LaneFacts
<1>2. before = XorOf(A, 0, S - 1)
  <2>1. CASE W = 0
    <3>1. S = 0
      BY <1>1, <2>1
    <3>2. OddCount(A, 0, S - 1) = 0
      BY <3>1, OddCountFacts
    <3> QED BY <2>1, <3>2, XorOfIsOddCount
  <2>2. CASE W # 0
    <3>1. (W - 1) * WarpSize + WarpSize - 1 = S - 1
      BY <1>1
    <3> QED BY <2>2, <3>1 DEF TileTotal
  <2> QED BY <2>1, <2>2
<1>3. own = A[lane] /\ own \in {0, 1}
  BY TileParityFacts
<1> HIDE DEF A, S, W, before, own
<1>4. upto = Xor(XorOf(A, 0, S - 1), inclusive)
  <2>1. OddCount(A, 0, lane) = (OddCount(A, 0, S - 1) + OddCount(A, (S - 1) + 1, lane)) % 2
    <3>1. 0 \in Int /\ S - 1 \in Int /\ lane \in Int /\ 0 <= (S - 1) + 1 /\ S - 1 <= lane
      BY <1>1
    <3> QED BY <3>1, OddCountSplit
  <2>2. (S - 1) + 1 = S
    BY <1>1
  <2> QED BY <2>1, <2>2, XorOfIsOddCount DEF Xor
<1>5. upto = Xor(below, own)
  <2>1. OddCount(A, 0, lane) = (OddCount(A, 0, lane - 1) + OddCount(A, (lane - 1) + 1, lane)) % 2
    <3>1. 0 \in Int /\ lane - 1 \in Int /\ lane \in Int /\ 0 <= (lane - 1) + 1 /\ lane - 1 <= lane
      BY <1>1
    <3> QED BY <3>1, OddCountSplit
  <2>2. (lane - 1) + 1 = lane
    BY <1>1
  <2>3. OddCount(A, lane, lane) = own
    BY <1>1, <1>3, OddCountFacts
  <2> QED BY <2>1, <2>2, <2>3, XorOfIsOddCount DEF Xor
<1>6. ParityBeforeWord(t, WordAt(k, lane)) = Xor(enters, below)
  <2>1. lane \in 0 .. Threads
    BY <1>1, LaneFacts DEF Lanes
  <2> QED BY <2>1, ParityInTile DEF WordAt, A
<1>7. below \in {0, 1} /\ enters \in {0, 1}
  <2>1. k * Threads \in Nat
    BY LaneFacts
  <2>2. lane - 1 \in Int
    BY <1>1
  <2> QED BY <2>1, <2>2, XorFacts, ParityEntersWord, ParityTypes
<1> HIDE DEF below, enters, upto, inclusive
<1>8. Xor(enters, Xor(Xor(before, inclusive), own)) = Xor(enters, below)
  <2>1. Xor(before, inclusive) = Xor(below, own)
    BY <1>2, <1>4, <1>5
  <2>2. Xor(Xor(below, own), own) = below
    BY <1>3, <1>7 DEF Xor
  <2> QED BY <2>1, <2>2
<1>9. inclusive = XorOf(A, S, lane)
  BY DEF inclusive
<1> QED BY <1>6, <1>8 DEF W, A, S, before, inclusive, own, enters

-----------------------------------------------------------------------------
(***************************************************************************)
(* The inductive invariant of a fused kernel.  Between two barriers lanes  *)
(* are apart: Place says by how much, Carried what shared memory and the   *)
(* registers hold meanwhile, and Produced what has been written and which  *)
(* errors have been added.                                                 *)
(***************************************************************************)
Scanning == {"resolve", "warp_scan", "scanned"}
Totaling == {"totals", "totaled"}
Looping  == {"classify", "published", "emit"} \cup Scanning \cup Totaling
LookedBack == {"warp_scan", "scanned", "totals", "totaled", "emit"}
Scanned  == {"scanned", "totals", "totaled", "emit"}

\* A lane that only has to emit already counts as one of the next tile.
Round(t) == IF pc[t] = "emit" THEN tile[t] + 1 ELSE tile[t]

SameRound ==
  \A t, u \in Lanes :
    /\ Round(t) = Round(u)
    /\ pc[t] \in Scanning => pc[u] \in Scanning
    /\ pc[t] \in Totaling => pc[u] \in Totaling

AtPlace(t) ==
  /\ pc[t] = "start" => tile[t] = 0
  /\ pc[t] \in Looping => tile[t] < Tiles(program, text)
  /\ pc[t] \in {"publish", "exit"} => tile[t] = Tiles(program, text)
  /\ pc[t] = "publish" => t = 0 /\ program = "cujson"
  /\ pc[t] = "totals" => WarpOf(t) = 0

Place ==
  /\ program \in Programs /\ text \in Texts
  /\ TypeOK
  /\ SameRound
  /\ \A t \in Lanes : AtPlace(t)

SlashesShared ==
  \A t \in Lanes : pc[t] \in {"published"} \cup Scanning => shared_slashes[t] = Slash(t)

EscapeCarried ==
  pc[0] # "start" /\ pc[LastLane] # "emit" => previous_tile_escape = EscapeEnters(text, Round(0))

ParityCarried ==
  pc[0] \notin {"start", "emit"} => previous_tile_quote_parity = ParityEnters(text, Round(0))

Registers(t) ==
  /\ pc[t] \in LookedBack =>
       /\ local[t].quotes = RealQuoteWord(text, Word(t))
       /\ local[t].old_parity = ParityEnters(text, tile[t])
       /\ t = LastLane => local[t].outgoing = EscapeEnters(text, tile[t] + 1)
  /\ pc[t] \in Scanned =>
       local[t].inclusive = XorOf(TileParity(text, tile[t]), WarpOf(t) * WarpSize, t)

TotalsShared ==
  /\ \A t \in Lanes : pc[t] = "scanned" =>
       shared_warp_quote_parity[WarpOf(t)] = WarpTotal(text, tile[t], WarpOf(t))
  /\ pc[0] = "totals" =>
       \A n \in Warps : shared_warp_quote_parity[n] = WarpTotal(text, tile[0], n)
  /\ pc[0] = "totaled" =>
       \A n \in Warps : shared_warp_quote_parity[n] = TileTotal(text, tile[0], n)
  /\ \A t \in Lanes : pc[t] = "emit" =>
       \A n \in Warps : shared_warp_quote_parity[n] = TileTotal(text, tile[t], n)

Carried ==
  /\ SlashesShared /\ EscapeCarried /\ ParityCarried
  /\ \A t \in Lanes : Registers(t)
  /\ TotalsShared

\* the tiles whose errors a lane has added
Resolved(t) == IF pc[t] \in LookedBack THEN tile[t] + 1 ELSE tile[t]

ErrorsAdded ==
  pc[0] # "start" =>
    (input_utf_error <=>
       \E t \in Lanes : \E k \in 0 .. Resolved(t) - 1 : Flagged(program, text, WordAt(k, t)))

Produced == EmittedWordsCorrect /\ ErrorsAdded /\ StoredErrorComplete

FusedInv == Place /\ Carried /\ Produced

LaunchedInv == running = "fused" => FusedInv

PcValues ==
  Barriers \cup {"start", "classify", "resolve", "warp_scan", "totals", "emit", "publish", "exit"}

LEMMA PlaceFacts ==
  ASSUME Place
  PROVE  /\ IsText(text) /\ Tiles(program, text) \in Nat
         /\ pc \in [Lanes -> PcValues]
         /\ \A t \in Lanes : tile[t] \in Nat /\ Round(t) \in Nat /\ Word(t) \in Nat
         /\ \A t \in Lanes : pc[t] \in Looping => Word(t) \in PaddedWords(program, text)
<1>1. IsText(text) /\ pc \in [Lanes -> PcValues]
  BY TilesAssumption DEF Place, TypeOK, PcValues
<1>2. Tiles(program, text) \in Nat
  BY <1>1, TilesFacts
<1>3. \A t \in Lanes : tile[t] \in 0 .. Tiles(program, text)
  BY DEF Place, TypeOK
<1>4. \A t \in Lanes : tile[t] \in Nat /\ Round(t) \in Nat
  BY <1>2, <1>3 DEF Round
<1>5. \A t \in Lanes : Word(t) \in Nat
  BY <1>4, WordAtFacts DEF Word
<1>6. ASSUME NEW t \in Lanes, pc[t] \in Looping PROVE Word(t) \in PaddedWords(program, text)
  <2>1. tile[t] \in 0 .. Tiles(program, text) - 1
    BY <1>2, <1>3, <1>6 DEF Place, AtPlace
  <2> QED BY <1>1, <2>1, TilesFacts DEF Word
<1> QED BY <1>1, <1>2, <1>4, <1>5, <1>6

\* Where a lane goes at the head of the loop.
LEMMA LoopHeadFacts ==
  ASSUME Place, NEW t \in Lanes, NEW k \in 0 .. Tiles(program, text)
  PROVE  /\ LoopHead(t, k) \in {"classify", "publish", "exit"}
         /\ LoopHead(t, k) = "classify" => k < Tiles(program, text)
         /\ LoopHead(t, k) \in {"publish", "exit"} => k = Tiles(program, text)
         /\ LoopHead(t, k) = "publish" => t = 0 /\ program = "cujson"
         /\ LoopHead(t, k) = "exit" => ~(t = 0 /\ program = "cujson")
BY PlaceFacts DEF LoopHead, Ending, TilesOfThread

LEMMA StartPlace ==
  ASSUME Place, NEW t \in Lanes, Start(t)
  PROVE  Place'
<1> DEFINE x == LoopHead(t, 0)
<1>1. pc[t] = "start" /\ pc' = [pc EXCEPT ![t] = x] /\ UNCHANGED <<program, text, tile>>
  BY DEF Start
<1>2. tile[t] = 0 /\ Tiles(program, text) \in Nat
  BY <1>1, PlaceFacts DEF Place, AtPlace
<1>3. /\ x \in {"classify", "publish", "exit"}
      /\ x = "classify" => 0 < Tiles(program, text)
      /\ x \in {"publish", "exit"} => 0 = Tiles(program, text)
      /\ x = "publish" => t = 0 /\ program = "cujson"
  BY <1>2, LoopHeadFacts
<1> HIDE DEF x
<1>4. pc \in [Lanes -> PcValues]
  BY PlaceFacts
<1>5. TypeOK'
  <2>1. pc' \in [Lanes -> PcValues]
    BY <1>1, <1>3, <1>4 DEF PcValues
  <2> QED BY <1>1, <2>1 DEF Place, TypeOK, Start, output, PcValues
<1>6. \A u \in Lanes : /\ pc'[u] = (IF u = t THEN x ELSE pc[u]) /\ Round(u)' = Round(u)
                       /\ pc'[u] \in Scanning <=> pc[u] \in Scanning
                       /\ pc'[u] \in Totaling <=> pc[u] \in Totaling
  BY <1>1, <1>3, <1>4 DEF Round, Scanning, Totaling
<1>7. SameRound'
  BY <1>6 DEF SameRound, Place
<1>8. \A u \in Lanes : AtPlace(u)'
  BY <1>1, <1>2, <1>3, <1>6 DEF Place, AtPlace, Looping, Scanning, Totaling
<1> QED BY <1>1, <1>5, <1>7, <1>8 DEF Place

LEMMA ClassifyPlace ==
  ASSUME Place, NEW t \in Lanes, Classify(t)
  PROVE  Place'
<1>1. pc[t] = "classify" /\ pc' = [pc EXCEPT ![t] = "published"] /\ UNCHANGED <<program, text, tile>>
  BY DEF Classify
<1>2. pc \in [Lanes -> PcValues]
  BY PlaceFacts
<1>3. TypeOK'
  <2>1. pc' \in [Lanes -> PcValues]
    BY <1>1, <1>2 DEF PcValues, Barriers
  <2>2. Slash(t) \in SUBSET Bits
    BY DEF Slash, SlashWord, BitsWhere
  <2>3. shared_slashes' \in [Lanes -> SUBSET Bits]
    BY <2>2 DEF Place, TypeOK, Classify
  <2> QED BY <1>1, <2>1, <2>3 DEF Place, TypeOK, Classify, output, PcValues
<1>4. \A u \in Lanes : /\ pc'[u] = (IF u = t THEN "published" ELSE pc[u]) /\ Round(u)' = Round(u)
                       /\ pc'[u] \in Scanning <=> pc[u] \in Scanning
                       /\ pc'[u] \in Totaling <=> pc[u] \in Totaling
  BY <1>1, <1>2 DEF Round, Scanning, Totaling
<1>5. SameRound'
  BY <1>4 DEF SameRound, Place
<1>6. \A u \in Lanes : AtPlace(u)'
  BY <1>1, <1>4 DEF Place, AtPlace, Looping, Scanning, Totaling
<1> QED BY <1>1, <1>3, <1>5, <1>6 DEF Place

LEMMA PublishPlace ==
  ASSUME Place, NEW t \in Lanes, PublishError(t)
  PROVE  Place'
<1>1. pc[t] = "publish" /\ pc' = [pc EXCEPT ![t] = "exit"] /\ UNCHANGED <<program, text, tile>>
  BY DEF PublishError
<1>2. pc \in [Lanes -> PcValues]
  BY PlaceFacts
<1>3. TypeOK'
  <2>1. pc' \in [Lanes -> PcValues]
    BY <1>1, <1>2 DEF PcValues
  <2> QED BY <1>1, <2>1 DEF Place, TypeOK, PublishError, shared, PcValues
<1>4. \A u \in Lanes : /\ pc'[u] = (IF u = t THEN "exit" ELSE pc[u]) /\ Round(u)' = Round(u)
                       /\ pc'[u] \in Scanning <=> pc[u] \in Scanning
                       /\ pc'[u] \in Totaling <=> pc[u] \in Totaling
  BY <1>1, <1>2 DEF Round, Scanning, Totaling
<1>5. SameRound'
  BY <1>4 DEF SameRound, Place
<1>6. \A u \in Lanes : AtPlace(u)'
  BY <1>1, <1>4 DEF Place, AtPlace, Looping, Scanning, Totaling
<1> QED BY <1>1, <1>3, <1>5, <1>6 DEF Place

\* The escape a thread finds is 0 or 1, whatever the words it reads.
LEMMA EscapeTypes ==
  ASSUME NEW p, NEW lane \in Lanes, NEW quote, NEW slash \in SUBSET Bits,
         NEW slashes \in [Lanes -> SUBSET Bits], NEW carried \in {0, 1}
  PROVE  /\ IncomingEscape(p, lane, quote, slash, slashes, carried) \in {0, 1}
         /\ OutgoingEscape(slash, IncomingEscape(p, lane, quote, slash, slashes, carried)) \in {0, 1}
<1>1. ASSUME NEW word \in SUBSET Bits PROVE TrailingOnes(word) % 2 \in {0, 1}
  <2>1. TrailingOnes(word) \in Nat
    <3>1. CASE word = Bits
      BY <3>1, WordBytesAssumption DEF TrailingOnes
    <3>2. CASE word # Bits
      <4>1. TrailingOnes(word) \in 0 .. WordBytes - 1
        BY <3>2, TrailingOnesFacts
      <4> QED BY <4>1
    <3> QED BY <3>1, <3>2
  <2> QED BY <2>1
<1>2. TileEscape(lane, slashes, carried) \in {0, 1}
  <2> DEFINE ends == {k \in 0 .. lane - 1 : TrailingOnes(slashes[k]) # WordBytes}
             e    == CHOOSE k \in ends : \A j \in ends : j <= k
  <2>1. CASE ends = {}
    BY <2>1 DEF TileEscape
  <2>2. CASE ends # {}
    <3>1. ends \in SUBSET (0 .. lane) /\ ends \in SUBSET Lanes /\ lane \in Nat
      BY LaneFacts DEF Lanes
    <3>2. \E k \in ends : \A j \in ends : j <= k
      <4> HIDE DEF ends
      <4> QED BY <2>2, <3>1, GreatestElement
    <3>3. e \in ends
      <4> HIDE DEF ends
      <4> QED BY <3>2
    <3>4. TileEscape(lane, slashes, carried) = TrailingOnes(slashes[e]) % 2
      BY <2>2 DEF TileEscape
    <3>5. slashes[e] \in SUBSET Bits
      <4> HIDE DEF ends, e
      <4> QED BY <3>1, <3>3
    <3> QED BY <1>1, <3>4, <3>5
  <2> QED BY <2>1, <2>2
<1>3. IncomingEscape(p, lane, quote, slash, slashes, carried) \in {0, 1}
  BY <1>2 DEF IncomingEscape
<1> QED BY <1>1, <1>3 DEF OutgoingEscape

LEMMA ResolvePlace ==
  ASSUME Place, NEW t \in Lanes, Resolve(t)
  PROVE  Place'
<1> DEFINE incoming == IncomingEscape(program, t, Quote(t), Slash(t), shared_slashes, previous_tile_escape)
           snapshot == [local[t] EXCEPT
                          !.old_parity = previous_tile_quote_parity,
                          !.quotes     = SelectedQuotes(program, Quote(t), Slash(t), incoming),
                          !.outgoing   = OutgoingEscape(Slash(t), incoming)]
<1>1. /\ pc[t] = "resolve" /\ pc' = [pc EXCEPT ![t] = "warp_scan"]
      /\ UNCHANGED <<program, text, tile>>
      /\ local' = [local EXCEPT ![t] = snapshot]
  BY DEF Resolve
<1>2. pc \in [Lanes -> PcValues]
  BY PlaceFacts
<1>3. TypeOK'
  <2>1. pc' \in [Lanes -> PcValues]
    BY <1>1, <1>2 DEF PcValues
  <2>2. local \in [Lanes -> Snapshots] /\ previous_tile_quote_parity \in {0, 1}
    BY DEF Place, TypeOK
  <2>3. /\ Slash(t) \in SUBSET Bits /\ Quote(t) \in SUBSET Bits
        /\ SelectedQuotes(program, Quote(t), Slash(t), incoming) \in SUBSET Bits
    BY DEF Slash, SlashWord, Quote, QuoteWord, BitsWhere, SelectedQuotes, FilterEscapedQuotes
  <2>4. OutgoingEscape(Slash(t), incoming) \in {0, 1}
    BY <2>3, EscapeTypes DEF Place, TypeOK
  <2> HIDE DEF incoming
  <2>5. snapshot \in Snapshots
    BY <2>2, <2>3, <2>4 DEF Snapshots
  <2> HIDE DEF snapshot
  <2>6. local' \in [Lanes -> Snapshots]
    BY <1>1, <2>2, <2>5
  <2>7. input_utf_error' \in BOOLEAN
    BY DEF Resolve
  <2> QED BY <1>1, <2>1, <2>6, <2>7 DEF Place, TypeOK, Resolve, output, PcValues
<1> HIDE DEF snapshot
<1>4. \A u \in Lanes : /\ pc'[u] = (IF u = t THEN "warp_scan" ELSE pc[u]) /\ Round(u)' = Round(u)
                       /\ pc'[u] \in Scanning <=> pc[u] \in Scanning
                       /\ pc'[u] \in Totaling <=> pc[u] \in Totaling
  BY <1>1, <1>2 DEF Round, Scanning, Totaling
<1>5. SameRound'
  BY <1>4 DEF SameRound, Place
<1>6. \A u \in Lanes : AtPlace(u)'
  BY <1>1, <1>4 DEF Place, AtPlace, Looping, Scanning, Totaling
<1> QED BY <1>1, <1>3, <1>5, <1>6 DEF Place

LEMMA EmitPlace ==
  ASSUME Place, NEW t \in Lanes, Emit(t)
  PROVE  Place'
<1> DEFINE in_string == InStringBits(local[t].quotes, ParityBefore(t))
           x == LoopHead(t, tile[t] + 1)
<1>1. /\ pc[t] = "emit" /\ pc' = [pc EXCEPT ![t] = x]
      /\ tile' = [tile EXCEPT ![t] = @ + 1] /\ UNCHANGED <<program, text>>
  BY DEF Emit
<1>2. /\ pc \in [Lanes -> PcValues] /\ Tiles(program, text) \in Nat
      /\ tile \in [Lanes -> 0 .. Tiles(program, text)]
      /\ tile[t] < Tiles(program, text) /\ tile[t] + 1 \in 0 .. Tiles(program, text)
  BY <1>1, PlaceFacts DEF Place, TypeOK, AtPlace, Looping
<1>3. /\ x \in {"classify", "publish", "exit"}
      /\ x = "classify" => tile[t] + 1 < Tiles(program, text)
      /\ x \in {"publish", "exit"} => tile[t] + 1 = Tiles(program, text)
      /\ x = "publish" => t = 0 /\ program = "cujson"
  BY <1>2, LoopHeadFacts
<1> HIDE DEF x
<1>4. TypeOK'
  <2>1. pc' \in [Lanes -> PcValues] /\ tile' \in [Lanes -> 0 .. Tiles(program, text)]
    BY <1>1, <1>2, <1>3 DEF PcValues
  <2>2. /\ structural \in [PaddedWords(program, text) -> SUBSET Bits]
        /\ open_close \in [PaddedWords(program, text) -> SUBSET Bits]
        /\ local[t] \in Snapshots /\ shared_warp_quote_parity[LastWarp] \in {0, 1}
    BY WarpFacts DEF Place, TypeOK
  <2>3. OperatorWord(text, Word(t)) \in SUBSET Bits /\ OpenCloseWord(text, Word(t)) \in SUBSET Bits
    BY DEF OperatorWord, OpenCloseWord, BitsWhere
  <2>4. /\ structural' = [structural EXCEPT ![Word(t)] = OperatorWord(text, Word(t)) \ in_string]
        /\ open_close' = IF program = "cujson"
                         THEN [open_close EXCEPT ![Word(t)] = OpenCloseWord(text, Word(t)) \ in_string]
                         ELSE open_close
        /\ previous_tile_escape' = (IF t \in CarriesEscape THEN local[t].outgoing ELSE previous_tile_escape)
        /\ previous_tile_quote_parity' =
             (IF t = 0 THEN Xor(local[t].old_parity, shared_warp_quote_parity[LastWarp])
              ELSE previous_tile_quote_parity)
    BY DEF Emit
  <2> HIDE DEF in_string
  <2>5. /\ structural' \in [PaddedWords(program, text) -> SUBSET Bits]
        /\ open_close' \in [PaddedWords(program, text) -> SUBSET Bits]
    BY <2>2, <2>3, <2>4
  <2>6. Xor(local[t].old_parity, shared_warp_quote_parity[LastWarp]) \in {0, 1}
    BY <2>2, XorFacts DEF Snapshots
  <2>7. previous_tile_escape' \in {0, 1} /\ previous_tile_quote_parity' \in {0, 1}
    BY <2>2, <2>4, <2>6 DEF Place, TypeOK, Snapshots
  <2> QED BY <1>1, <2>1, <2>5, <2>7 DEF Place, TypeOK, Emit, PcValues
<1>5. \A u \in Lanes : /\ pc'[u] = (IF u = t THEN x ELSE pc[u]) /\ Round(u)' = Round(u)
                       /\ tile'[u] = (IF u = t THEN tile[t] + 1 ELSE tile[u])
                       /\ pc'[u] \in Scanning <=> pc[u] \in Scanning
                       /\ pc'[u] \in Totaling <=> pc[u] \in Totaling
  BY <1>1, <1>2, <1>3 DEF Round, Scanning, Totaling
<1>6. SameRound'
  BY <1>5 DEF SameRound, Place
<1>7. \A u \in Lanes : AtPlace(u)'
  BY <1>1, <1>3, <1>5 DEF Place, AtPlace, Looping, Scanning, Totaling
<1> QED BY <1>1, <1>4, <1>6, <1>7 DEF Place

LEMMA WarpScanPlace ==
  ASSUME Place, NEW n \in Warps, WarpScan(n)
  PROVE  Place'
<1> DEFINE parity == [t \in Lanes |-> Parity(local[t].quotes)]
<1>1. /\ \A t \in Lanes : WarpOf(t) = n => pc[t] = "warp_scan"
      /\ pc' = [t \in Lanes |-> IF WarpOf(t) = n THEN "scanned" ELSE pc[t]]
      /\ UNCHANGED <<program, text, tile>>
  BY DEF WarpScan, WarpLanes
<1>2. pc \in [Lanes -> PcValues]
  BY PlaceFacts
<1>3. TypeOK'
  <2>1. pc' \in [Lanes -> PcValues]
    BY <1>1, <1>2 DEF PcValues, Barriers
  <2>2. /\ local' = [t \in Lanes |->
                 IF WarpOf(t) = n
                 THEN [local[t] EXCEPT !.inclusive = XorOf(parity, n * WarpSize, t)]
                 ELSE local[t]]
        /\ shared_warp_quote_parity' =
             [shared_warp_quote_parity EXCEPT
                ![n] = XorOf(parity, n * WarpSize, n * WarpSize + WarpSize - 1)]
    BY DEF WarpScan
  <2> HIDE DEF parity
  <2>3. /\ n * WarpSize \in Int /\ n * WarpSize + WarpSize - 1 \in Int
        /\ \A t \in Lanes : t \in Int
    BY WarpFacts, LaneFacts
  <2>4. /\ XorOf(parity, n * WarpSize, n * WarpSize + WarpSize - 1) \in {0, 1}
        /\ \A t \in Lanes : XorOf(parity, n * WarpSize, t) \in {0, 1}
    BY <2>3, XorFacts
  <2>5. local' \in [Lanes -> Snapshots]
    BY <2>2, <2>4 DEF Place, TypeOK, Snapshots
  <2>6. shared_warp_quote_parity' \in [Warps -> {0, 1}]
    BY <2>2, <2>4 DEF Place, TypeOK
  <2> QED BY <1>1, <2>1, <2>5, <2>6 DEF Place, TypeOK, WarpScan, output, PcValues
<1>4. \A u \in Lanes : /\ pc'[u] = (IF WarpOf(u) = n THEN "scanned" ELSE pc[u]) /\ Round(u)' = Round(u)
                       /\ pc'[u] \in Scanning <=> pc[u] \in Scanning
                       /\ pc'[u] \in Totaling <=> pc[u] \in Totaling
  BY <1>1, <1>2 DEF Round, Scanning, Totaling
<1>5. SameRound'
  BY <1>4 DEF SameRound, Place
<1>6. \A u \in Lanes : AtPlace(u)'
  BY <1>1, <1>4 DEF Place, AtPlace, Looping, Scanning, Totaling
<1> QED BY <1>1, <1>3, <1>5, <1>6 DEF Place

LEMMA ScanTotalsPlace ==
  ASSUME Place, ScanTotals
  PROVE  Place'
<1>1. /\ \A t \in Lanes : WarpOf(t) = 0 => pc[t] = "totals"
      /\ pc' = [t \in Lanes |-> IF WarpOf(t) = 0 THEN "totaled" ELSE pc[t]]
      /\ UNCHANGED <<program, text, tile>>
  BY DEF ScanTotals, WarpLanes
<1>2. pc \in [Lanes -> PcValues]
  BY PlaceFacts
<1>3. TypeOK'
  <2>1. pc' \in [Lanes -> PcValues]
    BY <1>1, <1>2 DEF PcValues, Barriers
  <2>2. shared_warp_quote_parity' \in [Warps -> {0, 1}]
    <3>1. \A n \in Warps : n \in Int
      BY WarpFacts
    <3>2. \A n \in Warps : XorOf(shared_warp_quote_parity, 0, n) \in {0, 1}
      BY <3>1, XorFacts
    <3> QED BY <3>2 DEF ScanTotals
  <2> QED BY <1>1, <2>1, <2>2 DEF Place, TypeOK, ScanTotals, output, PcValues
<1>4. \A u \in Lanes : /\ pc'[u] = (IF WarpOf(u) = 0 THEN "totaled" ELSE pc[u]) /\ Round(u)' = Round(u)
                       /\ pc'[u] \in Scanning <=> pc[u] \in Scanning
                       /\ pc'[u] \in Totaling <=> pc[u] \in Totaling
  BY <1>1, <1>2 DEF Round, Scanning, Totaling
<1>5. SameRound'
  BY <1>4 DEF SameRound, Place
<1>6. \A u \in Lanes : AtPlace(u)'
  BY <1>1, <1>4 DEF Place, AtPlace, Looping, Scanning, Totaling
<1> QED BY <1>1, <1>3, <1>5, <1>6 DEF Place

\* All lanes wait at a barrier, and all of them leave it.
LEMMA BarrierFacts ==
  ASSUME Place, NEW barrier \in Barriers, Barrier(barrier)
  PROVE  /\ \A t \in Lanes : pc[t] = barrier
         /\ pc' = [t \in Lanes |-> AfterBarrier(barrier, t)]
         /\ UNCHANGED <<program, text, tile, shared, local, output>>
         /\ \A t, u \in Lanes : tile[t] = tile[u]
<1>1. PICK group \in {Lanes} : /\ \A t \in group : pc[t] = barrier
                               /\ pc' = [t \in Lanes |-> IF t \in group THEN AfterBarrier(barrier, t) ELSE pc[t]]
  BY DEF Barrier, Together
<1>2. \A t \in Lanes : pc[t] = barrier /\ Round(t) = tile[t]
  BY <1>1 DEF Round, Barriers
<1> QED BY <1>1, <1>2 DEF Barrier, Place, SameRound

LEMMA BarrierPlace ==
  ASSUME Place, NEW barrier \in Barriers, Barrier(barrier)
  PROVE  Place'
<1>1. /\ \A t \in Lanes : pc[t] = barrier /\ pc'[t] = AfterBarrier(barrier, t)
      /\ UNCHANGED <<program, text, tile, shared, local, output>>
      /\ \A t, u \in Lanes : tile[t] = tile[u]
      /\ pc' = [t \in Lanes |-> AfterBarrier(barrier, t)]
  BY BarrierFacts
<1>2. \A t \in Lanes : /\ barrier = "published" => pc'[t] = "resolve"
                       /\ barrier = "scanned" => pc'[t] = IF WarpOf(t) = 0 THEN "totals" ELSE "totaled"
                       /\ barrier = "totaled" => pc'[t] = "emit"
  BY <1>1 DEF AfterBarrier
<1>3. barrier \in {"published", "scanned", "totaled"}
  BY DEF Barriers
<1>4. TypeOK'
  <2>1. \A t \in Lanes : AfterBarrier(barrier, t) \in PcValues
    BY <1>1, <1>2, <1>3 DEF PcValues, Barriers
  <2>2. pc' \in [Lanes -> PcValues]
    BY <1>1, <2>1
  <2> QED BY <1>1, <2>2 DEF Place, TypeOK, shared, output, PcValues
<1>5. SameRound'
  <2>1. \A t \in Lanes : Round(t)' = IF barrier = "totaled" THEN tile[t] + 1 ELSE tile[t]
    BY <1>1, <1>2, <1>3 DEF Round
  <2> QED BY <1>1, <1>2, <1>3, <2>1 DEF SameRound, Scanning, Totaling
<1>6. \A u \in Lanes : AtPlace(u)'
  BY <1>1, <1>2, <1>3 DEF Place, AtPlace, Looping, Scanning, Totaling
<1> QED BY <1>1, <1>4, <1>5, <1>6 DEF Place

-----------------------------------------------------------------------------
(***************************************************************************)
(* What is carried, step by step.                                          *)
(***************************************************************************)

\* A step that lets no lane hold new registers leaves those of the others right.
LEMMA RegistersKept ==
  ASSUME Carried, UNCHANGED <<text, local, shared_warp_quote_parity>>,
         \A u \in Lanes : pc'[u] \in LookedBack => pc'[u] = pc[u] /\ tile'[u] = tile[u]
  PROVE  (\A u \in Lanes : Registers(u))' /\ TotalsShared'
<1>1. ASSUME NEW u \in Lanes PROVE Registers(u)'
  BY <1>1 DEF Carried, Registers, LookedBack, Scanned, Word
<1>2. TotalsShared'
  BY LaneFacts DEF Carried, TotalsShared, LookedBack
<1> QED BY <1>1, <1>2

LEMMA StartCarried ==
  ASSUME Place, Carried, NEW t \in Lanes, Start(t)
  PROVE  Carried'
<1> DEFINE x == LoopHead(t, 0)
<1>1. /\ pc[t] = "start" /\ pc' = [pc EXCEPT ![t] = x]
      /\ UNCHANGED <<program, text, tile, shared_slashes, shared_warp_quote_parity, local>>
      /\ t = 0 => previous_tile_escape' = 0 /\ previous_tile_quote_parity' = 0
      /\ t # 0 => UNCHANGED <<previous_tile_escape, previous_tile_quote_parity>>
  BY DEF Start
<1>2. 0 \in 0 .. Tiles(program, text) /\ IsText(text) /\ tile[t] = 0 /\ pc \in [Lanes -> PcValues]
  BY <1>1, PlaceFacts DEF Place, AtPlace
<1>3. x \in {"classify", "publish", "exit"}
  BY <1>2, LoopHeadFacts
<1> HIDE DEF x
<1>4. \A u \in Lanes : pc'[u] = IF u = t THEN x ELSE pc[u]
  BY <1>1, <1>2
<1>5. SlashesShared'
  BY <1>1, <1>3, <1>4 DEF Carried, SlashesShared, Scanning, Slash, Word
<1>6. EscapeCarried' /\ ParityCarried'
  <2>1. 0 \in Lanes /\ LastLane \in Lanes
    BY LaneFacts
  <2>2. EscapeEnters(text, 0) = 0 /\ ParityEnters(text, 0) = 0
    BY <1>2, EscapeEntersTile, ParityStart
  <2>3. Round(0)' = Round(0) /\ (t = 0 => Round(0)' = 0)
    BY <1>1, <1>2, <1>3, <1>4, <2>1 DEF Round
  <2> QED BY <1>1, <1>3, <1>4, <2>1, <2>2, <2>3 DEF Carried, EscapeCarried, ParityCarried
<1>7. (\A u \in Lanes : Registers(u))' /\ TotalsShared'
  BY <1>1, <1>3, <1>4, RegistersKept DEF LookedBack
<1> QED BY <1>5, <1>6, <1>7 DEF Carried

LEMMA ClassifyCarried ==
  ASSUME Place, Carried, NEW t \in Lanes, Classify(t)
  PROVE  Carried'
<1>1. /\ pc[t] = "classify"
      /\ shared_slashes' = [shared_slashes EXCEPT ![t] = Slash(t)]
      /\ UNCHANGED <<program, text, tile, shared_warp_quote_parity, local,
                     previous_tile_escape, previous_tile_quote_parity>>
  BY DEF Classify
<1>2. shared_slashes \in [Lanes -> SUBSET Bits]
  BY DEF Place, TypeOK
<1>3. \A u \in Lanes : pc'[u] = IF u = t THEN "published" ELSE pc[u]
  BY PlaceFacts DEF Classify
<1>4. SlashesShared'
  <2>1. \A u \in Lanes : Slash(u)' = Slash(u)
                         /\ shared_slashes'[u] = IF u = t THEN Slash(t) ELSE shared_slashes[u]
    BY <1>1, <1>2 DEF Slash, Word
  <2> QED BY <1>3, <2>1 DEF Carried, SlashesShared, Scanning
<1>5. EscapeCarried' /\ ParityCarried'
  <2>1. 0 \in Lanes /\ LastLane \in Lanes
    BY LaneFacts
  <2>2. Round(0)' = Round(0)
    BY <1>1, <1>3, <2>1 DEF Round
  <2> QED BY <1>1, <1>3, <2>1, <2>2 DEF Carried, EscapeCarried, ParityCarried
<1>6. (\A u \in Lanes : Registers(u))' /\ TotalsShared'
  BY <1>1, <1>3, RegistersKept DEF LookedBack
<1> QED BY <1>4, <1>5, <1>6 DEF Carried

LEMMA PublishCarried ==
  ASSUME Place, Carried, NEW t \in Lanes, PublishError(t)
  PROVE  Carried'
<1>1. /\ pc[t] = "publish"
      /\ UNCHANGED <<program, text, tile, shared_slashes, shared_warp_quote_parity, local,
                     previous_tile_escape, previous_tile_quote_parity>>
  BY DEF PublishError, shared
<1>2. \A u \in Lanes : pc'[u] = IF u = t THEN "exit" ELSE pc[u]
  BY PlaceFacts DEF PublishError
<1>3. SlashesShared'
  BY <1>1, <1>2 DEF Carried, SlashesShared, Scanning, Slash, Word
<1>4. EscapeCarried' /\ ParityCarried'
  <2>1. 0 \in Lanes /\ LastLane \in Lanes
    BY LaneFacts
  <2>2. Round(0)' = Round(0)
    BY <1>1, <1>2, <2>1 DEF Round
  <2> QED BY <1>1, <1>2, <2>1, <2>2 DEF Carried, EscapeCarried, ParityCarried
<1>5. (\A u \in Lanes : Registers(u))' /\ TotalsShared'
  BY <1>1, <1>2, RegistersKept DEF LookedBack
<1> QED BY <1>3, <1>4, <1>5 DEF Carried

\* While one lane scans, all are in its tile, and nothing has been carried on yet.
LEMMA ScanningFacts ==
  ASSUME Place, Carried, NEW t \in Lanes, pc[t] \in Scanning
  PROVE  /\ \A u \in Lanes : pc[u] \in Scanning /\ tile[u] = tile[t]
         /\ previous_tile_escape = EscapeEnters(text, tile[t])
         /\ previous_tile_quote_parity = ParityEnters(text, tile[t])
         /\ \A u \in Lanes : shared_slashes[u] = SlashWord(text, WordAt(tile[t], u))
<1>1. \A u \in Lanes : pc[u] \in Scanning /\ Round(u) = Round(t)
  BY DEF Place, SameRound
<1>2. \A u \in Lanes : Round(u) = tile[u] /\ tile[u] = tile[t] /\ pc[u] \notin {"start", "emit"}
  BY <1>1 DEF Round, Scanning
<1>3. 0 \in Lanes /\ LastLane \in Lanes
  BY LaneFacts
<1>4. /\ previous_tile_escape = EscapeEnters(text, tile[t])
      /\ previous_tile_quote_parity = ParityEnters(text, tile[t])
  BY <1>1, <1>2, <1>3 DEF Carried, EscapeCarried, ParityCarried
<1>5. \A u \in Lanes : shared_slashes[u] = SlashWord(text, WordAt(tile[t], u))
  BY <1>1, <1>2 DEF Carried, SlashesShared, Slash, Word
<1> QED BY <1>1, <1>2, <1>4, <1>5

LEMMA ResolveCarried ==
  ASSUME Place, Carried, NEW t \in Lanes, Resolve(t)
  PROVE  Carried'
<1> DEFINE incoming == IncomingEscape(program, t, Quote(t), Slash(t), shared_slashes, previous_tile_escape)
           k == tile[t]
<1>1. /\ pc[t] = "resolve"
      /\ UNCHANGED <<program, text, tile, shared_slashes, shared_warp_quote_parity,
                     previous_tile_escape, previous_tile_quote_parity>>
  BY DEF Resolve
<1>2. /\ IsText(text) /\ k \in Nat /\ Word(t) \in Nat /\ Word(t) = WordAt(k, t)
      /\ program \in Programs
  BY PlaceFacts DEF Word, Place
<1>3. /\ \A u \in Lanes : pc[u] \in Scanning /\ tile[u] = k
      /\ previous_tile_escape = EscapeEnters(text, k)
      /\ previous_tile_quote_parity = ParityEnters(text, k)
      /\ \A u \in Lanes : shared_slashes[u] = SlashWord(text, WordAt(k, u))
  BY <1>1, ScanningFacts DEF Scanning
<1>4. LooksBack(program, t, QuoteWord(text, Word(t)), SlashWord(text, Word(t)))
        => incoming = EscapeAt(text, Word(t))
  <2>1. \A j \in 0 .. t - 1 : shared_slashes[j] = SlashWord(text, WordAt(k, j))
    BY <1>3, LaneFacts DEF Lanes
  <2>2. TileEscape(t, shared_slashes, EscapeEnters(text, k)) = EscapeAt(text, WordAt(k, t))
    BY <1>2, <2>1, TileEscapeFinds
  <2> QED BY <1>2, <1>3, <2>2 DEF IncomingEscape, Quote, Slash
<1>5. SelectedQuotes(program, Quote(t), Slash(t), incoming) = RealQuoteWord(text, Word(t))
  <2> HIDE DEF incoming
  <2> QED BY <1>2, <1>4, SelectedAreReal DEF Quote, Slash
<1>6. t = LastLane => OutgoingEscape(Slash(t), incoming) = EscapeEnters(text, k + 1)
  <2> HIDE DEF incoming
  <2> QED BY <1>2, <1>4, LastLaneHandsOn DEF Slash
<1>7. \A u \in Lanes : pc'[u] = IF u = t THEN "warp_scan" ELSE pc[u]
  BY PlaceFacts DEF Resolve
<1>8. ASSUME NEW u \in Lanes PROVE Registers(u)'
  <2>0. local \in [Lanes -> Snapshots]
    BY DEF Place, TypeOK
  <2>1. CASE u = t
    <3>1. /\ local'[t].old_parity = previous_tile_quote_parity
          /\ local'[t].quotes = SelectedQuotes(program, Quote(t), Slash(t), incoming)
          /\ local'[t].outgoing = OutgoingEscape(Slash(t), incoming)
      <4> HIDE DEF incoming
      <4> QED BY <2>0 DEF Resolve, Snapshots, incoming
    <3>2. pc'[t] = "warp_scan" /\ Word(t)' = Word(t)
      BY <1>1, <1>7 DEF Word
    <3> HIDE DEF incoming
    <3> QED BY <1>1, <1>3, <1>5, <1>6, <2>1, <3>1, <3>2 DEF Registers, Scanned
  <2>2. CASE u # t
    <3>1. local'[u] = local[u] /\ pc'[u] = pc[u] /\ Word(u)' = Word(u)
      BY <1>1, <1>7, <2>0, <2>2 DEF Resolve, Word
    <3> QED BY <1>1, <3>1 DEF Carried, Registers
  <2> QED BY <2>1, <2>2
<1>9. SlashesShared'
  BY <1>1, <1>3, <1>7 DEF SlashesShared, Slash, Word
<1>10. EscapeCarried' /\ ParityCarried'
  <2>1. 0 \in Lanes
    BY LaneFacts
  <2>2. Round(0)' = k
    BY <1>1, <1>3, <1>7, <2>1 DEF Round, Scanning
  <2> QED BY <1>1, <1>3, <2>2 DEF EscapeCarried, ParityCarried
<1>11. TotalsShared'
  <2>1. \A u \in Lanes : pc'[u] = "scanned" => pc[u] = "scanned"
    BY <1>7
  <2>2. \A u \in Lanes : pc'[u] \notin {"totals", "totaled", "emit"}
    BY <1>3, <1>7 DEF Scanning
  <2> QED BY <1>1, <2>1, <2>2, LaneFacts DEF Carried, TotalsShared
<1> QED BY <1>8, <1>9, <1>10, <1>11 DEF Carried

LEMMA WarpScanCarried ==
  ASSUME Place, Carried, NEW n \in Warps, WarpScan(n)
  PROVE  Carried'
<1> DEFINE parity == [t \in Lanes |-> Parity(local[t].quotes)]
           first  == n * WarpSize
           k      == tile[first]
           A      == TileParity(text, k)
<1>1. /\ \A t \in Lanes : WarpOf(t) = n => pc[t] = "warp_scan"
      /\ \A t \in Lanes : pc'[t] = IF WarpOf(t) = n THEN "scanned" ELSE pc[t]
      /\ UNCHANGED <<program, text, tile, shared_slashes,
                     previous_tile_escape, previous_tile_quote_parity>>
  BY DEF WarpScan, WarpLanes
<1>2. /\ first \in Lanes /\ WarpOf(first) = n /\ first \in Nat
      /\ \A t \in first .. first + WarpSize - 1 : t \in Lanes /\ WarpOf(t) = n
      /\ \A t \in Lanes : WarpOf(t) = n => t \in first .. first + WarpSize - 1
  <2>1. first \in Nat /\ WarpSize \in Nat \ {0} /\ \A t \in Lanes : t \in Nat
    BY WarpFacts, LaneFacts
  <2>2. first \in first .. first + WarpSize - 1
    BY <2>1
  <2> QED BY <2>1, <2>2, WarpFacts
<1>3. /\ \A u \in Lanes : pc[u] \in Scanning /\ tile[u] = k
      /\ previous_tile_escape = EscapeEnters(text, k)
      /\ previous_tile_quote_parity = ParityEnters(text, k)
      /\ \A u \in Lanes : shared_slashes[u] = SlashWord(text, WordAt(k, u))
  BY <1>1, <1>2, ScanningFacts DEF Scanning
<1>4. \A u \in first .. first + WarpSize - 1 : parity[u] = A[u]
  <2> SUFFICES ASSUME NEW u \in first .. first + WarpSize - 1 PROVE parity[u] = A[u]
    OBVIOUS
  <2>1. u \in Lanes /\ pc[u] = "warp_scan" /\ tile[u] = k
    BY <1>1, <1>2, <1>3
  <2>2. local[u].quotes = RealQuoteWord(text, WordAt(k, u))
    BY <2>1 DEF Carried, Registers, LookedBack, Word
  <2> QED BY <2>1, <2>2 DEF TileParity
<1> HIDE DEF k
<1>5. \A u \in first - 1 .. first + WarpSize - 1 : XorOf(parity, first, u) = XorOf(A, first, u)
  <2> SUFFICES ASSUME NEW u \in first - 1 .. first + WarpSize - 1
               PROVE  XorOf(parity, first, u) = XorOf(A, first, u)
    OBVIOUS
  <2>2. first \in Int /\ u \in Int
    BY <1>2, LaneFacts
  <2> HIDE DEF parity, first, A
  <2>1. \A j \in first .. u : parity[j] = A[j]
    BY <1>2, <1>4, <2>2, LaneFacts
  <2> QED BY <2>1, <2>2, OddCountCongruent, XorOfIsOddCount
<1>6. /\ local' = [t \in Lanes |->
               IF WarpOf(t) = n
               THEN [local[t] EXCEPT !.inclusive = XorOf(parity, first, t)]
               ELSE local[t]]
      /\ shared_warp_quote_parity' =
           [shared_warp_quote_parity EXCEPT ![n] = XorOf(parity, first, first + WarpSize - 1)]
  BY DEF WarpScan
<1>7. /\ local \in [Lanes -> Snapshots] /\ shared_warp_quote_parity \in [Warps -> {0, 1}]
      /\ \A t \in Lanes : WarpOf(t) \in Warps
  BY WarpFacts DEF Place, TypeOK
<1> HIDE DEF parity, A
<1>8. \A u \in Lanes : WarpOf(u) = n =>
        /\ local'[u].quotes = local[u].quotes /\ local'[u].old_parity = local[u].old_parity
        /\ local'[u].outgoing = local[u].outgoing
        /\ local'[u].inclusive = XorOf(A, first, u)
  <2> SUFFICES ASSUME NEW u \in Lanes, WarpOf(u) = n
               PROVE  /\ local'[u].quotes = local[u].quotes /\ local'[u].old_parity = local[u].old_parity
                      /\ local'[u].outgoing = local[u].outgoing
                      /\ local'[u].inclusive = XorOf(A, first, u)
    OBVIOUS
  <2>1. u \in first - 1 .. first + WarpSize - 1
    BY <1>2, LaneFacts
  <2>2. XorOf(parity, first, u) = XorOf(A, first, u)
    BY <1>5, <2>1
  <2> QED BY <1>6, <1>7, <2>2 DEF Snapshots
<1>9. ASSUME NEW u \in Lanes PROVE Registers(u)'
  <2>1. CASE WarpOf(u) = n
    <3>1. /\ pc[u] = "warp_scan" /\ pc'[u] = "scanned" /\ tile[u] = k /\ Word(u)' = Word(u)
          /\ tile'[u] = tile[u]
      BY <1>1, <1>3, <2>1 DEF Word
    <3>2. /\ local[u].quotes = RealQuoteWord(text, Word(u))
          /\ local[u].old_parity = ParityEnters(text, tile[u])
          /\ u = LastLane => local[u].outgoing = EscapeEnters(text, tile[u] + 1)
      BY <3>1 DEF Carried, Registers, LookedBack
    <3>3. local'[u].inclusive = XorOf(TileParity(text, tile[u]), WarpOf(u) * WarpSize, u)
      BY <1>8, <2>1, <3>1 DEF A, first
    <3> QED BY <1>1, <1>8, <2>1, <3>1, <3>2, <3>3 DEF Registers
  <2>2. CASE WarpOf(u) # n
    <3>1. local'[u] = local[u] /\ pc'[u] = pc[u] /\ Word(u)' = Word(u)
      BY <1>1, <1>6, <2>2 DEF Word
    <3> QED BY <1>1, <3>1 DEF Carried, Registers
  <2> QED BY <2>1, <2>2
<1>10. SlashesShared'
  BY <1>1, <1>3 DEF SlashesShared, Slash, Word
<1>11. EscapeCarried' /\ ParityCarried'
  <2>1. 0 \in Lanes
    BY LaneFacts
  <2>2. Round(0)' = k
    BY <1>1, <1>3, <2>1 DEF Round, Scanning
  <2> QED BY <1>1, <1>3, <2>2 DEF EscapeCarried, ParityCarried
<1>12. TotalsShared'
  <2>1. \A u \in Lanes : pc'[u] \notin {"totals", "totaled", "emit"}
    BY <1>1, <1>3 DEF Scanning
  <2>2. ASSUME NEW u \in Lanes, pc'[u] = "scanned"
        PROVE  shared_warp_quote_parity'[WarpOf(u)] = WarpTotal(text, tile[u], WarpOf(u))
    <3>1. CASE WarpOf(u) = n
      <4>1. first + WarpSize - 1 \in first - 1 .. first + WarpSize - 1
        BY <1>2, LaneFacts
      <4>2. shared_warp_quote_parity'[n] = XorOf(A, first, first + WarpSize - 1)
        BY <1>5, <1>6, <1>7, <4>1
      <4> QED BY <1>3, <3>1, <4>2 DEF WarpTotal, A, first
    <3>2. CASE WarpOf(u) # n
      <4>1. pc[u] = "scanned"
        BY <1>1, <2>2, <3>2
      <4> QED BY <1>6, <1>7, <3>2, <4>1 DEF Carried, TotalsShared
    <3> QED BY <3>1, <3>2
  <2> QED BY <1>1, <2>1, <2>2, LaneFacts DEF TotalsShared
<1> QED BY <1>9, <1>10, <1>11, <1>12 DEF Carried

LEMMA TotalingFacts ==
  ASSUME Place, NEW t \in Lanes, pc[t] \in Totaling
  PROVE  \A u \in Lanes : pc[u] \in Totaling /\ tile[u] = tile[t]
<1>1. \A u \in Lanes : pc[u] \in Totaling /\ Round(u) = Round(t)
  BY DEF Place, SameRound
<1> QED BY <1>1 DEF Round, Totaling

LEMMA ScanTotalsCarried ==
  ASSUME Place, Carried, ScanTotals
  PROVE  Carried'
<1>1. /\ \A t \in Lanes : WarpOf(t) = 0 => pc[t] = "totals"
      /\ \A t \in Lanes : pc'[t] = IF WarpOf(t) = 0 THEN "totaled" ELSE pc[t]
      /\ UNCHANGED <<program, text, tile, shared_slashes, local,
                     previous_tile_escape, previous_tile_quote_parity>>
      /\ shared_warp_quote_parity' = [n \in Warps |-> XorOf(shared_warp_quote_parity, 0, n)]
  BY DEF ScanTotals, WarpLanes
<1>2. 0 \in Lanes /\ LastLane \in Lanes /\ pc[0] = "totals" /\ WarpOf(0) = 0
  BY <1>1, LaneFacts, WarpFacts
<1>3. \A u \in Lanes : pc[u] \in Totaling /\ pc'[u] \in Totaling /\ tile[u] = tile[0]
  BY <1>1, <1>2, TotalingFacts DEF Totaling
<1>4. SlashesShared'
  BY <1>3 DEF SlashesShared, Scanning, Totaling
<1>5. EscapeCarried' /\ ParityCarried'
  <2>1. Round(0)' = Round(0)
    BY <1>1, <1>2, <1>3 DEF Round, Totaling
  <2> QED BY <1>1, <1>2, <1>3, <2>1 DEF Carried, EscapeCarried, ParityCarried, Totaling
<1>6. ASSUME NEW u \in Lanes PROVE Registers(u)'
  BY <1>1, <1>3, <1>6 DEF Carried, Registers, Totaling, LookedBack, Scanned, Word
<1>7. TotalsShared'
  <2>1. \A n \in Warps : shared_warp_quote_parity[n] = WarpTotal(text, tile[0], n)
    BY <1>2 DEF Carried, TotalsShared
  <2>2. \A n \in Warps : shared_warp_quote_parity'[n] = TileTotal(text, tile[0], n)
    BY <1>1, <2>1, TotalsOfWarps
  <2>3. pc'[0] = "totaled" /\ \A u \in Lanes : pc'[u] \notin {"scanned", "emit"}
    BY <1>1, <1>2, <1>3 DEF Totaling
  <2> QED BY <1>1, <2>2, <2>3 DEF TotalsShared
<1> QED BY <1>4, <1>5, <1>6, <1>7 DEF Carried

LEMMA BarrierCarried ==
  ASSUME Place, Carried, NEW barrier \in Barriers, Barrier(barrier)
  PROVE  Carried'
<1>1. /\ \A t \in Lanes : pc[t] = barrier /\ pc'[t] = AfterBarrier(barrier, t)
      /\ UNCHANGED <<program, text, tile, shared_slashes, shared_warp_quote_parity, local,
                     previous_tile_escape, previous_tile_quote_parity>>
      /\ \A t, u \in Lanes : tile[t] = tile[u]
  BY BarrierFacts DEF shared
<1>2. 0 \in Lanes /\ LastLane \in Lanes /\ WarpOf(0) = 0
  BY LaneFacts, WarpFacts
<1>3. CASE barrier = "published"
  <2>1. \A t \in Lanes : pc'[t] = "resolve"
    BY <1>1, <1>3 DEF AfterBarrier
  <2>2. SlashesShared'
    BY <1>1, <1>3 DEF Carried, SlashesShared, Slash, Word
  <2>3. EscapeCarried' /\ ParityCarried'
    BY <1>1, <1>2, <1>3, <2>1 DEF Carried, EscapeCarried, ParityCarried, Round
  <2>4. (\A u \in Lanes : Registers(u))' /\ TotalsShared'
    BY <1>1, <2>1, RegistersKept DEF LookedBack
  <2> QED BY <2>2, <2>3, <2>4 DEF Carried
<1>4. CASE barrier = "scanned"
  <2>1. \A t \in Lanes : pc'[t] = IF WarpOf(t) = 0 THEN "totals" ELSE "totaled"
    BY <1>1, <1>4 DEF AfterBarrier
  <2>2. SlashesShared'
    BY <2>1 DEF SlashesShared, Scanning
  <2>3. EscapeCarried' /\ ParityCarried'
    BY <1>1, <1>2, <1>4, <2>1 DEF Carried, EscapeCarried, ParityCarried, Round
  <2>4. ASSUME NEW u \in Lanes PROVE Registers(u)'
    <3>1. pc[u] \in LookedBack /\ pc[u] \in Scanned /\ pc'[u] \in LookedBack /\ pc'[u] \in Scanned
      BY <1>1, <1>4, <2>1 DEF LookedBack, Scanned
    <3> QED BY <1>1, <3>1 DEF Carried, Registers, Word
  <2>5. TotalsShared'
    <3>1. ASSUME NEW n \in Warps
          PROVE  shared_warp_quote_parity[n] = WarpTotal(text, tile[0], n)
      <4>1. n * WarpSize \in n * WarpSize .. n * WarpSize + WarpSize - 1
        <5>1. n * WarpSize \in Nat
          BY WarpFacts
        <5> QED BY <5>1, LaneFacts
      <4>2. PICK u \in Lanes : WarpOf(u) = n
        BY <4>1, WarpFacts
      <4> QED BY <1>1, <1>2, <1>4, <4>2 DEF Carried, TotalsShared
    <3> QED BY <1>1, <1>2, <2>1, <3>1 DEF TotalsShared
  <2> QED BY <2>2, <2>3, <2>4, <2>5 DEF Carried
<1>5. CASE barrier = "totaled"
  <2>1. \A t \in Lanes : pc'[t] = "emit"
    BY <1>1, <1>5 DEF AfterBarrier
  <2>2. SlashesShared' /\ EscapeCarried' /\ ParityCarried'
    BY <1>2, <2>1 DEF SlashesShared, EscapeCarried, ParityCarried, Scanning
  <2>3. ASSUME NEW u \in Lanes PROVE Registers(u)'
    <3>1. pc[u] \in LookedBack /\ pc[u] \in Scanned /\ pc'[u] \in LookedBack /\ pc'[u] \in Scanned
      BY <1>1, <1>5, <2>1 DEF LookedBack, Scanned
    <3> QED BY <1>1, <3>1 DEF Carried, Registers, Word
  <2>4. TotalsShared'
    BY <1>1, <1>2, <1>5, <2>1 DEF Carried, TotalsShared
  <2> QED BY <2>2, <2>3, <2>4 DEF Carried
<1> QED BY <1>3, <1>4, <1>5 DEF Barriers

LEMMA EmitCarried ==
  ASSUME Place, Carried, NEW t \in Lanes, Emit(t)
  PROVE  Carried'
<1> DEFINE x == LoopHead(t, tile[t] + 1)
<1>1. /\ pc[t] = "emit"
      /\ UNCHANGED <<program, text, shared_slashes, shared_warp_quote_parity, local>>
      /\ previous_tile_escape' = (IF t \in CarriesEscape THEN local[t].outgoing ELSE previous_tile_escape)
      /\ previous_tile_quote_parity' =
           (IF t = 0 THEN Xor(local[t].old_parity, shared_warp_quote_parity[LastWarp])
            ELSE previous_tile_quote_parity)
  BY DEF Emit
<1>2. /\ pc \in [Lanes -> PcValues] /\ IsText(text) /\ Tiles(program, text) \in Nat
      /\ tile \in [Lanes -> 0 .. Tiles(program, text)] /\ tile[t] \in Nat
      /\ tile[t] + 1 \in 0 .. Tiles(program, text)
  BY <1>1, PlaceFacts DEF Place, TypeOK, AtPlace, Looping
<1>3. x \in {"classify", "publish", "exit"}
  BY <1>2, LoopHeadFacts
<1>4. \A u \in Lanes : /\ pc'[u] = IF u = t THEN x ELSE pc[u]
                       /\ tile'[u] = IF u = t THEN tile[t] + 1 ELSE tile[u]
  BY <1>2 DEF Emit
<1> HIDE DEF x
<1>5. 0 \in Lanes /\ LastLane \in Lanes
  BY LaneFacts
<1>6. \A u \in Lanes : Round(u)' = Round(u) /\ Round(u) = tile[t] + 1
  <2>1. \A u \in Lanes : Round(u)' = Round(u)
    BY <1>1, <1>3, <1>4 DEF Round
  <2>2. \A u \in Lanes : Round(u) = Round(t)
    BY DEF Place, SameRound
  <2> QED BY <1>1, <2>1, <2>2 DEF Round
<1>7. SlashesShared'
  BY <1>1, <1>3, <1>4 DEF Carried, SlashesShared, Scanning, Slash, Word
<1>8. EscapeCarried'
  <2>1. CASE t = LastLane
    <3>1. previous_tile_escape' = EscapeEnters(text, tile[t] + 1)
      BY <1>1, <2>1 DEF CarriesEscape, Carried, Registers, LookedBack
    <3> QED BY <1>1, <1>5, <1>6, <3>1 DEF EscapeCarried
  <2>2. CASE t # LastLane
    <3>1. previous_tile_escape' = previous_tile_escape /\ pc'[LastLane] = pc[LastLane]
      BY <1>1, <1>4, <1>5, <2>2 DEF CarriesEscape
    <3>2. pc'[0] # "start" => pc[0] # "start"
      BY <1>1, <1>4, <1>5
    <3> QED BY <1>1, <1>5, <1>6, <3>1, <3>2 DEF Carried, EscapeCarried
  <2> QED BY <2>1, <2>2
<1>9. ParityCarried'
  <2>1. CASE t = 0
    <3>1. /\ local[t].old_parity = ParityEnters(text, tile[t])
          /\ shared_warp_quote_parity[LastWarp] = TileTotal(text, tile[t], LastWarp)
      BY <1>1, WarpFacts DEF Carried, Registers, TotalsShared, LookedBack
    <3>2. previous_tile_quote_parity' = ParityEnters(text, tile[t] + 1)
      BY <1>1, <1>2, <2>1, <3>1, TotalLeaves
    <3> QED BY <1>1, <1>5, <1>6, <3>2 DEF ParityCarried
  <2>2. CASE t # 0
    <3>1. previous_tile_quote_parity' = previous_tile_quote_parity /\ pc'[0] = pc[0]
      BY <1>1, <1>4, <1>5, <2>2
    <3> QED BY <1>1, <1>5, <1>6, <3>1 DEF Carried, ParityCarried
  <2> QED BY <2>1, <2>2
<1>10. (\A u \in Lanes : Registers(u))' /\ TotalsShared'
  BY <1>1, <1>3, <1>4, RegistersKept DEF LookedBack
<1> QED BY <1>7, <1>8, <1>9, <1>10 DEF Carried

-----------------------------------------------------------------------------
(***************************************************************************)
(* What is written, step by step.                                          *)
(***************************************************************************)
LEMMA WordsKept ==
  ASSUME EmittedWordsCorrect, UNCHANGED <<program, text, tile, structural, open_close>>
  PROVE  EmittedWordsCorrect'
BY DEF EmittedWordsCorrect

LEMMA ErrorsKept ==
  ASSUME ErrorsAdded, UNCHANGED <<program, text, input_utf_error>>,
         pc'[0] # "start" => pc[0] # "start",
         \A u \in Lanes : Resolved(u)' = Resolved(u)
  PROVE  ErrorsAdded'
<1>1. ASSUME pc'[0] # "start" PROVE
        input_utf_error' <=>
          \E u \in Lanes : \E k \in 0 .. Resolved(u)' - 1 : Flagged(program', text', WordAt(k, u))
  <2>1. input_utf_error <=>
          \E u \in Lanes : \E k \in 0 .. Resolved(u) - 1 : Flagged(program, text, WordAt(k, u))
    BY <1>1 DEF ErrorsAdded
  <2> QED BY <2>1
<1> QED BY <1>1 DEF ErrorsAdded

LEMMA StoredKept ==
  ASSUME StoredErrorComplete, UNCHANGED <<program, text, utf_error>>,
         program = "cujson" /\ pc'[0] = "exit" => pc[0] = "exit"
  PROVE  StoredErrorComplete'
BY DEF StoredErrorComplete

LEMMA StartProduced ==
  ASSUME FusedInv, NEW t \in Lanes, Start(t)
  PROVE  Produced'
<1> USE DEF FusedInv, Produced
<1> DEFINE x == LoopHead(t, 0)
<1>1. /\ pc[t] = "start" /\ UNCHANGED <<program, text, tile, structural, open_close, utf_error>>
      /\ t = 0 => input_utf_error' = FALSE
      /\ t # 0 => UNCHANGED input_utf_error
  BY DEF Start, output
<1>2. 0 \in 0 .. Tiles(program, text) /\ 0 \in Lanes
  BY PlaceFacts, LaneFacts
<1>3. /\ x \in {"classify", "publish", "exit"}
      /\ x = "exit" => ~(t = 0 /\ program = "cujson")
  BY <1>2, LoopHeadFacts
<1>4. \A u \in Lanes : pc'[u] = IF u = t THEN x ELSE pc[u]
  BY PlaceFacts DEF Start
<1> HIDE DEF x
<1>5. EmittedWordsCorrect' /\ StoredErrorComplete'
  BY <1>1, <1>2, <1>3, <1>4, WordsKept, StoredKept
<1>6. \A u \in Lanes : Resolved(u)' = Resolved(u)
  BY <1>1, <1>3, <1>4 DEF Resolved, LookedBack
<1>7. ErrorsAdded'
  <2>1. CASE t = 0
    <3>1. ASSUME NEW u \in Lanes PROVE Resolved(u) = 0
      <4>1. Round(u) = Round(0) /\ Round(0) = 0
        BY <1>1, <1>2, <2>1 DEF Place, SameRound, AtPlace, Round
      <4>2. pc[u] \notin Scanning /\ pc[u] \notin Totaling
        BY <1>1, <1>2, <2>1 DEF Place, SameRound, Scanning, Totaling
      <4>3. pc[u] # "emit"
        BY <4>1, PlaceFacts DEF Round
      <4> QED BY <4>1, <4>2, <4>3 DEF Resolved, LookedBack, Scanning, Totaling, Round
    <3>2. ~ \E u \in Lanes : \E k \in 0 .. Resolved(u)' - 1 : Flagged(program, text, WordAt(k, u))'
      BY <1>6, <3>1
    <3> QED BY <1>1, <2>1, <3>2 DEF ErrorsAdded
  <2>2. CASE t # 0
    BY <1>1, <1>2, <1>4, <1>6, <2>2, ErrorsKept
  <2> QED BY <2>1, <2>2
<1> QED BY <1>5, <1>7

LEMMA ClassifyProduced ==
  ASSUME FusedInv, NEW t \in Lanes, Classify(t)
  PROVE  Produced'
<1> USE DEF FusedInv, Produced
<1>1. /\ pc[t] = "classify"
      /\ UNCHANGED <<program, text, tile, structural, open_close, utf_error, input_utf_error>>
  BY DEF Classify, output
<1>2. \A u \in Lanes : pc'[u] = IF u = t THEN "published" ELSE pc[u]
  BY PlaceFacts DEF Classify
<1>3. \A u \in Lanes : Resolved(u)' = Resolved(u)
  BY <1>1, <1>2 DEF Resolved, LookedBack
<1> QED BY <1>1, <1>2, <1>3, LaneFacts, WordsKept, StoredKept, ErrorsKept

LEMMA ResolveProduced ==
  ASSUME FusedInv, NEW t \in Lanes, Resolve(t)
  PROVE  Produced'
<1> USE DEF FusedInv, Produced
<1>1. /\ pc[t] = "resolve"
      /\ UNCHANGED <<program, text, tile, structural, open_close, utf_error>>
      /\ input_utf_error' = (input_utf_error \/ Flagged(program, text, Word(t)))
  BY DEF Resolve, output
<1>2. \A u \in Lanes : pc'[u] = IF u = t THEN "warp_scan" ELSE pc[u]
  BY PlaceFacts DEF Resolve
<1>3. 0 \in Lanes /\ pc[0] # "start" /\ tile[t] \in Nat
  BY <1>1, LaneFacts, ScanningFacts, PlaceFacts DEF Scanning
<1>4. \A u \in Lanes : Resolved(u)' = IF u = t THEN Resolved(t) + 1 ELSE Resolved(u)
  BY <1>1, <1>2 DEF Resolved, LookedBack
<1>5. Resolved(t) = tile[t]
  BY <1>1 DEF Resolved, LookedBack
<1>6. input_utf_error' <=>
        \E u \in Lanes : \E k \in 0 .. Resolved(u)' - 1 : Flagged(program', text', WordAt(k, u))
  <2>1. input_utf_error <=>
          \E u \in Lanes : \E k \in 0 .. Resolved(u) - 1 : Flagged(program, text, WordAt(k, u))
    BY <1>3 DEF ErrorsAdded
  <2>2. input_utf_error' => \E u \in Lanes : \E k \in 0 .. Resolved(u)' - 1 : Flagged(program', text', WordAt(k, u))
    <3>1. CASE input_utf_error
      <4>0. PICK u \in Lanes : \E k \in 0 .. Resolved(u) - 1 : Flagged(program, text, WordAt(k, u))
        BY <2>1, <3>1
      <4>1. PICK k \in 0 .. Resolved(u) - 1 : Flagged(program, text, WordAt(k, u))
        BY <4>0
      <4>2. k \in 0 .. Resolved(u)' - 1
        BY <1>3, <1>4, <1>5, <4>1
      <4> QED BY <1>1, <4>1, <4>2
    <3>2. CASE Flagged(program, text, WordAt(tile[t], t))
      <4>1. tile[t] \in 0 .. Resolved(t)' - 1
        BY <1>3, <1>4, <1>5
      <4> QED BY <1>1, <3>2, <4>1
    <3> QED BY <1>1, <3>1, <3>2 DEF Word
  <2>3. ASSUME NEW u \in Lanes, NEW k \in 0 .. Resolved(u)' - 1, Flagged(program, text, WordAt(k, u))
        PROVE  input_utf_error \/ Flagged(program, text, Word(t))
    <3>1. k \in 0 .. Resolved(u) - 1 \/ (u = t /\ k = tile[t])
      BY <1>3, <1>4, <1>5
    <3> QED BY <2>1, <2>3, <3>1 DEF Word
  <2> QED BY <1>1, <2>2, <2>3
<1>7. ErrorsAdded'
  BY <1>6 DEF ErrorsAdded
<1> QED BY <1>1, <1>2, <1>3, <1>7, WordsKept, StoredKept

LEMMA TogetherProduced ==
  ASSUME FusedInv,
         \/ \E n \in Warps : WarpScan(n)
         \/ \E barrier \in Barriers : Barrier(barrier)
         \/ ScanTotals
  PROVE  Produced'
<1> USE DEF FusedInv, Produced
<1>1. 0 \in Lanes /\ \A u \in Lanes : pc[u] \in PcValues
  BY LaneFacts, PlaceFacts
<1>2. CASE \E n \in Warps : WarpScan(n)
  <2>1. /\ UNCHANGED <<program, text, tile, structural, open_close, utf_error, input_utf_error>>
        /\ \A u \in Lanes : pc'[u] = pc[u] \/ (pc[u] = "warp_scan" /\ pc'[u] = "scanned")
    BY <1>2 DEF WarpScan, WarpLanes, output
  <2>2. \A u \in Lanes : Resolved(u)' = Resolved(u)
    BY <2>1 DEF Resolved, LookedBack
  <2> QED BY <1>1, <2>1, <2>2, WordsKept, StoredKept, ErrorsKept
<1>3. CASE \E barrier \in Barriers : Barrier(barrier)
  <2>1. PICK barrier \in Barriers : Barrier(barrier)
    BY <1>3
  <2>2. /\ UNCHANGED <<program, text, tile, structural, open_close, utf_error, input_utf_error>>
        /\ \A u \in Lanes : pc[u] = barrier /\ pc'[u] = AfterBarrier(barrier, u)
    BY <2>1, BarrierFacts DEF output, shared
  <2>3. barrier \in {"published", "scanned", "totaled"}
    BY DEF Barriers
  <2>4. \A u \in Lanes : /\ barrier = "published" => pc'[u] = "resolve"
                         /\ barrier = "scanned" => pc'[u] \in Totaling
                         /\ barrier = "totaled" => pc'[u] = "emit"
    BY <2>2 DEF AfterBarrier, Totaling
  <2>5. \A u \in Lanes : Resolved(u)' = Resolved(u)
    BY <2>2, <2>3, <2>4 DEF Resolved, LookedBack, Totaling
  <2>6. pc[0] # "start" /\ pc'[0] # "exit"
    BY <1>1, <2>2, <2>3, <2>4 DEF Totaling
  <2> QED BY <1>1, <2>2, <2>5, <2>6, WordsKept, StoredKept, ErrorsKept
<1>4. CASE ScanTotals
  <2>1. /\ UNCHANGED <<program, text, tile, structural, open_close, utf_error, input_utf_error>>
        /\ \A u \in Lanes : pc'[u] = pc[u] \/ (pc[u] = "totals" /\ pc'[u] = "totaled")
    BY <1>4 DEF ScanTotals, WarpLanes, output
  <2>2. \A u \in Lanes : Resolved(u)' = Resolved(u)
    BY <2>1 DEF Resolved, LookedBack
  <2> QED BY <1>1, <2>1, <2>2, WordsKept, StoredKept, ErrorsKept
<1> QED BY <1>2, <1>3, <1>4

\* What a thread writes is the word of the specified bitmaps.
LEMMA EmitsSpecified ==
  ASSUME FusedInv, NEW t \in Lanes, pc[t] = "emit"
  PROVE  LET in_string == InStringBits(local[t].quotes, ParityBefore(t)) IN
           /\ OperatorWord(text, Word(t)) \ in_string = StructuralWord(text, Word(t))
           /\ OpenCloseWord(text, Word(t)) \ in_string = OpenCloseResult(text, Word(t))
<1> USE DEF FusedInv, Produced
<1> DEFINE k == tile[t]
           W == WarpOf(t)
           w == WordAt(k, t)
           own == Parity(RealQuoteWord(text, w))
           inclusive == XorOf(TileParity(text, k), W * WarpSize, t)
           before == IF W = 0 THEN 0 ELSE TileTotal(text, k, W - 1)
<1>1. IsText(text) /\ k \in Nat /\ w \in Nat /\ Word(t) = w
  BY PlaceFacts DEF Word
<1>2. /\ local[t].quotes = RealQuoteWord(text, w)
      /\ local[t].old_parity = ParityEnters(text, k)
      /\ local[t].inclusive = inclusive
      /\ \A n \in Warps : shared_warp_quote_parity[n] = TileTotal(text, k, n)
  BY <1>1 DEF Carried, Registers, LookedBack, Scanned, TotalsShared
<1>3. (IF W = 0 THEN 0 ELSE shared_warp_quote_parity[W - 1]) = before
  <2>1. W # 0 => W - 1 \in Warps
    <3>1. W \in Warps
      BY WarpFacts
    <3>2. Threads \div WarpSize \in Nat
      BY LaneFacts
    <3> QED BY <3>1, <3>2 DEF Warps
  <2> QED BY <1>2, <2>1
<1>4. ParityBefore(t) = Xor(ParityEnters(text, k), Xor(Xor(before, inclusive), own))
  BY <1>2, <1>3 DEF ParityBefore, InclusiveParity
<1>5. ParityBefore(t) = ParityBeforeWord(text, w)
  BY <1>1, <1>4, ScanOfTile
<1> HIDE DEF w
<1>6. InStringBits(local[t].quotes, ParityBefore(t)) = InStringWord(text, w)
  <2>1. (ParityBeforeWord(text, w) = 1) = IncomingString(text, w * WordBytes)
    BY DEF IncomingString, ParityBeforeWord
  <2> QED BY <1>1, <1>2, <1>5, <2>1, CandidateIsInStringWord DEF InStringBits
<1> QED BY <1>1, <1>6, MaskedIsSpecified

LEMMA EmitProduced ==
  ASSUME FusedInv, NEW t \in Lanes, Emit(t)
  PROVE  Produced'
<1> USE DEF FusedInv, Produced
<1> DEFINE x == LoopHead(t, tile[t] + 1)
           in_string == InStringBits(local[t].quotes, ParityBefore(t))
<1>1. /\ pc[t] = "emit" /\ UNCHANGED <<program, text, input_utf_error, utf_error>>
      /\ structural' = [structural EXCEPT ![Word(t)] = OperatorWord(text, Word(t)) \ in_string]
      /\ open_close' = IF program = "cujson"
                       THEN [open_close EXCEPT ![Word(t)] = OpenCloseWord(text, Word(t)) \ in_string]
                       ELSE open_close
  BY DEF Emit
<1>2. /\ tile \in [Lanes -> 0 .. Tiles(program, text)] /\ Tiles(program, text) \in Nat
      /\ tile[t] + 1 \in 0 .. Tiles(program, text) /\ IsText(text)
      /\ Word(t) \in PaddedWords(program, text)
      /\ \A u \in Lanes : tile[u] \in Nat
  BY <1>1, PlaceFacts DEF Place, TypeOK, AtPlace, Looping
<1>3. /\ x \in {"classify", "publish", "exit"}
      /\ x = "exit" => ~(t = 0 /\ program = "cujson")
  BY <1>2, LoopHeadFacts
<1>4. \A u \in Lanes : /\ pc'[u] = IF u = t THEN x ELSE pc[u]
                       /\ tile'[u] = IF u = t THEN tile[t] + 1 ELSE tile[u]
  BY <1>2, PlaceFacts DEF Emit
<1>5. 0 \in Lanes
  BY LaneFacts
<1>6. /\ OperatorWord(text, Word(t)) \ in_string = StructuralWord(text, Word(t))
      /\ OpenCloseWord(text, Word(t)) \ in_string = OpenCloseResult(text, Word(t))
  BY <1>1, EmitsSpecified
<1> HIDE DEF x, in_string
<1>7. ErrorsAdded' /\ StoredErrorComplete'
  <2>1. \A u \in Lanes : Resolved(u)' = Resolved(u)
    BY <1>1, <1>3, <1>4 DEF Resolved, LookedBack
  <2> QED BY <1>1, <1>3, <1>4, <1>5, <2>1, ErrorsKept, StoredKept
<1>8. ASSUME NEW u \in Lanes, NEW k \in 0 .. tile'[u] - 1
      PROVE  /\ structural'[WordAt(k, u)] = StructuralWord(text, WordAt(k, u))
             /\ program = "cujson" => open_close'[WordAt(k, u)] = OpenCloseResult(text, WordAt(k, u))
  <2>1. CASE u = t /\ k = tile[t]
    <3>1. WordAt(k, u) = Word(t)
      BY <2>1 DEF Word
    <3>2. /\ structural \in [PaddedWords(program, text) -> SUBSET Bits]
          /\ open_close \in [PaddedWords(program, text) -> SUBSET Bits]
      BY DEF Place, TypeOK
    <3> QED BY <1>1, <1>2, <1>6, <3>1, <3>2
  <2>2. CASE ~(u = t /\ k = tile[t])
    <3>1. k \in 0 .. tile[u] - 1 /\ k \in Nat
      BY <1>2, <1>4, <2>2
    <3>2. WordAt(k, u) # Word(t)
      BY <1>2, <2>2, <3>1, WordAtUnique DEF Word
    <3>3. /\ structural'[WordAt(k, u)] = structural[WordAt(k, u)]
          /\ open_close'[WordAt(k, u)] = open_close[WordAt(k, u)]
      BY <1>1, <3>2 DEF Place, TypeOK
    <3>4. /\ structural[WordAt(k, u)] = StructuralWord(text, WordAt(k, u))
          /\ program = "cujson" => open_close[WordAt(k, u)] = OpenCloseResult(text, WordAt(k, u))
      BY <3>1 DEF EmittedWordsCorrect, StructuralWord, OpenCloseResult, Structural, OpenClose
    <3> QED BY <3>3, <3>4
  <2> QED BY <2>1, <2>2
<1>9. EmittedWordsCorrect'
  BY <1>1, <1>8 DEF EmittedWordsCorrect, StructuralWord, OpenCloseResult, Structural, OpenClose
<1> QED BY <1>7, <1>9

\* Thread 0 needs no barrier: when it leaves the loop, all have added their errors.
LEMMA PublishProduced ==
  ASSUME FusedInv, NEW t \in Lanes, PublishError(t)
  PROVE  Produced'
<1> USE DEF FusedInv, Produced
<1> DEFINE K == Tiles(program, text)
<1>1. /\ pc[t] = "publish" /\ utf_error' = input_utf_error
      /\ UNCHANGED <<program, text, tile, structural, open_close, input_utf_error>>
  BY DEF PublishError, shared
<1>2. \A u \in Lanes : pc'[u] = IF u = t THEN "exit" ELSE pc[u]
  BY PlaceFacts DEF PublishError
<1>3. 0 \in Lanes /\ t = 0 /\ tile[0] = K /\ K \in Nat /\ IsText(text)
  BY <1>1, PlaceFacts, LaneFacts DEF Place, AtPlace
<1>4. ASSUME NEW u \in Lanes PROVE Resolved(u) = K
  <2>1. Round(u) = K
    BY <1>1, <1>3 DEF Place, SameRound, Round
  <2>2. pc[u] \notin Scanning /\ pc[u] \notin Totaling
    BY <1>1, <1>3 DEF Place, SameRound, Scanning, Totaling
  <2> QED BY <2>1, <2>2 DEF Resolved, LookedBack, Scanning, Totaling, Round
<1>5. input_utf_error <=> HasFlagged(program, text)
  <2>1. input_utf_error <=>
          \E u \in Lanes : \E k \in 0 .. K - 1 : Flagged(program, text, WordAt(k, u))
    BY <1>1, <1>3, <1>4 DEF ErrorsAdded
  <2> HIDE DEF K
  <2>2. (\E u \in Lanes : \E k \in 0 .. K - 1 : Flagged(program, text, WordAt(k, u)))
          <=> HasFlagged(program, text)
    BY <1>3, TilesFacts DEF HasFlagged, K
  <2> QED BY <2>1, <2>2
<1>6. StoredErrorComplete'
  BY <1>1, <1>5 DEF StoredErrorComplete
<1>7. \A u \in Lanes : Resolved(u)' = Resolved(u)
  BY <1>1, <1>2 DEF Resolved, LookedBack
<1> QED BY <1>1, <1>2, <1>3, <1>6, <1>7, WordsKept, ErrorsKept

-----------------------------------------------------------------------------
(***************************************************************************)
(* The theorems.                                                           *)
(***************************************************************************)
LEMMA InitFused ==
  ASSUME Init
  PROVE  FusedInv
<1>1. /\ program \in Programs /\ text \in Texts /\ IsText(text)
      /\ \A t \in Lanes : pc[t] = "start" /\ tile[t] = 0
      /\ pc = [t \in Lanes |-> "start"] /\ tile = [t \in Lanes |-> 0]
  BY TilesAssumption DEF Init
<1>2. 0 \in Lanes /\ Tiles(program, text) \in Nat
  BY <1>1, LaneFacts, TilesFacts
<1>3. TypeOK
  <2>1. PICK stale \in {0, 1} :
          /\ shared_slashes = [t \in Lanes |-> {b \in Bits : stale = 1}]
          /\ shared_warp_quote_parity = [n \in Warps |-> stale]
          /\ previous_tile_escape = stale /\ previous_tile_quote_parity = stale
          /\ input_utf_error = (stale = 1) /\ utf_error = (stale = 1)
          /\ structural = [w \in PaddedWords(program, text) |-> {b \in Bits : stale = 1}]
          /\ open_close = [w \in PaddedWords(program, text) |-> {b \in Bits : stale = 1}]
    BY DEF Init
  <2>2. {b \in Bits : stale = 1} \in SUBSET Bits
    OBVIOUS
  <2>3. /\ shared_slashes \in [Lanes -> SUBSET Bits]
        /\ structural \in [PaddedWords(program, text) -> SUBSET Bits]
        /\ open_close \in [PaddedWords(program, text) -> SUBSET Bits]
    BY <2>1, <2>2
  <2>4. local \in [Lanes -> Snapshots]
    BY DEF Init, Snapshots
  <2> QED BY <1>1, <1>2, <2>1, <2>3, <2>4 DEF TypeOK
<1>4. Place
  BY <1>1, <1>3 DEF Place, SameRound, AtPlace, Round, Scanning, Totaling, Looping
<1>5. Carried
  BY <1>1, <1>2 DEF Carried, SlashesShared, EscapeCarried, ParityCarried, Registers, TotalsShared,
                    Scanning, LookedBack, Scanned
<1>6. Produced
  BY <1>1, <1>2 DEF Produced, EmittedWordsCorrect, ErrorsAdded, StoredErrorComplete
<1> QED BY <1>4, <1>5, <1>6 DEF FusedInv

LEMMA NextFused ==
  ASSUME FusedInv, [Next]_vars
  PROVE  FusedInv'
<1>1. CASE \E t \in Lanes : Step(t)
  <2>1. PICK t \in Lanes : Step(t)
    BY <1>1
  <2>2. CASE Start(t)
    BY <2>2, StartPlace, StartCarried, StartProduced DEF FusedInv
  <2>3. CASE Classify(t)
    BY <2>3, ClassifyPlace, ClassifyCarried, ClassifyProduced DEF FusedInv
  <2>4. CASE Resolve(t)
    BY <2>4, ResolvePlace, ResolveCarried, ResolveProduced DEF FusedInv
  <2>5. CASE Emit(t)
    BY <2>5, EmitPlace, EmitCarried, EmitProduced DEF FusedInv
  <2>6. CASE PublishError(t)
    BY <2>6, PublishPlace, PublishCarried, PublishProduced DEF FusedInv
  <2> QED BY <2>1, <2>2, <2>3, <2>4, <2>5, <2>6 DEF Step
<1>2. CASE \E n \in Warps : WarpScan(n)
  BY <1>2, WarpScanPlace, WarpScanCarried, TogetherProduced DEF FusedInv
<1>3. CASE \E barrier \in Barriers : Barrier(barrier)
  BY <1>3, BarrierPlace, BarrierCarried, TogetherProduced DEF FusedInv
<1>4. CASE ScanTotals
  BY <1>4, ScanTotalsPlace, ScanTotalsCarried, TogetherProduced DEF FusedInv
<1>5. CASE UNCHANGED vars
  <2>1. UNCHANGED <<program, text, pc, tile, shared_slashes, shared_warp_quote_parity,
                    previous_tile_escape, previous_tile_quote_parity, input_utf_error, local,
                    structural, open_close, utf_error>>
    BY <1>5 DEF vars, shared, output
  <2>2. Place'
    BY <2>1 DEF FusedInv, Place, TypeOK, SameRound, AtPlace, Round
  <2>3. Carried'
    <3>1. (\A u \in Lanes : Registers(u))' /\ TotalsShared'
      BY <2>1, RegistersKept DEF FusedInv
    <3>2. SlashesShared' /\ EscapeCarried' /\ ParityCarried'
      BY <2>1 DEF FusedInv, Carried, SlashesShared, EscapeCarried, ParityCarried, Slash, Word, Round
    <3> QED BY <3>1, <3>2 DEF Carried
  <2>4. Produced'
    <3>1. \A u \in Lanes : Resolved(u)' = Resolved(u)
      BY <2>1 DEF Resolved
    <3> QED BY <2>1, <3>1, WordsKept, StoredKept, ErrorsKept DEF FusedInv, Produced
  <2> QED BY <2>2, <2>3, <2>4 DEF FusedInv
<1> QED BY <1>1, <1>2, <1>3, <1>4, <1>5 DEF Next

\* The invariant of the kernel, whichever kernel is launched.
THEOREM FusedInvariant == CtaSpec => []LaunchedInv
<1>1. CtaInit => LaunchedInv
  BY InitFused DEF CtaInit, LaunchedInv
<1>2. LaunchedInv /\ [CtaNext]_allVars => LaunchedInv'
  <2> SUFFICES ASSUME LaunchedInv, [CtaNext]_allVars, running' = "fused" PROVE FusedInv'
    BY DEF LaunchedInv
  <2>1. running = "fused" /\ [Next]_vars
    BY DEF CtaNext, allVars, OfFused, vars
  <2> QED BY <2>1, NextFused DEF LaunchedInv
<1> QED BY <1>1, <1>2, PTL DEF CtaSpec

\* A thread of a fused kernel that has looked back, over the words other threads share
\* and the carry of the tile before, holds the real quotes of its own word and the parity
\* that enters its own tile, however far the threads of the CTA are apart.
THEOREM FusedSnapshotsOfOneTile == CtaSpec => []FusedSnapshots
<1>1. LaunchedInv => FusedSnapshots
  BY DEF LaunchedInv, FusedInv, Carried, Registers, LookedBack, FusedSnapshots, SnapshotsOfOneTile,
         RealQuoteWord
<1> QED BY <1>1, FusedInvariant, PTL

\* The carries that threads read between the two first barriers of a tile are the states
\* in which a sequential scan arrives there: neither is still of the tile before, and none
\* is already of the next one.
THEOREM FusedCarriesEnterTile == CtaSpec => []FusedCarries
<1>1. LaunchedInv => FusedCarries
  BY ScanningFacts DEF LaunchedInv, FusedInv, FusedCarries, CarriesEnterTile, Scanning
<1> QED BY <1>1, FusedInvariant, PTL

\* Every word a fused kernel has written is the word of the specified bitmaps, also while
\* others are at work, and the error word that thread 0 stores without a barrier of its
\* own counts the words of all threads and all tiles.
THEOREM FusedResultsCorrect ==
  CtaSpec => [](running = "fused" => TypeOK /\ EmittedWordsCorrect /\ StoredErrorComplete)
<1>1. LaunchedInv => (running = "fused" => TypeOK /\ EmittedWordsCorrect /\ StoredErrorComplete)
  BY DEF LaunchedInv, FusedInv, Place, Produced
<1> QED BY <1>1, FusedInvariant, PTL

=============================================================================
