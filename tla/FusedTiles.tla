----------------------------- MODULE FusedTiles -----------------------------
(***************************************************************************)
(* The fused BitGen kernels (bitgen_fused.cu of gpJSON and of cuJSON): one *)
(* CTA runs all stages on a tile before it advances to the next one.       *)
(*                                                                         *)
(* Threads run independently between barriers: each access to shared       *)
(* memory between two barriers is part of a step of its own.  The lanes of *)
(* a warp exchange registers by shuffles that wait for the whole warp, so  *)
(* the scan of a warp is one step.                                         *)
(***************************************************************************)
EXTENDS CtaTiles

CONSTANT WarpSize

\* The code also needs a lane of warp 0 for the total of every warp.
ASSUME WarpAssumption == WarpSize \in Nat \ {0} /\ Threads % WarpSize = 0

VARIABLES
  program, text,
  pc, tile,
  shared_slashes, shared_warp_quote_parity,
  previous_tile_escape, previous_tile_quote_parity,
  input_utf_error,
  local,                 \* the registers of every thread
  structural, open_close,
  utf_error              \* of the input, in global memory

shared == <<shared_slashes, shared_warp_quote_parity,
            previous_tile_escape, previous_tile_quote_parity, input_utf_error>>
output == <<structural, open_close, utf_error>>
vars   == <<program, text, pc, tile, shared, local, output>>

Warps == 0 .. Threads \div WarpSize - 1
LastWarp == Threads \div WarpSize - 1
WarpOf(t) == t \div WarpSize
WarpLanes(n) == {t \in Lanes : WarpOf(t) = n}

\* __syncthreads, by the pc of the threads that wait there
Barriers == {"published", "scanned", "totaled"}

Init ==
  /\ program \in Programs /\ text \in Texts
  /\ pc = [t \in Lanes |-> "start"]
  /\ tile = [t \in Lanes |-> 0]
  \* neither shared memory nor the bitmaps are initialized
  /\ \E garbage \in {0, 1} :
       /\ shared_slashes = [t \in Lanes |-> {b \in Bits : garbage = 1}]
       /\ shared_warp_quote_parity = [n \in Warps |-> garbage]
       /\ previous_tile_escape = garbage /\ previous_tile_quote_parity = garbage
       /\ input_utf_error = (garbage = 1) /\ utf_error = (garbage = 1)
       /\ structural = [w \in PaddedWords(program, text) |-> {b \in Bits : garbage = 1}]
       /\ open_close = [w \in PaddedWords(program, text) |-> {b \in Bits : garbage = 1}]
  /\ local = [t \in Lanes |-> [old_parity |-> 0, quotes |-> {}, outgoing |-> 0, inclusive |-> 0]]

\* Mutant: a thread leaves the loop when its own word is past the input.
TilesOfThread_Exact(t) == (WordCount(text) + Threads - 1 - t) \div Threads

\* Every thread runs every tile, padding words included.
TilesOfThread(t) == Tiles(program, text)

\* Lane 0 of cuJSON stores the error word behind the loop.
Ending(t) == IF t = 0 /\ program = "cujson" THEN "publish" ELSE "exit"

LoopHead(t, k) == IF k < TilesOfThread(t) THEN "classify" ELSE Ending(t)

Word(t)  == WordAt(tile[t], t)
Slash(t) == SlashWord(text, Word(t))
Quote(t) == QuoteWord(text, Word(t))

\* Thread 0 clears the carries.
Start(t) ==
  /\ pc[t] = "start"
  /\ pc' = [pc EXCEPT ![t] = LoopHead(t, 0)]
  /\ IF t = 0
     THEN previous_tile_escape' = 0 /\ previous_tile_quote_parity' = 0 /\ input_utf_error' = FALSE
     ELSE UNCHANGED <<previous_tile_escape, previous_tile_quote_parity, input_utf_error>>
  /\ UNCHANGED <<program, text, tile, shared_slashes, shared_warp_quote_parity, local, output>>

\* The thread classifies its word and shares the backslashes.
Classify(t) ==
  /\ pc[t] = "classify"
  /\ shared_slashes' = [shared_slashes EXCEPT ![t] = Slash(t)]
  /\ pc' = [pc EXCEPT ![t] = "published"]
  /\ UNCHANGED <<program, text, tile, shared_warp_quote_parity,
                 previous_tile_escape, previous_tile_quote_parity, input_utf_error, local, output>>

\* Mutant: the tile starts without a barrier.
Together_NoFirst(barrier) == IF barrier = "published" THEN {{t} : t \in Lanes} ELSE {Lanes}

\* The threads that wait for each other.
Together(barrier) == {Lanes}

AfterBarrier(barrier, t) ==
  CASE barrier = "published" -> "resolve"
    [] barrier = "scanned"   -> IF WarpOf(t) = 0 THEN "totals" ELSE "totaled"
    [] barrier = "totaled"   -> "emit"

Barrier(barrier) ==
  /\ \E group \in Together(barrier) :
       /\ \A t \in group : pc[t] = barrier
       /\ pc' = [t \in Lanes |-> IF t \in group THEN AfterBarrier(barrier, t) ELSE pc[t]]
  /\ UNCHANGED <<program, text, tile, shared, local, output>>

\* Snapshot of the carries, lookback over the tile, the real quotes of the word; a
\* thread adds its UTF-8 error to that of the input.
Resolve(t) ==
  LET incoming == IncomingEscape(program, t, Quote(t), Slash(t), shared_slashes, previous_tile_escape)
  IN
  /\ pc[t] = "resolve"
  /\ pc' = [pc EXCEPT ![t] = "warp_scan"]
  /\ local' = [local EXCEPT
       ![t] = [@ EXCEPT !.old_parity = previous_tile_quote_parity,
                        !.quotes     = SelectedQuotes(program, Quote(t), Slash(t), incoming),
                        !.outgoing   = OutgoingEscape(Slash(t), incoming)]]
  /\ input_utf_error' = (input_utf_error \/ Flagged(program, text, Word(t)))
  /\ UNCHANGED <<program, text, tile, shared_slashes, shared_warp_quote_parity,
                 previous_tile_escape, previous_tile_quote_parity, output>>

\* The inclusive scan of a warp in registers; its last lane shares the total.
WarpScan(n) ==
  LET parity == [t \in Lanes |-> Parity(local[t].quotes)] IN
  /\ \A t \in WarpLanes(n) : pc[t] = "warp_scan"
  /\ pc' = [t \in Lanes |-> IF WarpOf(t) = n THEN "scanned" ELSE pc[t]]
  /\ local' = [t \in Lanes |->
                 IF WarpOf(t) = n
                 THEN [local[t] EXCEPT !.inclusive = XorOf(parity, n * WarpSize, t)]
                 ELSE local[t]]
  /\ shared_warp_quote_parity' =
       [shared_warp_quote_parity EXCEPT
          ![n] = XorOf(parity, n * WarpSize, n * WarpSize + WarpSize - 1)]
  /\ UNCHANGED <<program, text, tile, shared_slashes,
                 previous_tile_escape, previous_tile_quote_parity, input_utf_error, output>>

\* Warp 0 scans the totals of the warps in place.
ScanTotals ==
  /\ \A t \in WarpLanes(0) : pc[t] = "totals"
  /\ pc' = [t \in Lanes |-> IF WarpOf(t) = 0 THEN "totaled" ELSE pc[t]]
  /\ shared_warp_quote_parity' =
       [n \in Warps |-> XorOf(shared_warp_quote_parity, 0, n)]
  /\ UNCHANGED <<program, text, tile, shared_slashes,
                 previous_tile_escape, previous_tile_quote_parity, input_utf_error, local, output>>

\* The inclusive scan over the tile, as the thread reads it.
InclusiveParity(t) ==
  Xor(IF WarpOf(t) = 0 THEN 0 ELSE shared_warp_quote_parity[WarpOf(t) - 1], local[t].inclusive)

ParityBefore(t) ==
  Xor(local[t].old_parity, Xor(InclusiveParity(t), Parity(local[t].quotes)))

\* Mutant: every lane hands on its escape.
CarriesEscape_All == Lanes

CarriesEscape == {LastLane}

\* The output words, and the carries for the next tile.
Emit(t) ==
  LET in_string == InStringBits(local[t].quotes, ParityBefore(t)) IN
  /\ pc[t] = "emit"
  /\ structural' = [structural EXCEPT ![Word(t)] = OperatorWord(text, Word(t)) \ in_string]
  /\ open_close' = IF program = "cujson"
                   THEN [open_close EXCEPT ![Word(t)] = OpenCloseWord(text, Word(t)) \ in_string]
                   ELSE open_close
  /\ previous_tile_escape' = IF t \in CarriesEscape THEN local[t].outgoing ELSE previous_tile_escape
  /\ previous_tile_quote_parity' =
       IF t = 0 THEN Xor(local[t].old_parity, shared_warp_quote_parity[LastWarp])
       ELSE previous_tile_quote_parity
  /\ tile' = [tile EXCEPT ![t] = @ + 1]
  /\ pc' = [pc EXCEPT ![t] = LoopHead(t, tile[t] + 1)]
  /\ UNCHANGED <<program, text, shared_slashes, shared_warp_quote_parity, input_utf_error, local,
                 utf_error>>

PublishError(t) ==
  /\ pc[t] = "publish"
  /\ utf_error' = input_utf_error
  /\ pc' = [pc EXCEPT ![t] = "exit"]
  /\ UNCHANGED <<program, text, tile, shared, local, structural, open_close>>

Step(t) == Start(t) \/ Classify(t) \/ Resolve(t) \/ Emit(t) \/ PublishError(t)

Next ==
  \/ \E t \in Lanes : Step(t)
  \/ \E n \in Warps : WarpScan(n)
  \/ \E barrier \in Barriers : Barrier(barrier)
  \/ ScanTotals

\* A resident CTA keeps running: as long as a thread can go on, one of them does.
\* No thread spins, so that nothing more is needed.
Fairness == WF_vars(Next)

Spec == Init /\ [][Next]_vars /\ Fairness

-----------------------------------------------------------------------------
Snapshots == [old_parity: {0, 1}, quotes: SUBSET Bits, outgoing: {0, 1}, inclusive: {0, 1}]

\* The type of the shared memory, the registers and the bitmaps.
TypeOK ==
  /\ pc \in [Lanes -> Barriers \cup {"start", "classify", "resolve", "warp_scan", "totals", "emit", "publish", "exit"}]
  /\ tile \in [Lanes -> 0 .. Tiles(program, text)]
  /\ shared_slashes \in [Lanes -> SUBSET Bits]
  /\ shared_warp_quote_parity \in [Warps -> {0, 1}]
  /\ previous_tile_escape \in {0, 1} /\ previous_tile_quote_parity \in {0, 1}
  /\ local \in [Lanes -> Snapshots]
  /\ input_utf_error \in BOOLEAN /\ utf_error \in BOOLEAN
  /\ structural \in [PaddedWords(program, text) -> SUBSET Bits]
  /\ open_close \in [PaddedWords(program, text) -> SUBSET Bits]

\* However far the threads of a CTA are apart, a thread that has looked back holds
\* the quotes of its word and the parity that enters its tile: it has read neither a
\* backslash word nor a carry of another tile.
SnapshotsOfOneTile ==
  LET quotes == RealQuotes(text) IN
  \A t \in Lanes :
    pc[t] \in {"warp_scan", "scanned", "totals", "totaled", "emit"} =>
      /\ local[t].quotes = WordOf(quotes, Word(t))
      /\ local[t].old_parity = ParityEnters(text, tile[t])

\* When the threads are about to take their snapshots, the carries are the states in
\* which a sequential scan arrives at the tile.
CarriesEnterTile ==
  \A t \in Lanes :
    pc[t] = "resolve" =>
      /\ previous_tile_escape = EscapeEnters(text, tile[t])
      /\ previous_tile_quote_parity = ParityEnters(text, tile[t])

\* Every word a thread has left behind is right, also while others are at work.
EmittedWordsCorrect ==
  LET strings == InString(text) IN
  \A t \in Lanes : \A k \in 0 .. tile[t] - 1 :
    LET w == WordAt(k, t) IN
    /\ structural[w] = WordOf(Operators(text) \ strings, w)
    /\ program = "cujson" => open_close[w] = WordOf(OpenCloses(text) \ strings, w)

\* The error word that thread 0 stores, without a barrier of its own, counts every
\* thread and every tile, the padding behind the input included.
StoredErrorComplete ==
  program = "cujson" /\ pc[0] = "exit" => (utf_error <=> HasFlagged(program, text))

Exited == \A t \in Lanes : pc[t] = "exit"

=============================================================================
