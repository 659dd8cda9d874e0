----------------------------- MODULE StageMajor -----------------------------
(***************************************************************************)
(* The targeted baselines (bitgen_targeted_baseline.cu of gpJSON and of    *)
(* cuJSON): the same four stages as the fused kernels, each a kernel of    *)
(* its own that runs over every tile of the input before the next kernel   *)
(* starts and finds what the stages before left in global memory.  gpJSON  *)
(* overwrites the row of the quotes, cuJSON that of the in-string bits.    *)
(*                                                                         *)
(* Each access to shared memory between two barriers is part of a step of  *)
(* its own.                                                                *)
(***************************************************************************)
EXTENDS CtaTiles

VARIABLES
  program, text,
  kernel,                          \* 1 .. 4, and 5 when the batch is done
  pc, tile, local,
  shared_slashes, shared_quote_parity, shared_utf_error,
  previous_tile,                   \* the escape or the parity the kernel carries
  slash_bitmap, quote_bitmap, real_quote_bitmap, in_string_bitmap,
  operator_bitmap, open_close_bitmap, utf_error

input  == <<program, text>>
shared == <<shared_slashes, shared_quote_parity, shared_utf_error, previous_tile>>
quotes_rows == <<quote_bitmap, real_quote_bitmap, in_string_bitmap>>
bitmaps == <<slash_bitmap, quotes_rows, operator_bitmap, open_close_bitmap, utf_error>>
vars == <<input, kernel, pc, tile, local, shared, bitmaps>>

Garbage(g) == {b \in Bits : g = 1}

Registers == [slash |-> {}, quotes |-> {}, outgoing |-> 0, parity |-> 0, value |-> 0, offset |-> 1]

Init ==
  /\ program \in Programs /\ text \in Texts
  /\ kernel = 1
  /\ pc = [t \in Lanes |-> "start"] /\ tile = [t \in Lanes |-> 0]
  /\ local = [t \in Lanes |-> Registers]
  /\ \E g \in {0, 1} :
       LET row == [w \in PaddedWords(program, text) |-> Garbage(g)] IN
       /\ shared_slashes = [t \in Lanes |-> Garbage(g)]
       /\ shared_quote_parity = [t \in Lanes |-> g]
       /\ shared_utf_error = (g = 1) /\ previous_tile = g
       /\ slash_bitmap = row /\ quote_bitmap = row /\ real_quote_bitmap = row
       /\ in_string_bitmap = row /\ operator_bitmap = row /\ open_close_bitmap = row
       /\ utf_error = (g = 1)

\* Mutant: a thread leaves the loop when its own word is past the input.
TilesOfThread_Exact(t) == (WordCount(text) + Threads - 1 - t) \div Threads

TilesOfThread(t) == Tiles(program, text)

FirstStep == <<"classify", "share", "load", "filter">>
Ending    == IF kernel = 1 /\ program = "cujson" THEN "flagged" ELSE "exit"

LoopHead(t, k) == IF k < TilesOfThread(t) THEN FirstStep[kernel] ELSE Ending

Word(t) == WordAt(tile[t], t)
Slash(t) == SlashWord(text, Word(t))

Advance(t) ==
  /\ tile' = [tile EXCEPT ![t] = @ + 1]
  /\ pc' = [pc EXCEPT ![t] = LoopHead(t, tile[t] + 1)]

\* Thread 0 clears what the kernel accumulates.  The other threads read it only
\* after a barrier, if not one of its own then the first one of the loop.
ClearsTogether == IF program = "gpjson" THEN {2, 3} ELSE {1}

Start(t) ==
  /\ pc[t] = "start"
  /\ IF t = 0 /\ kernel \in {2, 3} THEN previous_tile' = 0 ELSE UNCHANGED previous_tile
  /\ IF t = 0 /\ kernel = 1 THEN shared_utf_error' = FALSE ELSE UNCHANGED shared_utf_error
  /\ pc' = [pc EXCEPT ![t] = IF kernel \in ClearsTogether THEN "cleared" ELSE LoopHead(t, 0)]
  /\ UNCHANGED <<input, kernel, tile, local, shared_slashes, shared_quote_parity, bitmaps>>

-----------------------------------------------------------------------------
(***************************************************************************)
(* Barriers                                                                *)
(***************************************************************************)
Barriers == {"cleared", "flagged", "shared", "resolved", "loaded", "combined", "written",
             "emitted", "carried"}

\* Mutant: thread 0 publishes the error word without waiting.
Together_NoFlagged(barrier) == IF barrier = "flagged" THEN {{t} : t \in Lanes} ELSE {Lanes}

\* The threads that wait for each other.
Together(barrier) == {Lanes}

MoreRounds(offset) == offset < Threads

AfterBarrier(barrier, t) ==
  CASE barrier = "cleared"  -> LoopHead(t, 0)
    [] barrier = "flagged"  -> "publish"
    [] barrier = "shared"   -> "resolve"
    [] barrier = "resolved" -> "carry_escape"
    [] barrier = "combined" -> "write_round"
    [] barrier \in {"loaded", "written"} ->
         IF MoreRounds(local[t].offset) THEN "read_round" ELSE "emit"
    [] barrier = "emitted"  -> "carry_parity"
    [] barrier = "carried"  -> LoopHead(t, tile[t])

Barrier(barrier) ==
  /\ \E group \in Together(barrier) :
       /\ \A t \in group : pc[t] = barrier
       /\ pc' = [t \in Lanes |-> IF t \in group THEN AfterBarrier(barrier, t) ELSE pc[t]]
  /\ UNCHANGED <<input, kernel, tile, local, shared, bitmaps>>

-----------------------------------------------------------------------------
(***************************************************************************)
(* K1, classification                                                      *)
(***************************************************************************)
Classify(t) ==
  /\ pc[t] = "classify"
  /\ slash_bitmap' = [slash_bitmap EXCEPT ![Word(t)] = Slash(t)]
  /\ quote_bitmap' = [quote_bitmap EXCEPT ![Word(t)] = QuoteWord(text, Word(t))]
  /\ operator_bitmap' = [operator_bitmap EXCEPT ![Word(t)] = OperatorWord(text, Word(t))]
  /\ open_close_bitmap' = IF program = "cujson"
                          THEN [open_close_bitmap EXCEPT ![Word(t)] = OpenCloseWord(text, Word(t))]
                          ELSE open_close_bitmap
  /\ shared_utf_error' = (shared_utf_error \/ Flagged(program, text, Word(t)))
  /\ Advance(t)
  /\ UNCHANGED <<input, kernel, local, shared_slashes, shared_quote_parity, previous_tile,
                 real_quote_bitmap, in_string_bitmap, utf_error>>

PublishError(t) ==
  /\ pc[t] = "publish"
  /\ pc' = [pc EXCEPT ![t] = "exit"]
  /\ utf_error' = IF t = 0 THEN shared_utf_error ELSE utf_error
  /\ UNCHANGED <<input, kernel, tile, local, shared, slash_bitmap, quotes_rows,
                 operator_bitmap, open_close_bitmap>>

-----------------------------------------------------------------------------
(***************************************************************************)
(* K2, escaped quotes                                                      *)
(***************************************************************************)
ShareSlashes(t) ==
  /\ pc[t] = "share"
  /\ local' = [local EXCEPT ![t] = [@ EXCEPT !.slash  = slash_bitmap[Word(t)],
                                             !.quotes = quote_bitmap[Word(t)]]]
  /\ shared_slashes' = [shared_slashes EXCEPT ![t] = slash_bitmap[Word(t)]]
  /\ pc' = [pc EXCEPT ![t] = "shared"]
  /\ UNCHANGED <<input, kernel, tile, shared_quote_parity, shared_utf_error, previous_tile, bitmaps>>

Resolve(t) ==
  LET slash == local[t].slash
      quote == local[t].quotes
      incoming == IncomingEscape(program, t, quote, slash, shared_slashes, previous_tile)
      real == SelectedQuotes(program, quote, slash, incoming)
  IN
  /\ pc[t] = "resolve"
  /\ IF program = "gpjson"
     THEN quote_bitmap' = [quote_bitmap EXCEPT ![Word(t)] = real] /\ UNCHANGED real_quote_bitmap
     ELSE real_quote_bitmap' = [real_quote_bitmap EXCEPT ![Word(t)] = real] /\ UNCHANGED quote_bitmap
  /\ local' = [local EXCEPT ![t].outgoing = OutgoingEscape(slash, incoming)]
  /\ pc' = [pc EXCEPT ![t] = "resolved"]
  /\ UNCHANGED <<input, kernel, tile, shared, slash_bitmap, in_string_bitmap,
                 operator_bitmap, open_close_bitmap, utf_error>>

\* gpJSON waits once more before the next tile; cuJSON's next barrier is enough.
NextTile(t) ==
  IF program = "gpjson"
  THEN tile' = [tile EXCEPT ![t] = @ + 1] /\ pc' = [pc EXCEPT ![t] = "carried"]
  ELSE Advance(t)

CarryEscape(t) ==
  /\ pc[t] = "carry_escape"
  /\ previous_tile' = IF t = LastLane THEN local[t].outgoing ELSE previous_tile
  /\ NextTile(t)
  /\ UNCHANGED <<input, kernel, local, shared_slashes, shared_quote_parity, shared_utf_error, bitmaps>>

-----------------------------------------------------------------------------
(***************************************************************************)
(* K3, strings: an inclusive scan over the parities of the tile that       *)
(* doubles its distance every round.  gpJSON takes its snapshot of the     *)
(* carry before the scan, cuJSON after it.                                 *)
(***************************************************************************)
LoadParity(t) ==
  LET real == IF program = "gpjson" THEN quote_bitmap[Word(t)] ELSE real_quote_bitmap[Word(t)] IN
  /\ pc[t] = "load"
  /\ local' = [local EXCEPT ![t] = [@ EXCEPT !.quotes = real, !.parity = previous_tile, !.offset = 1]]
  /\ shared_quote_parity' = [shared_quote_parity EXCEPT ![t] = Parity(real)]
  /\ pc' = [pc EXCEPT ![t] = "loaded"]
  /\ UNCHANGED <<input, kernel, tile, shared_slashes, shared_utf_error, previous_tile, bitmaps>>

ReadRound(t) ==
  LET offset == local[t].offset IN
  /\ pc[t] = "read_round"
  /\ local' = [local EXCEPT ![t].value =
                 Xor(shared_quote_parity[t],
                     IF t >= offset THEN shared_quote_parity[t - offset] ELSE 0)]
  /\ pc' = [pc EXCEPT ![t] = "combined"]
  /\ UNCHANGED <<input, kernel, tile, shared, bitmaps>>

WriteRound(t) ==
  LET offset == local[t].offset IN
  /\ pc[t] = "write_round"
  /\ shared_quote_parity' = IF t >= offset
                            THEN [shared_quote_parity EXCEPT ![t] = local[t].value]
                            ELSE shared_quote_parity
  /\ local' = [local EXCEPT ![t].offset = 2 * offset]
  /\ pc' = [pc EXCEPT ![t] = "written"]
  /\ UNCHANGED <<input, kernel, tile, shared_slashes, shared_utf_error, previous_tile, bitmaps>>

CarriedParity(t) == IF program = "gpjson" THEN local[t].parity ELSE previous_tile

EmitStrings(t) ==
  LET before == Xor(CarriedParity(t), IF t = 0 THEN 0 ELSE shared_quote_parity[t - 1])
      in_string == InStringBits(local[t].quotes, before)
  IN
  /\ pc[t] = "emit"
  /\ IF program = "gpjson"
     THEN quote_bitmap' = [quote_bitmap EXCEPT ![Word(t)] = in_string] /\ UNCHANGED in_string_bitmap
     ELSE in_string_bitmap' = [in_string_bitmap EXCEPT ![Word(t)] = in_string] /\ UNCHANGED quote_bitmap
  /\ local' = [local EXCEPT ![t].value = shared_quote_parity[LastLane]]
  /\ pc' = [pc EXCEPT ![t] = "emitted"]
  /\ UNCHANGED <<input, kernel, tile, shared, slash_bitmap, real_quote_bitmap,
                 operator_bitmap, open_close_bitmap, utf_error>>

CarryParity(t) ==
  /\ pc[t] = "carry_parity"
  /\ previous_tile' = IF t = 0 THEN Xor(CarriedParity(t), local[t].value) ELSE previous_tile
  /\ NextTile(t)
  /\ UNCHANGED <<input, kernel, local, shared_slashes, shared_quote_parity, shared_utf_error, bitmaps>>

-----------------------------------------------------------------------------
(***************************************************************************)
(* K4, and the launches                                                    *)
(***************************************************************************)
Filter(t) ==
  /\ pc[t] = "filter"
  /\ IF program = "gpjson"
     THEN /\ operator_bitmap' = [operator_bitmap EXCEPT ![Word(t)] = @ \ quote_bitmap[Word(t)]]
          /\ UNCHANGED <<in_string_bitmap, open_close_bitmap>>
     ELSE /\ in_string_bitmap' = [in_string_bitmap EXCEPT ![Word(t)] = operator_bitmap[Word(t)] \ @]
          /\ open_close_bitmap' = [open_close_bitmap EXCEPT ![Word(t)] = @ \ in_string_bitmap[Word(t)]]
          /\ UNCHANGED operator_bitmap
  /\ Advance(t)
  /\ UNCHANGED <<input, kernel, local, shared, slash_bitmap, quote_bitmap, real_quote_bitmap, utf_error>>

\* The next kernel of the stream starts when the last thread of this one is gone,
\* with shared memory of its own.
Launch ==
  /\ kernel < 5 /\ \A t \in Lanes : pc[t] = "exit"
  /\ kernel' = kernel + 1
  /\ pc' = [t \in Lanes |-> IF kernel = 4 THEN "done" ELSE "start"]
  /\ tile' = [t \in Lanes |-> 0]
  /\ local' = [t \in Lanes |-> Registers]
  /\ \E g \in {0, 1} :
       /\ shared_slashes' = [t \in Lanes |-> Garbage(g)]
       /\ shared_quote_parity' = [t \in Lanes |-> g]
       /\ shared_utf_error' = (g = 1) /\ previous_tile' = g
  /\ UNCHANGED <<input, bitmaps>>

Step(t) ==
  \/ Start(t) \/ Classify(t) \/ PublishError(t)
  \/ ShareSlashes(t) \/ Resolve(t) \/ CarryEscape(t)
  \/ LoadParity(t) \/ ReadRound(t) \/ WriteRound(t) \/ EmitStrings(t) \/ CarryParity(t)
  \/ Filter(t)

Next ==
  \/ \E t \in Lanes : Step(t)
  \/ \E barrier \in Barriers : Barrier(barrier)
  \/ Launch

\* A resident CTA keeps running, and the stream goes on.  No thread spins.
Fairness == WF_vars(Next)

Spec == Init /\ [][Next]_vars /\ Fairness

-----------------------------------------------------------------------------
Rows == [PaddedWords(program, text) -> SUBSET Bits]

\* The type of the shared memory, the registers and the bitmaps.
TypeOK ==
  /\ kernel \in 1 .. 5
  /\ pc \in [Lanes -> Barriers \cup
               {"start", "classify", "publish", "share", "resolve", "carry_escape", "load", "read_round",
                "write_round", "emit", "carry_parity", "filter", "exit", "done"}]
  /\ tile \in [Lanes -> 0 .. Tiles(program, text)]
  /\ \A t \in Lanes :
       /\ local[t].slash \subseteq Bits /\ local[t].quotes \subseteq Bits
       /\ local[t].outgoing \in {0, 1} /\ local[t].parity \in {0, 1} /\ local[t].value \in {0, 1}
       /\ local[t].offset \in 1 .. 2 * Threads
  /\ shared_slashes \in [Lanes -> SUBSET Bits]
  /\ shared_quote_parity \in [Lanes -> {0, 1}] /\ previous_tile \in {0, 1}
  /\ slash_bitmap \in Rows /\ quote_bitmap \in Rows /\ real_quote_bitmap \in Rows
  /\ in_string_bitmap \in Rows /\ operator_bitmap \in Rows /\ open_close_bitmap \in Rows
  /\ shared_utf_error \in BOOLEAN /\ utf_error \in BOOLEAN

\* Word w has passed the kernel's write: its tile is behind its thread, or its
\* thread is between the write and the carry of the tile.
Passed(w, written) ==
  LET t == w % Threads IN
  \/ w \div Threads < tile[t]
  \/ w \div Threads = tile[t] /\ pc[t] \in written

\* The row gpJSON uses in place always holds, word by word, what the stage that last
\* passed the word should have left there, and the later stage finds the earlier one's.
QuoteRowFollowsStages ==
  program = "gpjson" =>
    \A w \in PaddedWords(program, text) :
      /\ kernel = 2 =>
           quote_bitmap[w] = IF Passed(w, {"resolved", "carry_escape"})
                             THEN TrueQuotes(text, w) ELSE QuoteWord(text, w)
      /\ kernel = 3 =>
           quote_bitmap[w] = IF Passed(w, {"emitted", "carry_parity"})
                             THEN InStringWord(text, w) ELSE TrueQuotes(text, w)
      /\ kernel >= 4 => quote_bitmap[w] = InStringWord(text, w)

\* What a thread is about to combine with its own tile is the state in which a
\* sequential scan arrives there, wherever the barriers around the carry are.
CarryEntersTile ==
  \A t \in Lanes :
    /\ pc[t] = "resolve" => previous_tile = EscapeEnters(text, tile[t])
    /\ pc[t] = "emit" => CarriedParity(t) = ParityEnters(text, tile[t])

\* After the last round every lane holds the XOR of the parities up to its own.
ScanIsInclusive ==
  \A t \in Lanes :
    pc[t] = "emit" =>
      \A k \in Lanes :
        shared_quote_parity[k] =
          Cardinality({i \in 0 .. k : Parity(TrueQuotes(text, WordAt(tile[t], i))) = 1}) % 2

\* The error word published for an input counts the words of all its threads.
ErrorWordComplete ==
  program = "cujson" /\ kernel >= 2 => (utf_error <=> HasFlagged(program, text))

\* When the four kernels are done, the rows copied back are the specified bitmaps.
OutputCorrect ==
  kernel = 5 =>
    \A w \in PaddedWords(program, text) :
      IF program = "gpjson" THEN operator_bitmap[w] = StructuralWord(text, w)
      ELSE /\ in_string_bitmap[w] = StructuralWord(text, w)
           /\ open_close_bitmap[w] = OpenCloseResult(text, w)

BatchDone == kernel = 5

=============================================================================
