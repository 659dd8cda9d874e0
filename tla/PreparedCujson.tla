--------------------------- MODULE PreparedCujson ---------------------------
(***************************************************************************)
(* The cuJSON program prepared as an input of the compiler                 *)
(* (inputs/cujson/cujson.cpp), read as the CUDA kernels it was made from:  *)
(* one call of cujson_tokenizer, stage after stage; in a stage the threads *)
(* of a grid stride over the items, at different speeds.                   *)
(*                                                                         *)
(* Three stages work in place: a row of bits becomes a row of counts, of   *)
(* sums, or of other bits.  A row therefore holds machine words, numbers   *)
(* of WordBytes bits; bit b of word w is byte w * WordBytes + b.           *)
(***************************************************************************)
EXTENDS JsonText

CONSTANTS
  Texts,
  GroupBytes,              \* bytes that one item of bitMapCreatorSimd packs: 8
  bitmap_words_per_thread,
  Threads,                 \* blockDim * gridDim
  NonAscii(_),             \* the input words, of half a group, that hold a byte above 127
  FlaggedWords(_)          \* the input words that the UTF-8 check finds in error

CujsonInputAssumption ==
  /\ \A t \in Texts : IsText(t)
  /\ GroupBytes \in Nat \ {0} /\ GroupBytes % 2 = 0 /\ WordBytes % GroupBytes = 0
  /\ bitmap_words_per_thread \in Nat \ {0} /\ Threads \in Nat \ {0}

VARIABLES
  text,
  stage,                     \* the running kernel
  next_item,                 \* of every thread, the item it comes to next
  has_non_ascii_GPU, utf8_error_GPU,
  backslashes_GPU,
  quote_GPU,                 \* quotes, then their number, then the sum of the numbers before
  real_quote_GPU,
  in_string_GPU,             \* strings, then the structural characters
  op_GPU,                    \* operators, then the number of brackets outside strings
  open_close_GPU,            \* brackets, then those outside strings
  structural_count_GPU

checks == <<has_non_ascii_GPU, utf8_error_GPU>>
rows   == <<backslashes_GPU, quote_GPU, real_quote_GPU, in_string_GPU, op_GPU, open_close_GPU,
            structural_count_GPU>>
vars   == <<text, stage, next_item, checks, rows>>

-----------------------------------------------------------------------------
InputBytes == GroupBytes \div 2

Ceil(a, b) == (a + b - 1) \div b

input_word_count == Ceil(Size(text), InputBytes)
total_padded_8   == Ceil(Size(text), GroupBytes)
total_padded_32  == WordCount(text)
total_padded_8B  == Ceil(total_padded_32, bitmap_words_per_thread)

Words == 0 .. total_padded_32 - 1

Modulus == 2 ^ WordBytes

BitsOf(n) == {b \in Bits : (n \div 2 ^ b) % 2 = 1}

Number(bits) == CHOOSE n \in 0 .. Modulus - 1 : BitsOf(n) = bits

Count(kernel) ==
  CASE kernel \in {"checkAscii", "checkUTF8"} -> input_word_count
    [] kernel = "bitMapCreatorSimd"           -> total_padded_8
    [] kernel \in {"findEscapedQuoteMerge", "findOutUsefulStringMerge"} -> total_padded_8B
    [] kernel = "inStringFinderBaseline"      -> total_padded_32

FirstItems == [t \in 0 .. Threads - 1 |-> t]

Done(i) == i < next_item[i % Threads]

AllDone == \A i \in 0 .. Count(stage) - 1 : Done(i)

Following ==
  [checkAscii |-> "checkUTF8", checkUTF8 |-> "bitMapCreatorSimd",
   bitMapCreatorSimd |-> "findEscapedQuoteMerge", findEscapedQuoteMerge |-> "inStringFinderBaseline",
   inStringFinderBaseline |-> "findOutUsefulStringMerge"]

\* The caller has cleared the flags and, as upstream does, the last word of each row: the
\* groups behind the input belong to it and nobody writes them.
Init ==
  /\ text \in Texts /\ stage = "checkAscii" /\ next_item = FirstItems
  /\ has_non_ascii_GPU = FALSE /\ utf8_error_GPU = FALSE
  /\ \E garbage \in {0, Modulus - 1} :
       /\ backslashes_GPU = [w \in Words |-> IF w = total_padded_32 - 1 THEN 0 ELSE garbage]
       /\ quote_GPU = backslashes_GPU /\ real_quote_GPU = backslashes_GPU
       /\ in_string_GPU = backslashes_GPU /\ op_GPU = backslashes_GPU
       /\ open_close_GPU = backslashes_GPU /\ structural_count_GPU = backslashes_GPU

\* thrust's exclusive scan, in place: words of 32 bits wrap
Sum[w \in Nat] == IF w = 0 THEN 0 ELSE (Sum[w - 1] + quote_GPU[w - 1]) % Modulus

\* The scan of the quote counts stands between two kernels.
NextKernel ==
  /\ stage \in DOMAIN Following /\ AllDone
  /\ stage' = Following[stage] /\ next_item' = FirstItems
  /\ quote_GPU' = IF stage = "findEscapedQuoteMerge" THEN [w \in Words |-> Sum[w]] ELSE quote_GPU
  /\ UNCHANGED <<text, checks, backslashes_GPU, real_quote_GPU, in_string_GPU, op_GPU,
                 open_close_GPU, structural_count_GPU>>

\* A thread's next item of this kernel.
Runs(kernel, i) ==
  /\ stage = kernel /\ i < Count(kernel) /\ next_item[i % Threads] = i
  /\ next_item' = [next_item EXCEPT ![i % Threads] = @ + Threads]
  /\ UNCHANGED <<text, stage>>

-----------------------------------------------------------------------------
\* Every thread that finds something stores into the one word, over what is there.
checkAscii(i) ==
  /\ Runs("checkAscii", i)
  /\ has_non_ascii_GPU' = (has_non_ascii_GPU \/ i \in NonAscii(text))
  /\ UNCHANGED <<utf8_error_GPU, rows>>

checkUTF8(i) ==
  /\ Runs("checkUTF8", i)
  /\ utf8_error_GPU' = (utf8_error_GPU \/ i \in FlaggedWords(text))
  /\ UNCHANGED <<has_non_ascii_GPU, rows>>

\* The bytes of group i, the second half of it only if the input reaches there.
GroupBits(i, classes) ==
  {p \in (i * GroupBytes) .. ((i + 1) * GroupBytes - 1) :
     /\ p >= i * GroupBytes + InputBytes => i * GroupBytes + InputBytes < Size(text)
     /\ p \in DOMAIN text /\ text[p] \in classes}

\* Through a pointer to bytes, a group is a part of its word.
StoreGroup(row, i, classes) ==
  LET w     == (i * GroupBytes) \div WordBytes
      group == {p % WordBytes : p \in (i * GroupBytes) .. ((i + 1) * GroupBytes - 1)}
      bits  == {p % WordBytes : p \in GroupBits(i, classes)}
  IN  [row EXCEPT ![w] = Number((BitsOf(@) \ group) \cup bits)]

bitMapCreatorSimd(i) ==
  /\ Runs("bitMapCreatorSimd", i)
  /\ backslashes_GPU' = StoreGroup(backslashes_GPU, i, {"slash"})
  /\ quote_GPU'       = StoreGroup(quote_GPU, i, {"quote"})
  /\ op_GPU'          = StoreGroup(op_GPU, i, {"bracket", "separator"})
  /\ open_close_GPU'  = StoreGroup(open_close_GPU, i, {"bracket"})
  /\ UNCHANGED <<checks, real_quote_GPU, in_string_GPU, structural_count_GPU>>

\* The words of an item, and a row in which they have been written.
Chunk(i) ==
  {w \in Words : w \div bitmap_words_per_thread = i}

Over(i, row, value) == [w \in Words |-> IF w \in Chunk(i) THEN value[w] ELSE row[w]]

\* The words before w that are not all backslashes.
Decided(w) == {j \in 0 .. w - 1 : BitsOf(backslashes_GPU[j]) # AllOnes}

\* Mutant: the lookback stops at the word before.
Overflow_Adjacent(w) == IF w = 0 THEN 0 ELSE TrailingOnes(BitsOf(backslashes_GPU[w - 1])) % 2

Overflow(w) ==
  IF Decided(w) = {} THEN 0
  ELSE TrailingOnes(BitsOf(backslashes_GPU[CHOOSE j \in Decided(w) : \A k \in Decided(w) : k <= j])) % 2

QuotesOf(w) ==
  LET quote    == BitsOf(quote_GPU[w])
      slash    == BitsOf(backslashes_GPU[w])
      possible == {b \in quote : IF b = 0 THEN Overflow(w) = 1 ELSE b - 1 \in slash}
  IN  IF possible = {} THEN quote ELSE FilterEscapedQuotes(quote, slash, Overflow(w))

findEscapedQuoteMerge(i) ==
  /\ Runs("findEscapedQuoteMerge", i)
  /\ real_quote_GPU' = Over(i, real_quote_GPU, [w \in Words |-> Number(QuotesOf(w))])
  /\ quote_GPU'      = Over(i, quote_GPU, [w \in Words |-> Cardinality(QuotesOf(w))])
  /\ UNCHANGED <<checks, backslashes_GPU, in_string_GPU, op_GPU, open_close_GPU,
                 structural_count_GPU>>

Enters(w) == quote_GPU[w] % 2 = 1

inStringFinderBaseline(i) ==
  /\ Runs("inStringFinderBaseline", i)
  /\ in_string_GPU' = [in_string_GPU EXCEPT ![i] =
                         Number(InStringCandidate(BitsOf(real_quote_GPU[i]), Enters(i)))]
  /\ UNCHANGED <<checks, backslashes_GPU, quote_GPU, real_quote_GPU, op_GPU, open_close_GPU,
                 structural_count_GPU>>

Outside(row, w) == BitsOf(row[w]) \ BitsOf(in_string_GPU[w])

findOutUsefulStringMerge(i) ==
  /\ Runs("findOutUsefulStringMerge", i)
  /\ in_string_GPU'  = Over(i, in_string_GPU, [w \in Words |-> Number(Outside(op_GPU, w))])
  /\ open_close_GPU' = Over(i, open_close_GPU, [w \in Words |-> Number(Outside(open_close_GPU, w))])
  /\ structural_count_GPU' =
       Over(i, structural_count_GPU, [w \in Words |-> Cardinality(Outside(op_GPU, w))])
  /\ op_GPU' = Over(i, op_GPU, [w \in Words |-> Cardinality(Outside(open_close_GPU, w))])
  /\ UNCHANGED <<checks, backslashes_GPU, quote_GPU, real_quote_GPU>>

Next ==
  \/ NextKernel
  \/ \E i \in {next_item[t] : t \in DOMAIN next_item} :
       \/ checkAscii(i) \/ checkUTF8(i) \/ bitMapCreatorSimd(i) \/ findEscapedQuoteMerge(i)
       \/ inStringFinderBaseline(i) \/ findOutUsefulStringMerge(i)

Spec == Init /\ [][Next]_vars

-----------------------------------------------------------------------------
Returned == stage = "findOutUsefulStringMerge" /\ AllDone

TypeOK ==
  /\ text \in Texts /\ stage \in DOMAIN Following \cup {"findOutUsefulStringMerge"}
  /\ next_item \in [0 .. Threads - 1 -> Nat]
  /\ has_non_ascii_GPU \in BOOLEAN /\ utf8_error_GPU \in BOOLEAN
  /\ {backslashes_GPU, quote_GPU, real_quote_GPU, in_string_GPU, op_GPU, open_close_GPU,
      structural_count_GPU} \subseteq [Words -> 0 .. Modulus - 1]

TrueQuotes(w) == WordOf(RealQuotes(text), w)

\* While the rows change their meaning in place, an item finds in its words what the
\* stage before left there, whatever the other items have done to theirs.
RowsFollowStages ==
  /\ stage = "findEscapedQuoteMerge" =>
       \A w \in Words :
         IF Done(w \div bitmap_words_per_thread)
         THEN BitsOf(real_quote_GPU[w]) = TrueQuotes(w) /\ quote_GPU[w] = Cardinality(TrueQuotes(w))
         ELSE BitsOf(quote_GPU[w]) = QuoteWord(text, w)
  /\ stage = "findOutUsefulStringMerge" =>
       \A w \in Words :
         IF Done(w \div bitmap_words_per_thread)
         THEN BitsOf(in_string_GPU[w]) = StructuralWord(text, w)
         ELSE /\ BitsOf(in_string_GPU[w]) = InStringWord(text, w)
              /\ BitsOf(op_GPU[w]) = OperatorWord(text, w)

\* The sum a word reads, of the counts that replaced the quotes, tells whether a string
\* enters it.
SumsAreStates ==
  stage = "inStringFinderBaseline" =>
    \A w \in Words : quote_GPU[w] % 2 = 1 <=> IncomingString(text, w * WordBytes)

\* After the checks, the two words say whether any thread has found anything.
ChecksComplete ==
  stage \notin {"checkAscii", "checkUTF8"} =>
    /\ has_non_ascii_GPU = (NonAscii(text) # {})
    /\ utf8_error_GPU = (FlaggedWords(text) # {})

\* What the call leaves: the structural bitmap, the brackets of it, and the number of
\* either in every word.
OutputCorrect ==
  Returned =>
    \A w \in Words :
      /\ BitsOf(in_string_GPU[w]) = StructuralWord(text, w)
      /\ BitsOf(open_close_GPU[w]) = OpenCloseResult(text, w)
      /\ structural_count_GPU[w] = Cardinality(StructuralWord(text, w))
      /\ op_GPU[w] = Cardinality(OpenCloseResult(text, w))

=============================================================================
