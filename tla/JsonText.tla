------------------------------ MODULE JsonText ------------------------------
(***************************************************************************)
(* What every tokenizer under benchmarks/ is asked to compute, and the     *)
(* word-at-a-time operations all of them share.                            *)
(*                                                                         *)
(* A text is a function from byte positions 0..n-1 to byte classes.  A     *)
(* bitmap is the set of positions whose bit is one, so "&", "|", "^" and   *)
(* "& ~" on bitmaps are \cap, \cup, symmetric difference and \.  Word w of *)
(* a bitmap is the part of it that lies in Word(w); the code uses words of *)
(* 64 (gpJSON) or 32 (cuJSON) bytes, here WordBytes.                       *)
(***************************************************************************)
EXTENDS Integers, FiniteSets

CONSTANT WordBytes

ASSUME WordBytesAssumption == WordBytes \in Nat \ {0} /\ WordBytes % 2 = 0

(***************************************************************************)
(* Byte classes: '\\', '"', one of {}[], one of : and comma, anything else *)
(***************************************************************************)
ByteClass == {"slash", "quote", "bracket", "separator", "other"}

Size(text) == Cardinality(DOMAIN text)

IsText(text) ==
  /\ Size(text) \in Nat
  /\ text \in [0 .. Size(text) - 1 -> ByteClass]

IsOpenClose(class) == class = "bracket"
IsOperator(class)  == class \in {"bracket", "separator"}

SymDiff(A, B) == (A \ B) \cup (B \ A)

-----------------------------------------------------------------------------
(***************************************************************************)
(* The specification of the tokenizers, with no reference to how any of    *)
(* them proceeds.                                                          *)
(***************************************************************************)

\* The k bytes before p are the whole run of backslashes that ends at p - 1.
MaximalSlashRun(text, p, k) ==
  /\ k \in 0 .. p
  /\ \A q \in (p - k) .. (p - 1) : text[q] = "slash"
  /\ k < p => text[p - k - 1] # "slash"

\* The byte at p is escaped: an odd run of backslashes ends just before it.
EscapedAt(text, p) ==
  \E k \in 0 .. p : MaximalSlashRun(text, p, k) /\ k % 2 = 1

RealQuotes(text) ==
  {p \in DOMAIN text : text[p] = "quote" /\ ~EscapedAt(text, p)}

QuotesBefore(text, p) == {q \in RealQuotes(text) : q < p}

\* The state in which a sequential scanner arrives at byte p.
IncomingString(text, p) == Cardinality(QuotesBefore(text, p)) % 2 = 1

\* The in-string bitmap: an opening quote is inside, a closing one is not.
InString(text) == {p \in DOMAIN text : IncomingString(text, p + 1)}

Operators(text)  == {p \in DOMAIN text : IsOperator(text[p])}
OpenCloses(text) == {p \in DOMAIN text : IsOpenClose(text[p])}

Structural(text) == Operators(text) \ InString(text)
OpenClose(text)  == OpenCloses(text) \ InString(text)

-----------------------------------------------------------------------------
(***************************************************************************)
(* The word-at-a-time operations the tokenizer kernels share.  A machine   *)
(* word is the set of its one bits, a subset of Bits; bit b of word w is   *)
(* byte w * WordBytes + b of the text.  Each operation is given by what it *)
(* computes; module WordAlgorithms checks the shift-and-add sequences of   *)
(* the code against these definitions.                                     *)
(***************************************************************************)
Bits == 0 .. WordBytes - 1

AllOnes == Bits

Invert(word) == Bits \ word

\* Words that hold a byte of the text; the last one may be partial.
WordCount(text) == (Size(text) + WordBytes - 1) \div WordBytes

(***************************************************************************)
(* Classification: one bit per byte of the word that is in the class.      *)
(* Bits past the end of the input are masked to zero.                      *)
(***************************************************************************)
BitsWhere(text, w, classes) ==
  {b \in Bits : /\ w * WordBytes + b \in DOMAIN text
                /\ text[w * WordBytes + b] \in classes}

SlashWord(text, w)     == BitsWhere(text, w, {"slash"})
QuoteWord(text, w)     == BitsWhere(text, w, {"quote"})
OperatorWord(text, w)  == BitsWhere(text, w, {"bracket", "separator"})
OpenCloseWord(text, w) == BitsWhere(text, w, {"bracket"})

(***************************************************************************)
(* clz(~word): the number of one bits at the top of the word.              *)
(***************************************************************************)
TrailingOnes(word) ==
  IF word = Bits THEN WordBytes
  ELSE CHOOSE n \in 0 .. WordBytes - 1 :
         /\ WordBytes - 1 - n \notin word
         /\ \A b \in (WordBytes - n) .. (WordBytes - 1) : b \in word

(***************************************************************************)
(* Bit b is escaped when the run of backslashes that ends just below it is *)
(* odd, an escape carried into the word counting as one more backslash in  *)
(* front of bit 0.  incoming is 0 or 1.                                    *)
(***************************************************************************)
EscapedBits(slash, incoming) ==
  {b \in Bits :
     \E k \in 0 .. b :
       /\ \A j \in (b - k) .. (b - 1) : j \in slash
       /\ k < b => b - k - 1 \notin slash
       /\ (IF k = b THEN k + incoming ELSE k) % 2 = 1}

FilterEscapedQuotes(quote, slash, incoming) ==
  quote \ EscapedBits(slash, incoming)

\* quote & ((slash << 1) | 1): no quote of the word can be escaped if empty.
PossibleEscaped(quote, slash) ==
  {b \in quote : b = 0 \/ b - 1 \in slash}

\* The inclusive prefix XOR of the quote bits: the in-string bits of a word
\* that is entered outside a string.
PrefixXor(quote) ==
  {b \in Bits : Cardinality({q \in quote : q <= b}) % 2 = 1}

\* The in-string bits for either state in which the word may be entered.
InStringCandidate(quotes, incoming) ==
  IF incoming THEN Invert(PrefixXor(quotes)) ELSE PrefixXor(quotes)

TopBit(word) == WordBytes - 1 \in word

Parity(word) == Cardinality(word) % 2

-----------------------------------------------------------------------------
(***************************************************************************)
(* Word w of the specified bitmaps.                                        *)
(***************************************************************************)
WordOf(bitmap, w) == {b \in Bits : w * WordBytes + b \in bitmap}

\* Past the end of the text the in-string state stays what it was.
InStringWord(text, w) == {b \in Bits : IncomingString(text, w * WordBytes + b + 1)}

StructuralWord(text, w) == WordOf(Structural(text), w)
OpenCloseResult(text, w) == WordOf(OpenClose(text), w)

=============================================================================
