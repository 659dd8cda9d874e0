------------------------------ MODULE Utf8Check ------------------------------
(***************************************************************************)
(* The UTF-8 check of the cuJSON kernels                                   *)
(* (benchmarks/cujson/include/hierarchical_common.cuh,                     *)
(* cujson/src/enumeration.cu) and the sequential one it is compared with.  *)
(* The kernels work on four bytes packed into a uint32_t, each lane on one *)
(* byte and the three before it; a lane's result is a set of error bits.   *)
(* The threads OR their words' errors into one word in any order.          *)
(***************************************************************************)
EXTENDS Integers, FiniteSets

CONSTANTS
  Texts,           \* functions from 0 .. n - 1 to byte values
  PartsPerWord     \* uint32_t groups of a thread's word: 8

Pack == 4          \* bytes of a uint32_t

Utf8Assumption ==
  /\ PartsPerWord \in Nat \ {0}
  /\ \A text \in Texts :
       Cardinality(DOMAIN text) \in Nat
       /\ text \in [0 .. Cardinality(DOMAIN text) - 1 -> 0 .. 255]

VARIABLES
  text,
  pending,         \* words no thread has checked yet
  utf_error        \* bits of the input's error word

vars == <<text, pending, utf_error>>

Size == Cardinality(DOMAIN text)

\* The input is copied into zeroed storage, and the byte before it counts as zero.
Byte(p) == IF p \in DOMAIN text THEN text[p] ELSE 0

-----------------------------------------------------------------------------
(***************************************************************************)
(* fullCujsonUtf8Classification, one lane.  Two of the masks share bit 6.  *)
(***************************************************************************)

BitOf ==
  [too_short |-> 0, too_long |-> 1, overlong_3 |-> 2, too_large |-> 3, surrogate |-> 4,
   overlong_2 |-> 5, overlong_4 |-> 6, too_large_1000 |-> 6, two_continuations |-> 7]

BitsOf(classes) == {BitOf[class] : class \in classes}

PreviousClasses(previous) ==
  {class \in DOMAIN BitOf :
     CASE class = "too_long"       -> previous < 128
       [] class = "too_short"      -> previous >= 192
       [] class = "overlong_2"     -> previous \in {192, 193}
       [] class = "surrogate"      -> previous = 237
       [] class = "overlong_3"     -> previous = 224
       [] class = "overlong_4"     -> previous = 240
       [] class = "too_large_1000" -> previous > 244
       [] class = "too_large"      -> previous > 243
       [] class = "two_continuations" -> FALSE}

\* first_byte is assigned a second time: what it held is only compared with zero.
FirstByte(previous) ==
  IF PreviousClasses(previous) = {} THEN BitsOf({"two_continuations"}) ELSE {}

SecondByteHigh(current) ==
  LET high == current \div 16 IN
  BitsOf({class \in DOMAIN BitOf :
            CASE class = "too_short"  -> high < 8 \/ high > 11
              [] class \in {"too_long", "overlong_2", "two_continuations"} -> high \in 8 .. 11
              [] class = "too_large"  -> high \in 9 .. 11
              [] class \in {"too_large_1000", "overlong_4"} -> high = 8
              [] class = "surrogate"  -> high \in 10 .. 11
              [] class = "overlong_3" -> FALSE})

Classification(p) == FirstByte(Byte(p - 1)) \cap SecondByteHigh(Byte(p))

SymDiff(A, B) == (A \ B) \cup (B \ A)

\* Mutant: a two-byte lead is taken for a three-byte one.
MustContinue_TwoByte(p) == Byte(p - 2) > 191 \/ Byte(p - 3) > 239

\* The saturating subtractions of 0xdf and 0xef leave something.
MustContinue(p) == Byte(p - 2) > 223 \/ Byte(p - 3) > 239

ContinuationBytes(p) ==
  SymDiff(IF MustContinue(p) THEN {7} ELSE {}, Classification(p))

\* previous - 0x..(ff ef df bf): the last bytes of the group before group g ask
\* for more than it holds.
Incomplete(g) ==
  Byte(Pack * g - 1) > 191 \/ Byte(Pack * g - 2) > 223 \/ Byte(Pack * g - 3) > 239

Ascii(g) == \A p \in Pack * g .. Pack * g + Pack - 1 : Byte(p) < 128

\* fullCujsonValidateUtf8FourBytes, for the groups the kernel passes to it.
GroupErrors(g) ==
  IF Ascii(g) THEN IF Incomplete(g) THEN {7} ELSE {}
  ELSE UNION {ContinuationBytes(p) : p \in Pack * g .. Pack * g + Pack - 1}

-----------------------------------------------------------------------------
WordSize == Pack * PartsPerWord

\* The words of the input and the padding word behind them.
Words == 0 .. (Size + WordSize - 1) \div WordSize

Init ==
  /\ text \in Texts
  /\ pending = Words
  /\ utf_error = {}

\* A thread checks its word; atomicOr(utf_errors + input_id, thread_utf_error).
Check(w) ==
  /\ w \in pending
  /\ utf_error' = utf_error \cup
       UNION {GroupErrors(g) : g \in w * PartsPerWord .. (w + 1) * PartsPerWord - 1}
  /\ pending' = pending \ {w}
  /\ UNCHANGED text

Next == \E w \in Words : Check(w)

Spec == Init /\ [][Next]_vars

-----------------------------------------------------------------------------
(***************************************************************************)
(* validUtf8: the characters it steps over, from a position on.            *)
(***************************************************************************)
Continuations(first) ==
  CASE first < 128 -> 0
    [] first \in 194 .. 223 -> 1
    [] first \in 224 .. 239 -> 2
    [] first \in 240 .. 244 -> 3
    [] OTHER -> -1

SecondRange(first) ==
  CASE first = 224 -> 160 .. 191
    [] first = 237 -> 128 .. 159
    [] first = 240 -> 144 .. 191
    [] first = 244 -> 128 .. 143
    [] OTHER -> 128 .. 191

\* A whole character of the text begins at p.
CharacterAt(p) ==
  LET n == Continuations(text[p]) IN
  /\ n >= 0 /\ p + n < Size
  /\ n >= 1 => text[p + 1] \in SecondRange(text[p])
  /\ \A k \in 2 .. n : text[p + k] \in 128 .. 191

\* The first bytes of the characters the loop reads.
ValidUtf8 ==
  LET valid[p \in 0 .. Size] ==
        p = Size \/ (CharacterAt(p) /\ valid[p + 1 + Continuations(text[p])])
  IN valid[0]

Checked == pending = {}

TypeOK ==
  /\ text \in [0 .. Size - 1 -> 0 .. 255]
  /\ pending \subseteq Words
  /\ utf_error \subseteq 0 .. 7

\* No thread, whatever has been checked before, flags a text validUtf8 accepts: the
\* characters that cross groups and words are put together right.
NeverFlagsValid == utf_error # {} => ~ValidUtf8

IsContinuation(byte) == byte \in 128 .. 191

\* A text the kernels accept has its third and fourth bytes where its leads ask for
\* them and nowhere else, also behind the last byte.
AcceptedContinuations ==
  Checked /\ utf_error = {} =>
    \A p \in 0 .. Size + 2 :
      (IsContinuation(Byte(p - 1)) /\ IsContinuation(Byte(p))) <=> MustContinue(p)

\* The drivers' comparison with validUtf8.
FlagsInvalid == Checked => (utf_error # {} <=> ~ValidUtf8)

=============================================================================
