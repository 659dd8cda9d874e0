----------------------------- MODULE GpSegments -----------------------------
(***************************************************************************)
(* GPJSON's division of the input into one contiguous segment of whole     *)
(* words per thread of a fixed grid, and what a thread can see of its      *)
(* segment.  Bitmaps are sets of byte positions.                           *)
(***************************************************************************)
EXTENDS JsonText

CONSTANT Segments      \* GP4_ORIGINAL_THREADS, the threads of the grid

ASSUME SegmentsAssumption == Segments \in Nat \ {0}

CeilDiv(a, b) == (a + b - 1) \div b

\* bytes per thread, rounded up to whole words
SegmentBytes(text) ==
  IF DOMAIN text = {} THEN WordBytes
  ELSE CeilDiv(CeilDiv(Size(text), Segments), WordBytes) * WordBytes

\* Bytes from .. to - 1 of the text, and the words they lie in.
ByteRange(text, from, to) == {p \in DOMAIN text : from <= p /\ p < to}

(***************************************************************************)
(* The byte loop `escape = value == '\\' ? escape ^ 1 : 0`, started at     *)
(* byte `from` with escape = incoming: its state on arriving at byte p.    *)
(***************************************************************************)
EscapeOnArrival(text, from, incoming, p) ==
  LET run == CHOOSE k \in 0 .. p - from :
               /\ \A q \in (p - k) .. (p - 1) : text[q] = "slash"
               /\ k < p - from => text[p - k - 1] # "slash"
  IN  (IF run = p - from THEN run + incoming ELSE run) % 2

\* The quotes of a range that the loop counts.
QuotesFrom(text, from, to, incoming) ==
  {p \in ByteRange(text, from, to) :
     text[p] = "quote" /\ EscapeOnArrival(text, from, incoming, p) = 0}

OutgoingEscape(text, from, to, incoming) ==
  LET end == IF from >= Size(text) THEN from
             ELSE IF to < Size(text) THEN to ELSE Size(text)
  IN  EscapeOnArrival(text, from, incoming, end)

AllSlashes(text, from, to) == \A p \in ByteRange(text, from, to) : text[p] = "slash"

\* The first byte of the range that is not a backslash, when it is a quote.
FirstNonSlashQuote(text, from, to) ==
  {p \in ByteRange(text, from, to) :
     text[p] = "quote" /\ AllSlashes(text, from, p)}

\* The operators of a range that lie outside strings, given the quotes of the
\* range and the state in which the range is entered.
OutsideStrings(operators, quotes, incoming) ==
  {p \in operators : (Cardinality({q \in quotes : q <= p}) + incoming) % 2 = 0}

-----------------------------------------------------------------------------
(***************************************************************************)
(* What a design computes in which a segment learns the escape that enters *)
(* it from the previous segment alone: backslashes further back than one   *)
(* segment are not seen.  `bytes` is the size of a segment.                *)
(***************************************************************************)
LookbackEscape(text, bytes, p) ==
  LET start == (p \div bytes) * bytes
  IN  EscapeOnArrival(text, IF start = 0 THEN 0 ELSE start - bytes, 0, p)

LookbackQuotes(text, bytes) ==
  {p \in DOMAIN text : text[p] = "quote" /\ LookbackEscape(text, bytes, p) = 0}

LookbackStructural(text, bytes) ==
  OutsideStrings(Operators(text), LookbackQuotes(text, bytes), 0)

\* A whole segment of backslashes hides how the run before it began.
SlashSegment(text, bytes) ==
  \E s \in 1 .. CeilDiv(Size(text), bytes) - 1 :
    AllSlashes(text, s * bytes, (s + 1) * bytes)

=============================================================================
