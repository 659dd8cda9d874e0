----------------------------- MODULE GpBaseline ------------------------------
(***************************************************************************)
(* The GPJSON baseline that the other designs are compared with            *)
(* (benchmarks/gpjson/include/original_gpjson.cuh): eight kernels on the   *)
(* default stream, each over one contiguous segment per thread.  The       *)
(* threads of a kernel run in any order; what one kernel leaves, the next  *)
(* one reads: the escape out of the previous segment, the escaped bytes,   *)
(* the real quotes (which the string bitmap then overwrites), the parity   *)
(* of the quotes before the segment.                                       *)
(***************************************************************************)
EXTENDS GpSegments

CONSTANTS
  Texts,         \* inputs
  ScanThreads,   \* GP4_SCAN_THREADS
  Launches       \* warmups and measured runs

BaselineAssumption ==
  /\ \A text \in Texts : IsText(text)
  /\ ScanThreads \in Nat \ {0} /\ Segments % ScanThreads = 0
  /\ Launches \in Nat \ {0}

VARIABLES
  text, launch,
  stage, pending,            \* the running kernel and its threads yet to run
  escape_carry, escape_bitmap,
  quote_or_string_bitmap, quote_carry, xor_bases,
  structural_bitmap

problem  == <<text, launch>>
escapes  == <<escape_carry, escape_bitmap>>
scan     == <<quote_carry, xor_bases>>
vars     == <<problem, stage, pending, escapes, quote_or_string_bitmap, scan, structural_bitmap>>

Scan == INSTANCE XorScan WITH values <- quote_carry, bases <- xor_bases

Threads == 0 .. Segments - 1

\* gp4OriginalSegment
From(t) == t * SegmentBytes(text)
To(t)   == (t + 1) * SegmentBytes(text)

\* The bits of the words of segment t; a kernel writes whole words.
WordBits(t) ==
  {p \in 0 .. WordCount(text) * WordBytes - 1 : From(t) <= p /\ p < To(t)}

Put(bitmap, range, bits) == (bitmap \ range) \cup bits

-----------------------------------------------------------------------------
Following ==
  [carry |-> "escape", escape |-> "quote", quote |-> "prescan", prescan |-> "postscan",
   postscan |-> "rebase", rebase |-> "string", string |-> "structural"]

Units(kernel) ==
  CASE kernel \in {"prescan", "rebase"} -> Scan!ScanLanes
    [] kernel = "postscan" -> {0}
    [] OTHER -> Threads

Init ==
  /\ text \in Texts /\ launch = 0 /\ stage = "idle" /\ pending = {}
  \* cudaMalloc leaves every buffer undefined
  /\ \E garbage \in {0, 1} :
       LET bits == {p \in 0 .. WordCount(text) * WordBytes - 1 : garbage = 1}
       IN /\ escape_bitmap = bits /\ quote_or_string_bitmap = bits
          /\ structural_bitmap = bits
          /\ escape_carry = [t \in Threads |-> garbage]
          /\ quote_carry = [t \in Threads |-> garbage]
          /\ xor_bases = [t \in Scan!ScanLanes |-> garbage]

Launch ==
  /\ stage = "idle" /\ launch < Launches
  /\ launch' = launch + 1
  /\ stage' = "carry" /\ pending' = Units("carry")
  /\ UNCHANGED <<text, escapes, quote_or_string_bitmap, scan, structural_bitmap>>

NextKernel ==
  /\ stage # "idle" /\ pending = {}
  /\ IF stage = "structural"
     THEN stage' = "idle" /\ pending' = {}
     ELSE stage' = Following[stage] /\ pending' = Units(Following[stage])
  /\ UNCHANGED <<problem, escapes, quote_or_string_bitmap, scan, structural_bitmap>>

Runs(kernel, t) ==
  /\ stage = kernel /\ t \in pending
  /\ pending' = pending \ {t}
  /\ UNCHANGED <<problem, stage>>

-----------------------------------------------------------------------------
EscapeCarry(t) ==
  /\ Runs("carry", t)
  /\ escape_carry' = [escape_carry EXCEPT ![t] = OutgoingEscape(text, From(t), To(t), 0)]
  /\ UNCHANGED <<escape_bitmap, quote_or_string_bitmap, scan, structural_bitmap>>

\* The value thread t reads of the thread before it.
CarryIn(carry, t) == IF t = 0 THEN 0 ELSE carry[t - 1]

EscapeBitmap(t) ==
  /\ Runs("escape", t)
  /\ escape_bitmap' =
       Put(escape_bitmap, WordBits(t),
           {p \in ByteRange(text, From(t), To(t)) :
              EscapeOnArrival(text, From(t), CarryIn(escape_carry, t), p) = 1})
  /\ UNCHANGED <<escape_carry, quote_or_string_bitmap, scan, structural_bitmap>>

QuoteBitmap(t) ==
  LET quotes == {p \in ByteRange(text, From(t), To(t)) : text[p] = "quote"} \ escape_bitmap
  IN
  /\ Runs("quote", t)
  /\ quote_or_string_bitmap' = Put(quote_or_string_bitmap, WordBits(t), quotes)
  /\ quote_carry' = [quote_carry EXCEPT ![t] = Cardinality(quotes) % 2]
  /\ UNCHANGED <<escapes, xor_bases, structural_bitmap>>

PreScan(t) ==
  /\ Runs("prescan", t) /\ Scan!PreScan(t, Segments)
  /\ UNCHANGED <<escapes, quote_or_string_bitmap, structural_bitmap>>

PostScan ==
  /\ Runs("postscan", 0) /\ Scan!PostScan(Segments)
  /\ UNCHANGED <<escapes, quote_or_string_bitmap, structural_bitmap>>

Rebase(t) ==
  /\ Runs("rebase", t) /\ Scan!Rebase(t, Segments)
  /\ UNCHANGED <<escapes, quote_or_string_bitmap, structural_bitmap>>

\* Mutant: every word of a segment starts from the state that enters the segment.
CarriedString_PerWord(quotes, from, p) ==
  Cardinality({q \in quotes : (p \div WordBytes) * WordBytes <= q /\ q <= p}) % 2

\* From word to word the top bit of the string word is carried: the parity of the
\* quotes of the segment so far.
CarriedString(quotes, from, p) == Cardinality({q \in quotes : from <= q /\ q <= p}) % 2

StringBitmap(t) ==
  /\ Runs("string", t)
  /\ quote_or_string_bitmap' =
       Put(quote_or_string_bitmap, WordBits(t),
           {p \in WordBits(t) :
              Scan!Xor(CarriedString(quote_or_string_bitmap, From(t), p),
                       CarryIn(quote_carry, t)) = 1})
  /\ UNCHANGED <<escapes, scan, structural_bitmap>>

StructuralBitmap(t) ==
  /\ Runs("structural", t)
  /\ structural_bitmap' =
       Put(structural_bitmap, WordBits(t),
           {p \in ByteRange(text, From(t), To(t)) : IsOperator(text[p])}
             \ quote_or_string_bitmap)
  /\ UNCHANGED <<escapes, quote_or_string_bitmap, scan>>

Next ==
  \/ Launch \/ NextKernel \/ PostScan
  \/ \E t \in Threads : \/ EscapeCarry(t) \/ EscapeBitmap(t) \/ QuoteBitmap(t)
                        \/ StringBitmap(t) \/ StructuralBitmap(t)
  \/ \E t \in Scan!ScanLanes : PreScan(t) \/ Rebase(t)

Spec == Init /\ [][Next]_vars

-----------------------------------------------------------------------------
TypeOK ==
  /\ text \in Texts /\ launch \in 0 .. Launches
  /\ stage \in DOMAIN Following \cup {"idle", "structural"}
  /\ pending \subseteq Threads
  /\ escape_bitmap \cup quote_or_string_bitmap \cup structural_bitmap
       \subseteq 0 .. WordCount(text) * WordBytes - 1
  /\ escape_carry \in [Threads -> {0, 1}] /\ quote_carry \in [Threads -> {0, 1}]
  /\ xor_bases \in [Scan!ScanLanes -> {0, 1}]

\* The segment a thread has turned into a string bitmap, and no other, holds the
\* strings: the threads that overwrite the quotes in place do not read each other's
\* words.
StringsReplaceQuotes ==
  stage = "string" =>
    \A t \in Threads : \A p \in ByteRange(text, From(t), To(t)) :
      LET quotes == LookbackQuotes(text, SegmentBytes(text)) IN
      p \in quote_or_string_bitmap <=>
        IF t \in pending THEN p \in quotes
        ELSE Cardinality({q \in quotes : q <= p}) % 2 = 1

\* After every launch the baseline holds the tokenization with the escape that
\* enters a segment taken from the previous segment alone.
OutputIsLookback ==
  launch > 0 /\ stage = "idle" =>
    structural_bitmap = LookbackStructural(text, SegmentBytes(text))

\* The baseline is the tokenization of every input without a whole segment of
\* backslashes.
CorrectWithoutSlashSegments ==
  launch > 0 /\ stage = "idle" /\ ~SlashSegment(text, SegmentBytes(text)) =>
    structural_bitmap = Structural(text)

=============================================================================
