--------------------------- MODULE PreparedGpjson ---------------------------
(***************************************************************************)
(* The GPJSON program prepared as an input of the compiler                 *)
(* (inputs/gpjson/gpjson.cpp), read as the CUDA kernels it was made from:  *)
(* the eight stages of the baseline, except that the string stage divides  *)
(* the words, not the bytes, among the threads, and that the stages state  *)
(* when a thread stores a word.  The upstream assertion of the escape      *)
(* stage is there, and defined away.                                       *)
(*                                                                         *)
(* The caller passes the sizes; upstream, levelSize is the number of       *)
(* words, stringCarrySize that of the threads, and xorBaseSize that of the *)
(* threads of the scan.                                                    *)
(***************************************************************************)
EXTENDS GpBaseline

levelSize == WordCount(text)

\* The words a byte loop stores: those whose last byte it passes, and the last one of
\* the input when that is cut off.
StoredWords(t) ==
  LET last == Size(text) - 1 IN
  {p \div WordBytes : p \in
     {q \in ByteRange(text, From(t), To(t)) : q % WordBytes = WordBytes - 1}
     \cup {q \in {last} : /\ Size(text) <= To(t) /\ Size(text) > From(t)
                          /\ last % WordBytes # WordBytes - 1}}

Store(bitmap, words, bits) == Put(bitmap, {p \in bitmap \cup bits : p \div WordBytes \in words}, bits)

gpjson_escape_carry(t) == EscapeCarry(t)

gpjson_escape_index(t) ==
  /\ Runs("escape", t)
  /\ escape_bitmap' =
       Store(escape_bitmap, StoredWords(t),
             {p \in ByteRange(text, From(t), To(t)) :
                EscapeOnArrival(text, From(t), CarryIn(escape_carry, t), p) = 1})
  /\ UNCHANGED <<escape_carry, quote_or_string_bitmap, scan, structural_bitmap>>

\* assert(escapeCount != totalCount), which the prepared source turns into nothing
EscapeAssertion(t) ==
  Cardinality({p \in ByteRange(text, From(t), To(t)) : text[p] = "slash"}) # To(t) - From(t)

gpjson_quote_index(t) ==
  LET quotes == {p \in ByteRange(text, From(t), To(t)) : text[p] = "quote"} \ escape_bitmap IN
  /\ Runs("quote", t)
  /\ quote_or_string_bitmap' = Store(quote_or_string_bitmap, StoredWords(t), quotes)
  /\ quote_carry' = [quote_carry EXCEPT ![t] = Cardinality(quotes) % 2]
  /\ UNCHANGED <<escapes, xor_bases, structural_bitmap>>

gpjson_xor_pre_scan(t) == PreScan(t)
gpjson_xor_post_scan   == PostScan
gpjson_xor_rebase(t)   == Rebase(t)

\* elemsPerThread, of gpjson_string_index
StringWords(t) ==
  LET elems == CeilDiv(levelSize, Segments)
  IN  {w \in 0 .. levelSize - 1 : w \div elems = t}

gpjson_string_index(t) ==
  LET bits  == {p \in 0 .. levelSize * WordBytes - 1 : p \div WordBytes \in StringWords(t)}
      first == CHOOSE p \in bits : \A q \in bits : p <= q
  IN
  /\ Runs("string", t)
  /\ quote_or_string_bitmap' =
       Put(quote_or_string_bitmap, bits,
           {p \in bits : Scan!Xor(CarriedString(quote_or_string_bitmap, first, p),
                                  CarryIn(quote_carry, t)) = 1})
  /\ UNCHANGED <<escapes, scan, structural_bitmap>>

gpjson_structural_bitmap(t) ==
  /\ Runs("structural", t)
  /\ structural_bitmap' =
       Store(structural_bitmap, StoredWords(t),
             {p \in ByteRange(text, From(t), To(t)) : IsOperator(text[p])}
               \ quote_or_string_bitmap)
  /\ UNCHANGED <<escapes, quote_or_string_bitmap, scan>>

gpjson_driver ==
  \/ Launch \/ NextKernel \/ gpjson_xor_post_scan
  \/ \E t \in Threads :
       \/ gpjson_escape_carry(t) \/ gpjson_escape_index(t) \/ gpjson_quote_index(t)
       \/ gpjson_string_index(t) \/ gpjson_structural_bitmap(t)
  \/ \E t \in Scan!ScanLanes : gpjson_xor_pre_scan(t) \/ gpjson_xor_rebase(t)

-----------------------------------------------------------------------------
\* The words a thread turns into strings are those of its bytes, or the parity it
\* starts from would be that of other words.
DivisionsAgree ==
  \A t \in Threads : StringWords(t) = {p \div WordBytes : p \in ByteRange(text, From(t), To(t))}

\* The assertion that is defined away says exactly when the escape of the segment
\* before is not enough: as long as it holds in every segment, the result is right.
RightIfAsserted ==
  launch > 0 /\ stage = "idle" =>
    /\ structural_bitmap = LookbackStructural(text, SegmentBytes(text))
    /\ (\A t \in Threads : EscapeAssertion(t)) => structural_bitmap = Structural(text)

=============================================================================
