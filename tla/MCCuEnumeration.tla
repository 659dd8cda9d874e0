-------------------------- MODULE MCCuEnumeration ---------------------------
(* Two inputs that share two resident CTAs: one of two chunks, whose words  *)
(* put a backslash run or an escaped quote on a word boundary, and one of   *)
(* a single chunk.                                                          *)
EXTENDS CuEnumeration

T(bytes) == [p \in 0 .. Len(bytes) - 1 |-> bytes[p + 1]]

\* a run that fills a word and escapes the quote two words later
LongRun  == T(<<"other", "slash", "slash", "slash", "quote", "bracket">>)
\* an odd run at the end of a word in front of a quote, operators around it
Escape   == T(<<"quote", "slash", "quote", "bracket", "quote", "separator">>)
\* the string opened in the first chunk is still open in the second
OpenString == T(<<"quote", "other", "bracket", "bracket", "bracket", "quote">>)
Short    == T(<<"quote", "separator">>)
Empty    == T(<<>>)

MCBatches == {<<LongRun, Short>>, <<Escape, Empty>>, <<Short, OpenString>>}

\* an error in the middle, and one that only the padding behind the text reveals
MCFlaggedWords(text) ==
  CASE text = Escape     -> {1}
    [] text = OpenString -> {WordCount(text)}
    [] OTHER             -> {}

MCLiveBatches == {<<LongRun, Short>>}

=============================================================================
