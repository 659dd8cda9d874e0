-------------------------- MODULE MCGpEnumeration ---------------------------
(* Two words per block, room for two blocks at most, texts of up to five      *)
(* words: backslash runs and strings that cross words and blocks.             *)
EXTENDS GpEnumeration, Sequences

T(bytes) == [p \in 0 .. Len(bytes) - 1 |-> bytes[p + 1]]

\* three words; a run that fills the second and escapes the quote in the third
Run    == T(<<"quote", "slash", "slash", "slash", "quote", "bracket">>)
\* a string opened in the first block and closed in the second
String == T(<<"bracket", "quote", "bracket", "slash", "quote", "quote", "separator">>)
\* five words, three blocks
Long   == T(<<"quote", "slash", "slash", "slash", "slash", "slash", "quote", "quote", "bracket">>)

MCTexts == {T(<<>>), Run, String, Long}

=============================================================================
