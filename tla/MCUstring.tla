----------------------------- MODULE MCUstring -----------------------------
(* Characters of one, two and three bytes, which share bytes: the two-byte *)
(* one ends as the three-byte one does.  Formats are all short strings of  *)
(* a percent sign, a valid and an invalid number, a NUL and a character of *)
(* four bytes.                                                             *)
EXTENDS Ustring

CONSTANT FormatLength

MCChars == {0, 97, 233, 8361}
MCLiterals == {<<>>, <<97>>, <<233>>, <<233, 97>>, <<8361>>}
MCCountedMatches == {<<97>>, <<37, 97>>, <<233, 97>>}
MCFormats == UNION {[1 .. n -> {37, 49, 51, 0, 128512}] : n \in 0 .. FormatLength}
MCWords == {<<97, 233>>, <<8361>>, <<97, 55296>>}
MCLocaleChars == {97, 233}
MCPositions == 0 .. MaxChars + 1 \cup {npos}
MCCounts == {0, 1, 2, npos}
=============================================================================
