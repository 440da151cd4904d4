--------------------------- MODULE MCConfigParser ---------------------------
(* The theme file for TLC: files of up to four characters over a key       *)
(* alphabet, a digit, the delimiter, the comment sign and the newline;     *)
(* after the buffer, a NUL at once, or a digit, or a whole "w=1" line.     *)
EXTENDS ConfigParser

MCAlphabet == {"w", "i", "1", "=", "#", "NL"}
MCFiles == SeqOf(MCAlphabet, 4)
MCHeap == {<<"NUL">>, <<"1", "NUL">>, <<"NL", "w", "=", "1", "NUL">>}
MCKeyOrder == <<<<"w">>, <<"i">>>>
MCDigits == {"1"}
MCDefColor == 0
=============================================================================
