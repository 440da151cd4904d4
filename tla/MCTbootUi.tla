------------------------------ MODULE MCTbootUi ------------------------------
(* TbootUi with the bar percents of MCProgressBar and a log window two    *)
(* lines high and two characters wide (an advance of 2 in a width of 4,   *)
(* so line buffers of 3 bytes).  The messages wrap over two lines, end    *)
(* in a newline, are a bare newline, or are cut by vsnprintf (a buffer of *)
(* 5 bytes); a fresh ring line holds zeros, a short string or bytes with  *)
(* no terminator.                                                         *)
EXTENDS TbootUi

MCPercents == {BAR_BOUNCE, 0, 50, -50, 150}
MCMaxCalls == 4
MCNrLines == 2
MCWidth == 4
MCFontWidth == 2
MCAdvance == [c \in {"a", NL} |-> IF c = NL THEN 0 ELSE 2]
MCLineLenInChar == 5
MCMsgs == {<<"a", "a", "a">>, <<"a", NL>>, <<NL>>, <<"a", "a", "a", "a", "a">>}
MCHeap == {<<NUL, NUL, NUL>>, <<"a", NUL, NUL>>, <<"a", "a", "a">>}
MCMaxLogs == 3
=============================================================================
