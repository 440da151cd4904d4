------------------------------ MODULE TextArea ------------------------------
(***************************************************************************)
(* The log window: the text area ui.ta_log that textarea_init              *)
(* (src/libminui/minui.c) creates with ~TAF_TOPTODOWN | TAF_LIFO, filled   *)
(* by tboot_ui_textline (src/src/tboot_ui.c) through textarea_putline and  *)
(* drawn by textarea_refresh.  Only the fastboot thread logs, one line at  *)
(* a time, so every call is one step.                                      *)
(*                                                                         *)
(* The area is a ring of NrLines text lines of LineLen bytes; cur_line is  *)
(* the last one written.  A message is cut into pieces that fit the area's *)
(* pixel width (DirectFB's GetStringBreak) and each piece overwrites the   *)
(* next line of the ring.  A character is a model value with a pixel      *)
(* advance; NL is the newline, NUL the string terminator.  The ring lines  *)
(* come from malloc and are never cleared, so their first contents are    *)
(* whatever the heap held (the constant Heap).                            *)
(***************************************************************************)
EXTENDS Integers, Sequences, SequencesExt, FiniteSets

CONSTANTS
    NrLines,        \* ta->nr_lines = ta->height / font_height
    Width,          \* ta->width, in pixels
    FontWidth,      \* win->font_width, the font's GetMaxAdvance
    Advance,        \* Advance[c]: the pixel advance of character c
    LineLenInChar,  \* LINE_LEN_INCHAR, the buffer vsnprintf writes into
    Msgs,           \* the formatted messages the callers log
    Heap,           \* the contents a freshly malloc'ed ring line may have
    MaxLogs         \* bound on the number of tboot_ui_textline calls

NUL == "NUL"
NL == "NL"
Chars == DOMAIN Advance

(* textline_init(ta->width / ta->win->font_width + 1) in textarea_init.  *)
LineLen == Width \div FontWidth + 1

Slots == 0 .. NrLines - 1

ASSUME /\ NrLines > 0 /\ NL \in Chars /\ Advance[NL] = 0
       /\ \A c \in Chars : Advance[c] <= FontWidth /\ Advance[c] <= Width
       /\ \A m \in Msgs : m # <<>>
       /\ Heap \subseteq [1 .. LineLen -> Chars \cup {NUL}]

VARIABLES
    lines,    \* lines[i]: the bytes of ta->lines[i]->text
    cur,      \* ta->cur_line
    shown,    \* the texts the last refresh drew, from the top down
    pieces,   \* every piece put into the ring so far, in order
    logs      \* number of tboot_ui_textline calls

taVars == <<lines, cur, shown, pieces, logs>>

LogInit ==
    /\ lines \in [Slots -> Heap]
    /\ cur = -1
    /\ shown = <<>>
    /\ pieces = <<>>
    /\ logs = 0

(* vsnprintf(msg->text, LINE_LEN_INCHAR, ...): the message, truncated to  *)
(* the buffer less its terminator.                                        *)
Vsnprintf(m) == SubSeq(m, 1, Min({Len(m), LineLenInChar - 1}))

StrWidth(s) == FoldLeft(LAMBDA w, c : w + Advance[c], 0, s)

(* GetStringBreak(font, pos, length, ta->width, ...): the length of the   *)
(* longest prefix whose advance fits the width, ended early by a newline  *)
(* (the newline is counted, as the test of pos[ret_str_length - 1] in     *)
(* textarea_putline expects).  DirectFB also prefers to break after a     *)
(* space; the characters here have none.                                  *)
BreakLen(s) ==
    LET fit == Max({j \in 1 .. Len(s) : StrWidth(SubSeq(s, 1, j)) <= Width})
        nl  == SelectInSeq(s, LAMBDA c : c = NL)
    IN  IF nl # 0 /\ nl <= fit THEN nl ELSE fit

(* The pieces the while (length) loop of textarea_putline cuts s into.    *)
RECURSIVE Break(_)
Break(s) ==
    IF s = <<>> THEN <<>>
    ELSE <<SubSeq(s, 1, BreakLen(s))>> \o Break(SubSeq(s, BreakLen(s) + 1, Len(s)))

(* Mutant: the newline at the end of a piece is left in the line.       *)
StoreKeepNewline(p) ==
    [j \in 1 .. LineLen |-> IF j <= Min({Len(p), LineLen}) THEN p[j] ELSE NUL]
(* memset(l->text, '\0', l->len); memcpy(l->text, pos,                    *)
(* min(ret_str_length, l->len)); and the newline at the end of the piece  *)
(* cleared.  A piece of l->len bytes or more leaves no terminator.  (The  *)
(* newline write past the buffer, for a longer piece, is not kept.)       *)
Store(p) ==
    LET k == Len(p)
        copied == [j \in 1 .. LineLen |-> IF j <= Min({k, LineLen}) THEN p[j] ELSE NUL]
    IN  IF p[k] = NL /\ k <= LineLen THEN [copied EXCEPT ![k] = NUL] ELSE copied

(* The ring after the pieces ps are put, one line each, from cur_line on. *)
RECURSIVE PutLines(_, _, _)
PutLines(ls, c, ps) ==
    IF ps = <<>> THEN [lines |-> ls, cur |-> c]
    ELSE LET n == (c + 1) % NrLines
         IN  PutLines([ls EXCEPT ![n] = Store(Head(ps))], n, Tail(ps))

(* What strlen and DrawString make of a line: the bytes before the first  *)
(* NUL; a line with no NUL runs on into the heap beyond it (HEAP).        *)
Text(t) ==
    LET z == SelectInSeq(t, LAMBDA c : c = NUL)
    IN  IF z = 0 THEN t \o <<"HEAP">> ELSE SubSeq(t, 1, z - 1)

(* textarea_refresh with TAF_LIFO and without TAF_TOPTODOWN: from         *)
(* cur_line backwards round the ring, skipping empty lines, each drawn    *)
(* one row above the last from the bottom.  Listed from the top down.     *)
TextareaRefresh(ls, c) ==
    LET visit == [j \in 1 .. NrLines |-> Text(ls[(c - (j - 1) + NrLines) % NrLines])]
    IN  Reverse(SelectSeq(visit, LAMBDA t : t # <<>>))

(* tboot_ui_textline(ta, color, fmt, ...).  textline_init of the message  *)
(* may fail and return; otherwise the formatted message is put and the    *)
(* area refreshed.  Colours are left out.                                 *)
TextLine(m) ==
    /\ logs < MaxLogs
    /\ logs' = logs + 1
    /\ \/ UNCHANGED <<lines, cur, shown, pieces>>
       \/ LET ps == Break(Vsnprintf(m))
              r  == PutLines(lines, cur, ps)
          IN  /\ lines' = r.lines
              /\ cur' = r.cur
              /\ pieces' = pieces \o ps
              /\ shown' = TextareaRefresh(r.lines, r.cur)

-----------------------------------------------------------------------------
(* Properties *)

(* The text a piece should show: the piece without its newline.           *)
PieceText(p) == IF Last(p) = NL THEN Front(p) ELSE p

(* The last NrLines pieces put, oldest first, blank ones left out.        *)
Latest ==
    LET last == SubSeq(pieces, Max({1, Len(pieces) - NrLines + 1}), Len(pieces))
    IN  SelectSeq([j \in 1 .. Len(last) |-> PieceText(last[j])], LAMBDA t : t # <<>>)

LogTypeOK ==
    /\ lines \in [Slots -> [1 .. LineLen -> Chars \cup {NUL}]]
    /\ cur \in -1 .. NrLines - 1
    /\ logs \in 0 .. MaxLogs

(* The log shows the latest messages, newest at the bottom: after any run *)
(* of tboot_ui_textline calls, the bottom rows of the log window are the  *)
(* texts of the last pieces textarea_putline wrote, in order, each without *)
(* its newline; once the ring has wrapped, that is all the window shows   *)
(* (before, the rows above show what the heap left in unwritten lines).   *)
ShowsLatest ==
    pieces # <<>> =>
        /\ IsSuffix(Latest, shown)
        /\ Len(pieces) >= NrLines => shown = Latest
=============================================================================
